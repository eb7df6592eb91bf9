-------------------------- MODULE RateLimiterProofs --------------------------
(***************************************************************************)
(* RateLimiter implements FixedWindow, and what it answers is true, for    *)
(* any buckets, limits, window and clean-up interval.                      *)
(***************************************************************************)
EXTENDS RateLimiter, FiniteSetTheorems, TLAPS

\* The length of a window is a positive number of ticks.
LEMMA LengthPositive == Length \in Nat \ {0}
<1>1. WindowSeconds * TicksPerSecond \in Nat
  BY LengthAssumption
<1>2. WindowSeconds * TicksPerSecond > 0
  BY LengthAssumption
<1> QED
  BY <1>1, <1>2 DEF Length

\* The table after a clean-up is a part of the table before: the buckets of some set keep theirs.
LEMMA TableIsPart ==
    ASSUME LimiterTypeOK
    PROVE  /\ DOMAIN Table \subseteq DOMAIN windows
           /\ DOMAIN windows \subseteq Keys
           /\ \A k \in DOMAIN windows : windows[k] \in Window
           /\ \A k \in DOMAIN Table : Table[k] = windows[k]
<1>1. /\ DOMAIN windows \subseteq Keys
      /\ \A k \in DOMAIN windows : windows[k] \in Window
  BY DEF LimiterTypeOK
<1>2. Recent(windows) \subseteq DOMAIN windows
  BY DEF Recent
<1> QED
  BY <1>1, <1>2 DEF Table

\* A clean-up forgets no window that still lasts.
LEMMA LiveAreKept ==
    ASSUME LimiterTypeOK, NEW key \in DOMAIN windows, ~Expired(windows[key])
    PROVE  key \in DOMAIN Table
<1>1. windows[key].started_at \in Nat /\ now \in Nat /\ Length \in Nat
  BY TableIsPart, LengthPositive DEF LimiterTypeOK, Window
<1>2. key \in Recent(windows)
  BY <1>1 DEF Recent, Expired
<1> QED
  BY <1>2 DEF Table

\* The window in which a call is counted: the bucket's, while it lasts, or a new one.
LEMMA CountedWindow ==
    ASSUME LimiterTypeOK, NEW key \in Keys
    PROVE  Counted(Table, key) =
             IF Live(key) THEN [windows[key] EXCEPT !.requests = @ + 1]
             ELSE [started_at |-> now, requests |-> 1]
  BY TableIsPart, LiveAreKept DEF Counted, Live

\* It is a window, and it has not expired.
LEMMA CountedIsLive ==
    ASSUME LimiterTypeOK, NEW key \in Keys
    PROVE  /\ Counted(Table, key) \in Window
           /\ ~Expired(Counted(Table, key))
<1>1. now \in Nat /\ Length \in Nat \ {0}
  BY LengthPositive DEF LimiterTypeOK
<1>2. CASE Live(key)
  <2>1. windows[key] \in Window
    BY <1>2, TableIsPart DEF Live
  <2>2. Counted(Table, key) = [windows[key] EXCEPT !.requests = @ + 1]
    BY <1>2, CountedWindow
  <2>3. /\ [windows[key] EXCEPT !.requests = @ + 1] \in Window
        /\ [windows[key] EXCEPT !.requests = @ + 1].started_at = windows[key].started_at
    BY <2>1 DEF Window
  <2> QED
    BY <1>2, <2>2, <2>3 DEF Live, Expired
<1>3. CASE ~Live(key)
  <2>1. Counted(Table, key) = [started_at |-> now, requests |-> 1]
    BY <1>3, CountedWindow
  <2> QED
    BY <1>1, <2>1 DEF Window, Expired
<1> QED
  BY <1>2, <1>3

\* An answer is well formed: the caller is told to wait at least a second.
LEMMA ResultIsAnswer ==
    ASSUME LimiterTypeOK, NEW key \in Keys, NEW window \in Window
    PROVE  Result(key, window) \in Answer
<1>1. /\ now \in Nat /\ Length \in Nat /\ Limit[key] \in Nat /\ TicksPerSecond \in Nat \ {0}
      /\ window.started_at \in Nat /\ window.requests \in Nat
  BY LengthPositive, LengthAssumption, LimitAssumption DEF LimiterTypeOK, Window
<1> DEFINE ticks == Length - (now - window.started_at)
<1>2. ticks + TicksPerSecond - 1 \in Int
  BY <1>1
<1>3. (ticks + TicksPerSecond - 1) \div TicksPerSecond \in Int
  <2> HIDE DEF ticks
  <2> QED
    BY <1>1, <1>2
<1>4. Later(1, Seconds(ticks)) \in Nat \ {0}
  <2> HIDE DEF ticks
  <2> QED
    BY <1>3 DEF Seconds, Later
<1>5. Later(Limit[key] - window.requests, 0) \in Nat
  BY <1>1 DEF Later
<1>6. (window.requests <= Limit[key]) \in BOOLEAN
  OBVIOUS
<1> QED
  BY <1>1, <1>4, <1>5, <1>6 DEF Result, Answer

-----------------------------------------------------------------------------
\* Every step keeps the types.
LEMMA LimiterTypeStep ==
    ASSUME LimiterTypeOK, [LimiterNext]_limiterVars
    PROVE  LimiterTypeOK'
<1> USE DEF LimiterTypeOK
<1>1. CASE UNCHANGED limiterVars
  BY <1>1 DEF limiterVars
<1>2. CASE Advance
  BY <1>2 DEF Advance
<1>3. ASSUME NEW key \in Keys, Consume(key)
      PROVE  LimiterTypeOK'
  <2>1. (\E live \in SUBSET Keys : windows \in [live -> Window])'
    <3>1. windows' \in [DOMAIN Table \cup {key} -> Window]
      BY <1>3, TableIsPart, CountedIsLive DEF Consume
    <3>2. DOMAIN Table \cup {key} \in SUBSET Keys
      BY TableIsPart
    <3> QED
      BY <3>1, <3>2
  <2>2. requests_since_cleanup' \in 0 .. CleanupEvery - 1
    BY <1>3, LimiterBoundAssumption DEF Consume, Due
  <2>3. answers' \in Seq(Answer)
    BY <1>3, CountedIsLive, ResultIsAnswer DEF Consume
  <2> QED
    BY <1>3, <2>1, <2>2, <2>3 DEF Consume
<1> QED
  BY <1>1, <1>2, <1>3 DEF LimiterNext

\* The table, the counter of the clean-up and the answers have their types in every state.
THEOREM LimiterTypeCorrect == LimiterSpec => []LimiterTypeOK
<1>1. LimiterInit => LimiterTypeOK
  <2> SUFFICES ASSUME LimiterInit PROVE LimiterTypeOK
    OBVIOUS
  <2>1. windows \in [{} -> Window]
    BY DEF LimiterInit
  <2>2. /\ requests_since_cleanup \in 0 .. CleanupEvery - 1
        /\ now \in Nat /\ answers \in Seq(Answer)
    BY LimiterBoundAssumption DEF LimiterInit
  <2> QED
    BY <2>1, <2>2 DEF LimiterTypeOK
<1> QED
  BY <1>1, LimiterTypeStep, PTL DEF LimiterSpec

-----------------------------------------------------------------------------
\* The refinement mapping, under names of its own.
openBar == [k \in Keys |-> IF Live(k) THEN windows[k] ELSE [started_at |-> 0, requests |-> 0]]
verdictBar ==
    IF answers = <<>> THEN [key |-> FirstKey, at |-> 0, allowed |-> FALSE]
    ELSE LET last == answers[Len(answers)]
         IN  [key |-> last.key, at |-> last.at, allowed |-> last.allowed]

\* A bucket has a window in the abstract limiter exactly while the table's still lasts.
LEMMA OpenIsLive ==
    ASSUME LimiterTypeOK, NEW key \in Keys
    PROVE  openBar[key].requests > 0 <=> Live(key)
  BY TableIsPart DEF openBar, Live, Window

\* A tick closes the windows that have come to their end.
LEMMA AdvancePasses ==
    ASSUME LimiterTypeOK, Advance
    PROVE  Promised!Pass
<1>1. \A k \in Keys : Live(k)' <=> Live(k) /\ now + 1 - windows[k].started_at < Length
  BY TableIsPart, LengthPositive DEF Advance, Live, Expired, LimiterTypeOK, Window
<1>2. openBar' = [k \in Keys |->
                    IF openBar[k].requests > 0 /\ now + 1 - openBar[k].started_at < Length
                    THEN openBar[k] ELSE [started_at |-> 0, requests |-> 0]]
  BY <1>1, OpenIsLive DEF openBar, Advance
<1>3. verdictBar' = verdictBar /\ now' = now + 1
  BY DEF Advance, verdictBar
<1> QED
  BY <1>2, <1>3 DEF Promised!Pass, Promised!Closed, openBar, verdictBar

\* A call, with or without a clean-up, counts in its bucket and in no other.
LEMMA CallStep ==
    ASSUME LimiterTypeOK, NEW key \in Keys, Consume(key)
    PROVE  /\ now' = now
           /\ answers' = Append(answers, Result(key, windows'[key]))
           /\ windows'[key] = Counted(Table, key) /\ windows'[key] \in Window
           /\ Live(key)'
           /\ \A k \in Keys \ {key} :
                /\ Live(k)' <=> Live(k)
                /\ Live(k) => windows'[k] = windows[k]
<1> DEFINE window == Counted(Table, key)
<1>1. /\ windows' = [k \in DOMAIN Table \cup {key} |-> IF k = key THEN window ELSE Table[k]]
      /\ answers' = Append(answers, Result(key, window))
      /\ now' = now
  BY DEF Consume
<1>2. window \in Window /\ ~Expired(window)
  BY CountedIsLive
<1> HIDE DEF window
<1>3. \A k \in Keys : k # key => (Live(k)' <=> Live(k))
  <2> SUFFICES ASSUME NEW k \in Keys, k # key
               PROVE  Live(k)' <=> Live(k)
    OBVIOUS
  <2>1. k \in DOMAIN windows' <=> k \in DOMAIN Table
    BY <1>1
  <2>2. k \in DOMAIN Table => windows'[k] = windows[k] /\ k \in DOMAIN windows
    BY <1>1, TableIsPart
  <2>3. Live(k) => k \in DOMAIN Table
    BY LiveAreKept DEF Live
  <2> QED
    BY <1>1, <2>1, <2>2, <2>3 DEF Live, Expired
<1>4. \A k \in Keys : k # key /\ Live(k) => windows'[k] = windows[k]
  BY <1>1, LiveAreKept, TableIsPart DEF Live
<1>5. Live(key)' /\ windows'[key] = window
  BY <1>1, <1>2 DEF Live, Expired
<1> QED
  BY <1>1, <1>2, <1>3, <1>4, <1>5 DEF window

\* So does the abstract limiter.
LEMMA ConsumeCounts ==
    ASSUME LimiterTypeOK, NEW key \in Keys, Consume(key)
    PROVE  Promised!Count(key)
<1> DEFINE window == Counted(Table, key)
<1>1. /\ windows' = [k \in DOMAIN Table \cup {key} |-> IF k = key THEN window ELSE Table[k]]
      /\ answers' = Append(answers, Result(key, window))
      /\ now' = now
  BY DEF Consume
<1>2. window \in Window /\ ~Expired(window)
  BY CountedIsLive
<1>3. window = [started_at |-> IF openBar[key].requests > 0 THEN openBar[key].started_at ELSE now,
                requests   |-> openBar[key].requests + 1]
  <2>1. CASE Live(key)
    <3>1. openBar[key] = windows[key] /\ windows[key] \in Window
      BY <2>1, TableIsPart DEF openBar, Live
    <3>2. window = [windows[key] EXCEPT !.requests = @ + 1]
      BY <2>1, CountedWindow
    <3> QED
      BY <2>1, <3>1, <3>2, OpenIsLive DEF Window
  <2>2. CASE ~Live(key)
    <3>1. openBar[key] = [started_at |-> 0, requests |-> 0]
      BY <2>2 DEF openBar
    <3>2. window = [started_at |-> now, requests |-> 1]
      BY <2>2, CountedWindow
    <3> QED
      BY <3>1, <3>2
  <2> QED
    BY <2>1, <2>2
<1> HIDE DEF window
<1>4. \A k \in Keys : k # key => (Live(k)' <=> Live(k))
  BY CallStep
<1>5. \A k \in Keys : k # key /\ Live(k) => windows'[k] = windows[k]
  BY CallStep
<1>6. Live(key)' /\ windows'[key] = window
  BY CallStep DEF window
<1>7. openBar' = [openBar EXCEPT ![key] = window]
  <2>1. \A k \in Keys : openBar'[k] = IF k = key THEN window ELSE openBar[k]
    BY <1>4, <1>5, <1>6 DEF openBar
  <2>2. DOMAIN openBar = Keys /\ openBar' = [k \in Keys |-> openBar'[k]]
    BY DEF openBar
  <2> QED
    BY <2>1, <2>2 DEF openBar
<1>8. verdictBar' = [key |-> key, at |-> now, allowed |-> openBar'[key].requests <= Limit[key]]
  <2>1. answers \in Seq(Answer) /\ Result(key, window) \in Answer
    BY <1>2, ResultIsAnswer DEF LimiterTypeOK
  <2>2. answers' # <<>> /\ answers'[Len(answers')] = Result(key, window)
    BY <1>1, <2>1
  <2>3. openBar'[key] = window
    BY <1>7 DEF openBar
  <2> QED
    BY <2>2, <2>3 DEF verdictBar, Result
<1> QED
  BY <1>1, <1>3, <1>7, <1>8 DEF Promised!Count, openBar, verdictBar

\* With its table tidied at any interval, the limiter implements the one that closes each window
\* when it ends and forgets none before.
THEOREM LimiterRefines == LimiterSpec => CleanupIsInvisible
<1>1. LimiterInit => Promised!Start
  <2> SUFFICES ASSUME LimiterInit PROVE Promised!Start
    OBVIOUS
  <2>1. \A k \in Keys : ~Live(k)
    BY DEF LimiterInit, Live
  <2>2. FirstKey \in Keys
    BY LimitAssumption DEF FirstKey
  <2> QED
    BY <2>1, <2>2 DEF LimiterInit, Promised!Start, Promised!Closed, Promised!NoCall
<1>2. LimiterTypeOK /\ [LimiterNext]_limiterVars => [Promised!Step]_(Promised!abstract)
  <2> SUFFICES ASSUME LimiterTypeOK, [LimiterNext]_limiterVars
               PROVE  [Promised!Step]_(Promised!abstract)
    OBVIOUS
  <2>1. CASE Advance
    BY <2>1, AdvancePasses DEF Promised!Step
  <2>2. ASSUME NEW key \in Keys, Consume(key)
        PROVE  Promised!Step
    BY <2>2, ConsumeCounts DEF Promised!Step
  <2>3. CASE UNCHANGED limiterVars
    BY <2>3 DEF limiterVars, Promised!abstract, Live, Expired
  <2> QED
    BY <2>1, <2>2, <2>3 DEF LimiterNext
<1> QED
  BY <1>1, <1>2, LimiterTypeCorrect, PTL DEF LimiterSpec, CleanupIsInvisible, Promised!Spec

-----------------------------------------------------------------------------
(* What the answers tell *)

\* The calls of bucket k let through from answer i on.
Calls(k, i) == Cardinality(Served(k, i, Len(answers)))

\* The requests counted in the window of now bear out what answer a announced as number i.
RemainingSound(a, i) ==
    Live(a.key) /\ Calls(a.key, i + 1) < a.remaining =>
        windows[a.key].requests <= Limit[a.key] - a.remaining + Calls(a.key, i + 1)

\* Since answer i there has been one window, or one and the window of now.
BurstSound(a, i) ==
    now - a.at < Length =>
        IF Live(a.key) /\ windows[a.key].started_at > a.at
        THEN Calls(a.key, i) <= 2 * Limit[a.key]
               /\ Calls(a.key, i) <= Limit[a.key] + windows[a.key].requests
        ELSE Calls(a.key, i) <= Limit[a.key]
               /\ (Live(a.key) => Calls(a.key, i) <= windows[a.key].requests)

\* The window that refused answer i ends by the time told; a later one lets its limit through.
RetrySound(a, i) ==
    ~a.allowed /\ Live(a.key) =>
        IF windows[a.key].started_at > a.at
        THEN Calls(a.key, i) >= Limit[a.key] \/ Calls(a.key, i) >= windows[a.key].requests
        ELSE windows[a.key].started_at + Length <= a.at + a.retry_after * TicksPerSecond

\* The clock has not gone back since answer i, and a window does not end as it begins.
ClockSound(a) ==
    /\ a.at <= now
    /\ a.at = now => Live(a.key)
    /\ a.remaining <= Limit[a.key]

AnswerSound(a, i) ==
    ClockSound(a) /\ RemainingSound(a, i) /\ BurstSound(a, i) /\ RetrySound(a, i)

AnswersSound ==
    /\ \A k \in DOMAIN windows : windows[k].started_at <= now
    /\ \A i \in DOMAIN answers, a \in Answer : answers[i] = a => AnswerSound(a, i)

-----------------------------------------------------------------------------
\* The calls between two answers are finitely many.
LEMMA CallsFinite ==
    ASSUME LimiterTypeOK, NEW k, NEW i \in Nat, NEW j \in Nat
    PROVE  IsFiniteSet(Served(k, i, j)) /\ Cardinality(Served(k, i, j)) \in Nat
<1>1. Served(k, i, j) \subseteq i .. j
  BY DEF Served
<1>2. IsFiniteSet(i .. j)
  BY FS_Interval
<1> QED
  BY <1>1, <1>2, FS_Subset, FS_CardinalityType

\* A call that is let through is one more of its bucket.
LEMMA CallsStep ==
    ASSUME LimiterTypeOK, NEW key \in Keys, Consume(key), NEW k \in Keys,
           NEW i \in 1 .. Len(answers) + 1
    PROVE  /\ Calls(k, i) \in Nat
           /\ Calls(k, i)' = IF k = key /\ windows'[key].requests <= Limit[key]
                             THEN Calls(k, i) + 1 ELSE Calls(k, i)
<1> DEFINE n == Len(answers)
           answer == Result(key, windows'[key])
<1>1. answers \in Seq(Answer) /\ n \in Nat /\ answers' = Append(answers, answer)
  BY CallStep DEF LimiterTypeOK
<1>2. answer.key = key /\ (answer.allowed <=> windows'[key].requests <= Limit[key])
  BY DEF Result
<1> HIDE DEF answer
<1>3. /\ Len(answers') = n + 1
      /\ answers'[n + 1] = answer
      /\ \A m \in 1 .. n : answers'[m] = answers[m]
  BY <1>1
<1>4. /\ IsFiniteSet(Served(k, i, n)) /\ Calls(k, i) \in Nat
      /\ n + 1 \notin Served(k, i, n)
  <2>1. i \in Nat /\ n \in Nat
    BY <1>1
  <2>2. IsFiniteSet(Served(k, i, n)) /\ Cardinality(Served(k, i, n)) \in Nat
    BY <2>1, CallsFinite
  <2>3. n + 1 \notin Served(k, i, n)
    BY <1>1 DEF Served
  <2> QED
    BY <2>2, <2>3 DEF Calls
<1>5. CASE k = key /\ windows'[key].requests <= Limit[key]
  <2>1. {m \in i .. n + 1 : answers'[m].key = k /\ answers'[m].allowed} = Served(k, i, n) \cup {n + 1}
    BY <1>1, <1>2, <1>3, <1>5 DEF Served
  <2>2. Cardinality(Served(k, i, n) \cup {n + 1}) = Calls(k, i) + 1
    BY <1>4, FS_AddElement DEF Calls
  <2>3. Calls(k, i)' = Cardinality({m \in i .. n + 1 : answers'[m].key = k /\ answers'[m].allowed})
    BY <1>3 DEF Calls, Served
  <2> QED
    BY <1>4, <1>5, <2>1, <2>2, <2>3
<1>6. CASE ~(k = key /\ windows'[key].requests <= Limit[key])
  <2>1. {m \in i .. n + 1 : answers'[m].key = k /\ answers'[m].allowed} = Served(k, i, n)
    BY <1>1, <1>2, <1>3, <1>6 DEF Served
  <2>2. Calls(k, i)' = Cardinality({m \in i .. n + 1 : answers'[m].key = k /\ answers'[m].allowed})
    BY <1>3 DEF Calls, Served
  <2> QED
    BY <1>4, <1>6, <2>1, <2>2 DEF Calls
<1> QED
  BY <1>5, <1>6

\* How the window of a call follows from the one before.
LEMMA CountStep ==
    ASSUME LimiterTypeOK, NEW key \in Keys, Consume(key)
    PROVE  /\ Live(key) => /\ windows[key] \in Window
                           /\ windows'[key].started_at = windows[key].started_at
                           /\ windows'[key].requests = windows[key].requests + 1
           /\ ~Live(key) => windows'[key].started_at = now /\ windows'[key].requests = 1
<1>1. windows'[key] = IF Live(key) THEN [windows[key] EXCEPT !.requests = @ + 1]
                      ELSE [started_at |-> now, requests |-> 1]
  BY CallStep, CountedWindow
<1>2. Live(key) => windows[key] \in Window
  BY TableIsPart DEF Live
<1> QED
  BY <1>1, <1>2 DEF Window

\* Retry-After is rounded up to a second: it is not too short.
LEMMA RetryCovers ==
    ASSUME NEW ticks \in Int
    PROVE  Later(1, Seconds(ticks)) * TicksPerSecond >= ticks
<1>1. TicksPerSecond \in Nat \ {0}
  BY LengthAssumption
<1> DEFINE seconds == (ticks + TicksPerSecond - 1) \div TicksPerSecond
<1>2. seconds \in Int /\ seconds * TicksPerSecond >= ticks
  BY <1>1
<1>3. Seconds(ticks) = seconds
  BY DEF Seconds
<1> HIDE DEF seconds
<1>4. CASE 1 < seconds
  BY <1>2, <1>3, <1>4 DEF Later
<1>5. CASE ~(1 < seconds)
  <2>1. Later(1, seconds) = 1
    BY <1>5 DEF Later
  <2>2. seconds <= 1 /\ seconds * TicksPerSecond <= TicksPerSecond
    BY <1>1, <1>2, <1>5
  <2> QED
    BY <1>1, <1>2, <1>3, <2>1, <2>2
<1> QED
  BY <1>4, <1>5

\* What is known of an earlier answer is known after a tick.
LEMMA AnswerAged ==
    ASSUME LimiterTypeOK, Advance, NEW a \in Answer, NEW i \in 1 .. Len(answers), AnswerSound(a, i)
    PROVE  AnswerSound(a, i)'
<1>1. /\ now \in Nat /\ now' = now + 1 /\ windows' = windows /\ answers' = answers
      /\ Length \in Nat \ {0} /\ a.key \in Keys /\ a.at \in Nat
  BY LengthPositive DEF Advance, LimiterTypeOK, Answer
<1>2. \A j : Calls(a.key, j)' = Calls(a.key, j)
  BY <1>1 DEF Calls, Served
<1>3. Live(a.key)' => Live(a.key)
  BY <1>1, TableIsPart DEF Live, Expired, Window
<1>4. Live(a.key) => windows[a.key].started_at \in Nat
  BY TableIsPart DEF Live, Window
<1>5. ClockSound(a)'
  BY <1>1 DEF AnswerSound, ClockSound
<1>6. RemainingSound(a, i)'
  BY <1>1, <1>2, <1>3 DEF AnswerSound, RemainingSound
<1>7. RetrySound(a, i)'
  BY <1>1, <1>2, <1>3 DEF AnswerSound, RetrySound
<1>8. BurstSound(a, i)'
  <2> SUFFICES ASSUME now + 1 - a.at < Length
               PROVE  IF Live(a.key)' /\ windows[a.key].started_at > a.at
                      THEN Calls(a.key, i) <= 2 * Limit[a.key]
                             /\ Calls(a.key, i) <= Limit[a.key] + windows[a.key].requests
                      ELSE Calls(a.key, i) <= Limit[a.key]
                             /\ (Live(a.key)' => Calls(a.key, i) <= windows[a.key].requests)
    BY <1>1, <1>2 DEF BurstSound
  <2>1. now - a.at < Length
    BY <1>1
  <2>2. Live(a.key) /\ windows[a.key].started_at > a.at => Live(a.key)'
    BY <1>1, <1>4 DEF Live, Expired
  <2> QED
    BY <1>3, <2>1, <2>2 DEF AnswerSound, BurstSound
<1> QED
  BY <1>5, <1>6, <1>7, <1>8 DEF AnswerSound

\* A call leaves alone what is known of the answers of the other buckets.
LEMMA OtherAnswerKept ==
    ASSUME LimiterTypeOK, NEW key \in Keys, Consume(key),
           NEW a \in Answer, NEW i \in 1 .. Len(answers), AnswerSound(a, i), a.key # key
    PROVE  AnswerSound(a, i)'
<1>1. a.key \in Keys /\ Len(answers) \in Nat
  BY DEF Answer, LimiterTypeOK
<1>2. /\ now' = now
      /\ Live(a.key)' <=> Live(a.key)
      /\ Live(a.key) => windows'[a.key] = windows[a.key]
  BY <1>1, CallStep
<1>3. Calls(a.key, i)' = Calls(a.key, i) /\ Calls(a.key, i + 1)' = Calls(a.key, i + 1)
  <2>1. i \in 1 .. Len(answers) + 1 /\ i + 1 \in 1 .. Len(answers) + 1
    BY <1>1
  <2> QED
    BY <1>1, <2>1, CallsStep
<1>4. ClockSound(a)'
  BY <1>2 DEF AnswerSound, ClockSound
<1>5. RemainingSound(a, i)'
  BY <1>2, <1>3 DEF AnswerSound, RemainingSound
<1>6. BurstSound(a, i)'
  BY <1>2, <1>3 DEF AnswerSound, BurstSound
<1>7. RetrySound(a, i)'
  BY <1>2, <1>3 DEF AnswerSound, RetrySound
<1> QED
  BY <1>4, <1>5, <1>6, <1>7 DEF AnswerSound

\* The next call of its bucket bears out what is known of an answer.
LEMMA AnswerCounted ==
    ASSUME LimiterTypeOK, NEW key \in Keys, Consume(key),
           NEW a \in Answer, NEW i \in 1 .. Len(answers), AnswerSound(a, i), a.key = key
    PROVE  AnswerSound(a, i)'
<1> DEFINE old == windows[key]
           new == windows'[key]
           limit == Limit[key]
           calls == Calls(key, i)
           since == Calls(key, i + 1)
<1>1. /\ limit \in Nat \ {0} /\ a.at \in Nat /\ a.remaining \in Nat /\ Len(answers) \in Nat
      /\ now \in Nat /\ Length \in Nat \ {0}
  BY LimitAssumption, LengthPositive DEF Answer, LimiterTypeOK
<1>2. now' = now /\ Live(key)'
  BY CallStep
<1>3. /\ calls \in Nat /\ calls' = IF new.requests <= limit THEN calls + 1 ELSE calls
      /\ since \in Nat /\ since' = IF new.requests <= limit THEN since + 1 ELSE since
  <2>1. i \in 1 .. Len(answers) + 1 /\ i + 1 \in 1 .. Len(answers) + 1
    BY <1>1
  <2> QED
    BY <2>1, CallsStep
<1>4. CASE Live(key)
  <2>1. /\ old.started_at \in Nat /\ old.requests \in Nat
        /\ new.started_at = old.started_at /\ new.requests = old.requests + 1
    BY <1>4, CountStep DEF Window
  <2>2. ClockSound(a)'
    BY <1>2 DEF AnswerSound, ClockSound
  <2>3. RemainingSound(a, i)'
    <3>1. since < a.remaining => old.requests <= limit - a.remaining + since
      BY <1>4 DEF AnswerSound, RemainingSound
    <3>2. a.remaining <= limit
      BY DEF AnswerSound, ClockSound
    <3> HIDE DEF old, new, limit, since
    <3>3. since' < a.remaining => new.requests <= limit - a.remaining + since'
      <4>1. CASE new.requests <= limit
        BY <1>1, <1>3, <2>1, <3>1, <3>2, <4>1
      <4>2. CASE ~(new.requests <= limit)
        BY <1>1, <1>3, <2>1, <3>1, <3>2, <4>2
      <4> QED
        BY <4>1, <4>2
    <3> QED
      BY <3>3 DEF RemainingSound, new, limit, since
  <2>4. BurstSound(a, i)'
    <3> SUFFICES ASSUME now - a.at < Length
                 PROVE  IF new.started_at > a.at
                        THEN calls' <= 2 * limit /\ calls' <= limit + new.requests
                        ELSE calls' <= limit /\ calls' <= new.requests
      BY <1>2 DEF BurstSound
    <3>1. IF old.started_at > a.at
          THEN calls <= 2 * limit /\ calls <= limit + old.requests
          ELSE calls <= limit /\ calls <= old.requests
      BY <1>4 DEF AnswerSound, BurstSound
    <3> HIDE DEF old, new, limit, calls
    <3>2. CASE old.started_at > a.at
      <4>1. calls <= 2 * limit /\ calls <= limit + old.requests
        BY <3>1, <3>2
      <4>2. calls' <= 2 * limit
        BY <1>1, <1>3, <2>1, <4>1
      <4>3. calls' <= limit + new.requests
        BY <1>1, <1>3, <2>1, <4>1
      <4> QED
        BY <2>1, <3>2, <4>2, <4>3
    <3>3. CASE ~(old.started_at > a.at)
      <4>1. calls <= limit /\ calls <= old.requests
        BY <3>1, <3>3
      <4>2. calls' <= limit /\ calls' <= new.requests
        BY <1>1, <1>3, <2>1, <4>1
      <4> QED
        BY <2>1, <3>3, <4>2
    <3> QED
      BY <3>2, <3>3
  <2>5. RetrySound(a, i)'
    <3> SUFFICES ASSUME ~a.allowed
                 PROVE  IF new.started_at > a.at
                        THEN calls' >= limit \/ calls' >= new.requests
                        ELSE new.started_at + Length <= a.at + a.retry_after * TicksPerSecond
      BY DEF RetrySound
    <3>1. IF old.started_at > a.at
          THEN calls >= limit \/ calls >= old.requests
          ELSE old.started_at + Length <= a.at + a.retry_after * TicksPerSecond
      BY <1>4 DEF AnswerSound, RetrySound
    <3>2. CASE old.started_at > a.at
      <4>1. calls >= limit \/ calls >= old.requests
        BY <3>1, <3>2
      <4> HIDE DEF old, new, limit, calls
      <4> QED
        BY <1>1, <1>3, <2>1, <3>2, <4>1
    <3>3. CASE ~(old.started_at > a.at)
      BY <2>1, <3>1, <3>3
    <3> QED
      BY <3>2, <3>3
  <2> QED
    BY <2>2, <2>3, <2>4, <2>5 DEF AnswerSound
<1>5. CASE ~Live(key)
  <2>1. new.started_at = now /\ new.requests = 1 /\ a.at < now /\ a.remaining <= limit
    BY <1>1, <1>5, CountStep DEF AnswerSound, ClockSound
  <2>2. calls' = calls + 1 /\ since' = since + 1
    BY <1>1, <1>3, <2>1
  <2>3. ClockSound(a)'
    BY <1>2 DEF AnswerSound, ClockSound
  <2>4. RemainingSound(a, i)'
    <3> HIDE DEF limit, since, new
    <3>1. since' < a.remaining => new.requests <= limit - a.remaining + since'
      BY <1>1, <1>3, <2>1, <2>2
    <3> QED
      BY <3>1 DEF RemainingSound, new, limit, since
  <2>5. BurstSound(a, i)'
    <3> SUFFICES ASSUME now - a.at < Length
                 PROVE  calls' <= 2 * limit /\ calls' <= limit + new.requests
      BY <1>1, <1>2, <2>1 DEF BurstSound
    <3>1. calls <= limit
      BY <1>5 DEF AnswerSound, BurstSound
    <3> HIDE DEF limit, calls, new
    <3> QED
      BY <1>1, <1>3, <2>1, <2>2, <3>1
  <2>6. RetrySound(a, i)'
    <3>1. new.started_at > a.at
      BY <1>1, <2>1
    <3>2. calls' >= new.requests
      BY <1>3, <2>1, <2>2
    <3> QED
      BY <3>1, <3>2 DEF RetrySound
  <2> QED
    BY <2>3, <2>4, <2>5, <2>6 DEF AnswerSound
<1> QED
  BY <1>4, <1>5

\* What is said of an answer is true when it is given.
LEMMA AnswerGiven ==
    ASSUME LimiterTypeOK, AnswersSound, NEW key \in Keys, Consume(key),
           NEW a \in Answer, a = Result(key, windows'[key]),
           NEW n \in Nat, n = Len(answers)
    PROVE  AnswerSound(a, n + 1)'
<1> DEFINE new == windows'[key]
           limit == Limit[key]
<1>1. /\ limit \in Nat \ {0} /\ Len(answers)' = n + 1
      /\ now \in Nat /\ Length \in Nat \ {0}
      /\ new.started_at \in Nat /\ new.requests \in Nat \ {0}
  BY LimitAssumption, LengthPositive, CallStep DEF LimiterTypeOK, Window
<1>2. now' = now /\ Live(key)'
  BY CallStep
<1>3. new.started_at <= now
  BY <1>1, CountStep DEF AnswersSound, Live
<1>4. /\ a.key = key /\ a.at = now /\ (a.allowed <=> new.requests <= limit)
      /\ a.remaining = Later(limit - new.requests, 0)
      /\ a.retry_after = Later(1, Seconds(Length - (now - new.started_at)))
  BY DEF Result
<1>5. Calls(key, n + 1)' = (IF new.requests <= limit THEN 1 ELSE 0) /\ Calls(key, n + 2)' = 0
  <2>1. Served(key, n + 1, n) = {} /\ Served(key, n + 2, n + 1)' = {}
    BY <1>1 DEF Served
  <2>2. Calls(key, n + 1) = 0 /\ Calls(key, n + 2)' = 0
    BY <1>1, <2>1, FS_EmptySet DEF Calls
  <2>3. n + 1 \in 1 .. n + 1
    BY <1>1
  <2> QED
    BY <2>2, <2>3, CallsStep
<1>6. n + 1 + 1 = n + 2
  BY <1>1
<1> HIDE DEF new, limit
<1>7. ClockSound(a)'
  <2>1. a.remaining <= limit
    BY <1>1, <1>4 DEF Later
  <2> QED
    BY <1>1, <1>2, <1>4, <2>1 DEF ClockSound, limit
<1>8. RemainingSound(a, n + 1)'
  <2>1. 0 < a.remaining => new.requests <= limit - a.remaining + 0
    BY <1>1, <1>4 DEF Later
  <2> QED
    BY <1>4, <1>5, <1>6, <2>1 DEF RemainingSound, new, limit
<1>9. BurstSound(a, n + 1)'
  <2>1. ~(new.started_at > a.at)
    BY <1>1, <1>3, <1>4
  <2>2. Calls(key, n + 1)' <= limit /\ Calls(key, n + 1)' <= new.requests
    BY <1>1, <1>5
  <2> QED
    BY <1>4, <2>1, <2>2 DEF BurstSound, new, limit
<1>10. RetrySound(a, n + 1)'
  <2>1. ~(new.started_at > a.at)
    BY <1>1, <1>3, <1>4
  <2>2. new.started_at + Length <= a.at + a.retry_after * TicksPerSecond
    <3> DEFINE ticks == Length - (now - new.started_at)
    <3>1. ticks \in Int
      BY <1>1
    <3>2. a.retry_after * TicksPerSecond >= ticks
      BY <1>4, <3>1, RetryCovers
    <3>3. a.retry_after * TicksPerSecond \in Nat
      BY LengthAssumption DEF Answer
    <3> QED
      BY <1>1, <1>4, <3>2, <3>3
  <2> QED
    BY <1>4, <2>1, <2>2 DEF RetrySound, new
<1> QED
  BY <1>7, <1>8, <1>9, <1>10 DEF AnswerSound

\* What every answer told stays true at every step.
LEMMA AnswersStep ==
    ASSUME LimiterTypeOK, AnswersSound, [LimiterNext]_limiterVars
    PROVE  AnswersSound'
<1>1. CASE UNCHANGED limiterVars
  <2>1. windows' = windows /\ now' = now /\ answers' = answers
    BY <1>1 DEF limiterVars
  <2>2. \A k : (Live(k)' <=> Live(k)) /\ \A i : Calls(k, i)' = Calls(k, i)
    BY <2>1 DEF Live, Expired, Calls, Served
  <2>3. \A a, i : AnswerSound(a, i) => AnswerSound(a, i)'
    BY <2>1, <2>2 DEF AnswerSound, ClockSound, RemainingSound, BurstSound, RetrySound
  <2> QED
    BY <2>1, <2>3 DEF AnswersSound
<1>2. CASE Advance
  <2>1. now \in Nat /\ now' = now + 1 /\ windows' = windows /\ answers' = answers
    BY <1>2 DEF Advance, LimiterTypeOK
  <2>2. \A k \in DOMAIN windows' : windows'[k].started_at <= now'
    BY <2>1, TableIsPart DEF AnswersSound, Window
  <2>3. ASSUME NEW i \in DOMAIN answers', NEW a \in Answer, answers'[i] = a
        PROVE  AnswerSound(a, i)'
    <3>1. i \in 1 .. Len(answers) /\ AnswerSound(a, i)
      BY <2>1, <2>3 DEF AnswersSound, LimiterTypeOK
    <3> QED
      BY <1>2, <3>1, AnswerAged
  <2> QED
    BY <2>2, <2>3 DEF AnswersSound
<1>3. ASSUME NEW key \in Keys, Consume(key)
      PROVE  AnswersSound'
  <2>1. \A k \in DOMAIN windows' : windows'[k].started_at <= now'
    <3>1. now' = now /\ now \in Nat
      BY <1>3, CallStep DEF LimiterTypeOK
    <3>2. windows'[key].started_at <= now
      BY <1>3, <3>1, CountStep DEF AnswersSound, Live
    <3>3. \A k \in DOMAIN windows' \ {key} : k \in DOMAIN windows /\ windows'[k] = windows[k]
      BY <1>3, TableIsPart DEF Consume
    <3> QED
      BY <3>1, <3>2, <3>3 DEF AnswersSound
  <2>2. ASSUME NEW i \in DOMAIN answers', NEW a \in Answer, answers'[i] = a
        PROVE  AnswerSound(a, i)'
    <3>1. /\ answers \in Seq(Answer) /\ Result(key, windows'[key]) \in Answer
          /\ answers' = Append(answers, Result(key, windows'[key]))
      BY <1>3, CallStep, ResultIsAnswer DEF LimiterTypeOK
    <3>2. i \in 1 .. Len(answers) \/ i = Len(answers) + 1
      BY <3>1
    <3>3. CASE i \in 1 .. Len(answers)
      <4>1. i \in DOMAIN answers /\ answers[i] = a
        BY <2>2, <3>1, <3>3
      <4>2. AnswerSound(a, i)
        BY <4>1 DEF AnswersSound
      <4> QED
        BY <1>3, <3>3, <4>2, AnswerCounted, OtherAnswerKept
    <3>4. CASE i = Len(answers) + 1
      <4>1. a = Result(key, windows'[key])
        BY <2>2, <3>1, <3>4
      <4> QED
        BY <1>3, <3>1, <3>4, <4>1, AnswerGiven
    <3> QED
      BY <3>2, <3>3, <3>4
  <2> QED
    BY <2>1, <2>2 DEF AnswersSound
<1> QED
  BY <1>1, <1>2, <1>3 DEF LimiterNext

\* The types and the truth of the answers are inductive together.
LEMMA AnswersInvariant == LimiterSpec => [](LimiterTypeOK /\ AnswersSound)
<1>1. LimiterInit => AnswersSound
  BY DEF LimiterInit, AnswersSound
<1> QED
  BY <1>1, LimiterTypeCorrect, AnswersStep, PTL DEF LimiterSpec

-----------------------------------------------------------------------------
(* The three promises of the answers *)

\* A call adds its answer at the end; what was let through up to an earlier one is settled.
LEMMA LastAnswer ==
    ASSUME LimiterTypeOK, NEW key \in Keys, Consume(key), NEW n \in Nat, n = Len(answers)
    PROVE  /\ DOMAIN answers' = 1 .. n + 1
           /\ answers'[n + 1] \in Answer
           /\ answers'[n + 1].key = key
           /\ answers'[n + 1].at = now'
           /\ answers'[n + 1].allowed <=> windows'[key].requests <= Limit[key]
           /\ \A m \in 1 .. n : answers'[m] = answers[m] /\ answers[m] \in Answer
           /\ \A k, i : Calls(k, i)' = Cardinality(Served(k, i, n + 1))'
           /\ \A k : \A i \in 1 .. n + 1, j \in 1 .. n : Served(k, i, j)' = Served(k, i, j)
<1>1. /\ answers \in Seq(Answer) /\ Result(key, windows'[key]) \in Answer
      /\ answers' = Append(answers, Result(key, windows'[key])) /\ now' = now
  BY CallStep, ResultIsAnswer DEF LimiterTypeOK
<1>2. /\ DOMAIN answers' = 1 .. n + 1 /\ Len(answers') = n + 1
      /\ answers'[n + 1] = Result(key, windows'[key])
      /\ \A m \in 1 .. n : answers'[m] = answers[m] /\ answers[m] \in Answer
  BY <1>1
<1>3. \A k, i : Calls(k, i)' = Cardinality(Served(k, i, n + 1))'
  BY <1>2 DEF Calls
<1>4. \A k : \A i \in 1 .. n + 1, j \in 1 .. n : Served(k, i, j)' = Served(k, i, j)
  BY <1>2 DEF Served
<1>5. /\ answers'[n + 1].key = key /\ answers'[n + 1].at = now'
      /\ answers'[n + 1].allowed <=> windows'[key].requests <= Limit[key]
  <2> DEFINE answer == Result(key, windows'[key])
  <2>1. /\ answer.key = key /\ answer.at = now
        /\ answer.allowed <=> windows'[key].requests <= Limit[key]
    BY DEF Result
  <2> HIDE DEF answer
  <2> QED
    BY <1>1, <1>2, <2>1 DEF answer
<1> QED
  BY <1>1, <1>2, <1>3, <1>4, <1>5

\* No step admits a longer burst: the answer it adds is within what AnswersSound allows.
LEMMA BurstStep ==
    ASSUME LimiterTypeOK, AnswersSound, BurstBounded, [LimiterNext]_limiterVars
    PROVE  BurstBounded'
<1>1. CASE answers' = answers
  BY <1>1 DEF BurstBounded, Served
<1>2. ASSUME NEW key \in Keys, Consume(key)
      PROVE  BurstBounded'
  <2>1. PICK n \in Nat : n = Len(answers)
    BY DEF LimiterTypeOK
  <2> SUFFICES ASSUME NEW i \in DOMAIN answers', NEW j \in DOMAIN answers',
                      answers'[j].at - answers'[i].at < Length
               PROVE  Cardinality(Served(answers[i].key, i, j))' <= 2 * Limit[answers'[i].key]
    BY DEF BurstBounded
  <2>2. i \in 1 .. n + 1 /\ j \in 1 .. n + 1
    BY <1>2, <2>1, LastAnswer
  <2>3. PICK a \in Answer : a = answers'[i]
    BY <1>2, <2>1, <2>2, LastAnswer
  <2>4. CASE j \in 1 .. n /\ i \in 1 .. n
    <3>1. /\ answers'[i] = answers[i] /\ answers'[j] = answers[j]
          /\ Served(a.key, i, j)' = Served(a.key, i, j)
      BY <1>2, <2>1, <2>2, <2>4, LastAnswer
    <3>2. i \in DOMAIN answers /\ j \in DOMAIN answers
      BY <2>1, <2>4 DEF LimiterTypeOK
    <3>3. Served(answers[i].key, i, j)' = Served(a.key, i, j)'
      BY <2>3 DEF Served
    <3> QED
      BY <2>3, <3>1, <3>2, <3>3 DEF BurstBounded
  <2>5. CASE j \in 1 .. n /\ i = n + 1
    <3>1. Served(answers[i].key, i, j)' = {}
      BY <2>5 DEF Served
    <3>2. Limit[a.key] \in Nat
      BY LimitAssumption DEF Answer
    <3> QED
      BY <2>3, <3>1, <3>2, FS_EmptySet
  <2>6. CASE j = n + 1
    <3>1. AnswerSound(a, i)'
      BY <1>2, <2>3, AnswersStep DEF AnswersSound
    <3>2. now' - a.at < Length
      BY <1>2, <2>1, <2>3, <2>6, LastAnswer
    <3>3. /\ Limit[a.key] \in Nat
          /\ Cardinality(Served(answers[i].key, i, j))' = Calls(a.key, i)'
      BY <1>2, <2>1, <2>3, <2>6, LastAnswer, LimitAssumption DEF Answer, Served
    <3>4. Calls(a.key, i)' <= 2 * Limit[a.key]
      <4>1. Calls(a.key, i)' <= 2 * Limit[a.key] \/ Calls(a.key, i)' <= Limit[a.key]
        BY <3>1, <3>2 DEF AnswerSound, BurstSound
      <4>2. Calls(a.key, i)' \in Nat
        BY <1>2, <2>1, <2>2, CallsStep, <2>3 DEF Answer
      <4> QED
        BY <3>3, <4>1, <4>2
    <3> QED
      BY <2>3, <3>3, <3>4
  <2> QED
    BY <2>2, <2>4, <2>5, <2>6
<1> QED
  BY <1>1, <1>2 DEF LimiterNext, Advance, limiterVars

\* No more than twice the limit is let through within the length of a window, clean-ups or not.
THEOREM BurstTheorem == LimiterSpec => []BurstBounded
<1>1. LimiterInit => BurstBounded
  BY DEF LimiterInit, BurstBounded
<1> QED
  BY <1>1, AnswersInvariant, BurstStep, PTL DEF LimiterSpec

\* What the invariant knows of a call that is refused.
LEMMA RefusedCall ==
    ASSUME LimiterTypeOK, AnswersSound, NEW key \in Keys, Consume(key),
           NEW n \in Nat, n = Len(answers), NEW i \in 1 .. n, NEW a \in Answer, a = answers[i],
           ~answers'[n + 1].allowed
    PROVE  /\ AnswerSound(a, i)'
           /\ Live(key)' /\ windows'[key] \in Window /\ windows'[key].requests > Limit[key]
           /\ Calls(key, i)' \in Nat /\ Calls(key, i + 1)' \in Nat
<1>1. answers'[i] = a /\ i \in DOMAIN answers'
  <2>1. DOMAIN answers' = 1 .. n + 1 /\ \A m \in 1 .. n : answers'[m] = answers[m]
    BY LastAnswer
  <2> QED
    BY <2>1
<1>2. AnswerSound(a, i)'
  BY <1>1, AnswersStep DEF AnswersSound, LimiterNext
<1>3. windows'[key].requests > Limit[key] /\ Live(key)' /\ windows'[key] \in Window
  <2>1. ~(windows'[key].requests <= Limit[key]) /\ Live(key)' /\ windows'[key] \in Window
    BY LastAnswer, CallStep
  <2> QED
    BY <2>1, LimitAssumption DEF Window
<1>4. Calls(key, i)' \in Nat /\ Calls(key, i + 1)' \in Nat
  <2>1. i \in 1 .. Len(answers) + 1 /\ i + 1 \in 1 .. Len(answers) + 1
    OBVIOUS
  <2>2. \A j \in 1 .. Len(answers) + 1 : Calls(key, j)' \in Nat
    BY CallsStep
  <2> QED
    BY <2>1, <2>2
<1> QED
  BY <1>2, <1>3, <1>4

\* No step refuses too early a caller who waited as told.
LEMMA RetryStep ==
    ASSUME LimiterTypeOK, AnswersSound, RetryAfterSuffices, [LimiterNext]_limiterVars
    PROVE  RetryAfterSuffices'
<1>1. CASE answers' = answers
  BY <1>1 DEF RetryAfterSuffices, Served
<1>2. ASSUME NEW key \in Keys, Consume(key)
      PROVE  RetryAfterSuffices'
  <2>1. PICK n \in Nat : n = Len(answers)
    BY DEF LimiterTypeOK
  <2> SUFFICES ASSUME NEW i \in DOMAIN answers', NEW j \in DOMAIN answers', i < j,
                      answers'[i].key = answers'[j].key,
                      ~answers'[i].allowed, ~answers'[j].allowed,
                      answers'[j].at >= answers'[i].at + answers'[i].retry_after * TicksPerSecond
               PROVE  Cardinality(Served(answers[j].key, i, j))' >= Limit[answers'[j].key]
    BY DEF RetryAfterSuffices
  <2>2. i \in 1 .. n /\ j \in 1 .. n + 1
    BY <1>2, <2>1, LastAnswer
  <2>3. answers'[i] = answers[i]
    BY <1>2, <2>1, <2>2, LastAnswer
  <2>4. CASE j \in 1 .. n
    <3>1. PICK a \in Answer : a = answers[j] /\ a = answers'[j]
      BY <1>2, <2>1, <2>4, LastAnswer
    <3>2. Served(a.key, i, j)' = Served(a.key, i, j)
      BY <1>2, <2>1, <2>2, <2>4, LastAnswer
    <3>3. i \in DOMAIN answers /\ j \in DOMAIN answers
      BY <2>1, <2>2, <2>4 DEF LimiterTypeOK
    <3>4. Served(answers[j].key, i, j)' = Served(a.key, i, j)'
      BY <3>1 DEF Served
    <3>5. Cardinality(Served(answers[j].key, i, j)) >= Limit[answers[j].key]
      BY <2>3, <3>1, <3>3 DEF RetryAfterSuffices
    <3> QED
      BY <3>1, <3>2, <3>4, <3>5
  <2>5. CASE j = n + 1
    <3>1. /\ answers'[j].key = key /\ answers'[j].at = now'
          /\ Cardinality(Served(key, i, j))' = Calls(key, i)'
      BY <1>2, <2>1, <2>5, LastAnswer
    <3>2. PICK a \in Answer : a = answers'[i] /\ a = answers[i] /\ a.key = key
      BY <1>2, <2>1, <2>2, <3>1, LastAnswer
    <3>3. /\ AnswerSound(a, i)'
          /\ Live(key)' /\ windows'[key] \in Window /\ windows'[key].requests > Limit[key]
          /\ Calls(key, i)' \in Nat
      BY <1>2, <2>1, <2>2, <2>5, <3>2, RefusedCall
    <3>4. now' \in Nat /\ Length \in Nat /\ a.at + a.retry_after * TicksPerSecond \in Nat
      <4>1. now' \in Nat /\ Length \in Nat
        BY <1>2, CallStep, LengthPositive DEF LimiterTypeOK
      <4>2. a.retry_after * TicksPerSecond \in Nat
        BY LengthAssumption DEF Answer
      <4>3. a.at \in Nat
        BY DEF Answer
      <4> QED
        BY <4>1, <4>2, <4>3
    <3>5. windows'[key].started_at > a.at
      <4>1. now' >= a.at + a.retry_after * TicksPerSecond
        BY <3>1, <3>2
      <4>2. now' - windows'[key].started_at < Length /\ windows'[key].started_at \in Nat
        BY <3>3, <3>4 DEF Live, Expired, Window
      <4>3. windows'[key].started_at > a.at
              \/ windows'[key].started_at + Length <= a.at + a.retry_after * TicksPerSecond
        BY <3>2, <3>3 DEF AnswerSound, RetrySound
      <4> QED
        BY <3>4, <4>1, <4>2, <4>3
    <3>6. Calls(key, i)' >= Limit[key] \/ Calls(key, i)' >= windows'[key].requests
      BY <3>2, <3>3, <3>5 DEF AnswerSound, RetrySound
    <3>7. Calls(key, i)' >= Limit[key]
      BY <3>3, <3>6, LimitAssumption DEF Window
    <3>8. Served(answers[j].key, i, j)' = Served(key, i, j)'
      BY <3>1 DEF Served
    <3> QED
      BY <3>1, <3>7, <3>8
  <2> QED
    BY <2>2, <2>4, <2>5
<1> QED
  BY <1>1, <1>2 DEF LimiterNext, Advance, limiterVars

\* Retry-After is never too short: who waits as told is refused again only for the calls others
\* of the bucket had let through in the meantime.
THEOREM RetryTheorem == LimiterSpec => []RetryAfterSuffices
<1>1. LimiterInit => RetryAfterSuffices
  BY DEF LimiterInit, RetryAfterSuffices
<1> QED
  BY <1>1, AnswersInvariant, RetryStep, PTL DEF LimiterSpec

\* No step refuses a call that an earlier answer announced.
LEMMA RemainingStep ==
    ASSUME LimiterTypeOK, AnswersSound, RemainingIsGranted, [LimiterNext]_limiterVars
    PROVE  RemainingIsGranted'
<1>1. CASE answers' = answers
  BY <1>1 DEF RemainingIsGranted, Served
<1>2. ASSUME NEW key \in Keys, Consume(key)
      PROVE  RemainingIsGranted'
  <2>1. PICK n \in Nat : n = Len(answers)
    BY DEF LimiterTypeOK
  <2> SUFFICES ASSUME NEW i \in DOMAIN answers', NEW j \in DOMAIN answers', i < j,
                      answers'[i].key = answers'[j].key, ~answers'[j].allowed
               PROVE  Cardinality(Served(answers[i].key, i + 1, j))' >= answers'[i].remaining
    BY DEF RemainingIsGranted
  <2>2. i \in 1 .. n /\ j \in 1 .. n + 1 /\ i + 1 \in 1 .. n + 1
    BY <1>2, <2>1, LastAnswer
  <2>3. PICK a \in Answer : a = answers[i] /\ a = answers'[i]
    BY <1>2, <2>1, <2>2, LastAnswer
  <2>4. Served(answers[i].key, i + 1, j)' = Served(a.key, i + 1, j)'
    BY <2>3 DEF Served
  <2>5. CASE j \in 1 .. n
    <3>1. answers'[j] = answers[j] /\ Served(a.key, i + 1, j)' = Served(a.key, i + 1, j)
      BY <1>2, <2>1, <2>2, <2>5, LastAnswer
    <3>2. i \in DOMAIN answers /\ j \in DOMAIN answers
      BY <2>1, <2>2, <2>5 DEF LimiterTypeOK
    <3>3. Cardinality(Served(answers[i].key, i + 1, j)) >= answers[i].remaining
      BY <2>3, <3>1, <3>2 DEF RemainingIsGranted
    <3> QED
      BY <2>3, <2>4, <3>1, <3>3
  <2>6. CASE j = n + 1
    <3>1. answers'[j].key = key /\ Cardinality(Served(key, i + 1, j))' = Calls(key, i + 1)'
      BY <1>2, <2>1, <2>6, LastAnswer
    <3>2. a.key = key
      BY <2>3, <3>1
    <3>3. /\ AnswerSound(a, i)'
          /\ Live(key)' /\ windows'[key] \in Window /\ windows'[key].requests > Limit[key]
          /\ Calls(key, i + 1)' \in Nat
      BY <1>2, <2>1, <2>2, <2>3, <2>6, <3>2, RefusedCall
    <3>4. Calls(key, i + 1)' < a.remaining =>
            windows'[key].requests <= Limit[key] - a.remaining + Calls(key, i + 1)'
      BY <3>2, <3>3 DEF AnswerSound, RemainingSound
    <3>5. Calls(key, i + 1)' >= a.remaining
      BY <3>3, <3>4, LimitAssumption DEF Window, Answer
    <3> QED
      BY <2>3, <2>4, <3>1, <3>2, <3>5
  <2> QED
    BY <2>2, <2>5, <2>6
<1> QED
  BY <1>1, <1>2 DEF LimiterNext, Advance, limiterVars

\* The remaining calls that an answer announces are let through, whenever they come.
THEOREM RemainingTheorem == LimiterSpec => []RemainingIsGranted
<1>1. LimiterInit => RemainingIsGranted
  BY DEF LimiterInit, RemainingIsGranted
<1> QED
  BY <1>1, AnswersInvariant, RemainingStep, PTL DEF LimiterSpec
=============================================================================
