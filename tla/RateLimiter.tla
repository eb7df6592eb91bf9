----------------------------- MODULE RateLimiter -----------------------------
(***************************************************************************)
(* app/core/rate_limit.py: the fixed-window limiter in front of the API.   *)
(* The middleware runs consume on the event loop, so that a call is one    *)
(* step; between two calls the monotonic clock moves on by any number of   *)
(* ticks, of which there are TicksPerSecond in the second that Retry-After *)
(* is told in.                                                             *)
(***************************************************************************)
EXTENDS Integers, Sequences, FiniteSets

CONSTANTS
    Keys,               \* buckets: a network identity with its scope, read or write
    Limit,              \* calls a window of the bucket admits
    WindowSeconds,      \* settings.rate_limit_window_seconds
    TicksPerSecond,     \* resolution of the clock
    CleanupEvery,       \* calls between two clean-ups of the table, 1000 in the code
    MaxTime,            \* bound: last tick of the clock
    MaxCalls            \* bound: calls of a behaviour

\* The settings bound the limits and the window from below by one.
ASSUME LimitAssumption == Limit \in [Keys -> Nat \ {0}] /\ Keys # {}
ASSUME LengthAssumption == WindowSeconds \in Nat \ {0} /\ TicksPerSecond \in Nat \ {0}
ASSUME LimiterBoundAssumption ==
    CleanupEvery \in Nat \ {0} /\ MaxTime \in Nat /\ MaxCalls \in Nat

VARIABLES
    windows,                    \* _windows: a window for some of the buckets
    requests_since_cleanup,     \* _requests_since_cleanup
    now,                        \* time.monotonic()
    answers                     \* the results handed out so far, in order

limiterVars == <<windows, requests_since_cleanup, now, answers>>

Length == WindowSeconds * TicksPerSecond

Window == [started_at : Nat, requests : Nat \ {0}]
\* A RateLimitResult with the call it answers.
Answer == [key : Keys, at : Nat, allowed : BOOLEAN, remaining : Nat, retry_after : Nat \ {0}]

LimiterInit ==
    /\ windows = <<>>
    /\ requests_since_cleanup = 0
    /\ now = 0
    /\ answers = <<>>

Later(a, b) == IF a < b THEN b ELSE a

\* math.ceil of a number of ticks, in seconds
Seconds_Floor(ticks) == ticks \div TicksPerSecond
Seconds(ticks) == (ticks + TicksPerSecond - 1) \div TicksPerSecond

-----------------------------------------------------------------------------
(* consume *)

\* The clean-up keeps the windows whose start lies after the cutoff.
Recent_Nothing(table) == {}
Recent(table) == {k \in DOMAIN table : table[k].started_at > now - Length}

Due_Late == requests_since_cleanup >= CleanupEvery
Due == requests_since_cleanup + 1 >= CleanupEvery
Table == IF Due THEN [k \in Recent(windows) |-> windows[k]] ELSE windows

\* The bucket's window in the table, or a new one, with this call counted.
Expired_Late(window) == now - window.started_at > Length
Expired(window) == now - window.started_at >= Length

Counted(table, key) ==
    IF key \notin DOMAIN table \/ Expired(table[key])
    THEN [started_at |-> now, requests |-> 1]
    ELSE [table[key] EXCEPT !.requests = @ + 1]

Result_BeforeCount(key, window) ==
    [key         |-> key,
     at          |-> now,
     allowed     |-> window.requests <= Limit[key],
     remaining   |-> Later(Limit[key] - (window.requests - 1), 0),
     retry_after |-> Later(1, Seconds(Length - (now - window.started_at)))]

Result(key, window) ==
    [key         |-> key,
     at          |-> now,
     allowed     |-> window.requests <= Limit[key],
     remaining   |-> Later(Limit[key] - window.requests, 0),
     retry_after |-> Later(1, Seconds(Length - (now - window.started_at)))]

Consume(key) ==
    LET window == Counted(Table, key)
    IN  /\ Len(answers) < MaxCalls
        /\ requests_since_cleanup' = IF Due THEN 0 ELSE requests_since_cleanup + 1
        /\ windows' = [k \in DOMAIN Table \cup {key} |->
                         IF k = key THEN window ELSE Table[k]]
        /\ answers' = Append(answers, Result(key, window))
        /\ UNCHANGED now

Advance ==
    /\ now < MaxTime
    /\ now' = now + 1
    /\ UNCHANGED <<windows, requests_since_cleanup, answers>>

LimiterNext == Advance \/ \E key \in Keys : Consume(key)

LimiterSpec == LimiterInit /\ [][LimiterNext]_limiterVars

-----------------------------------------------------------------------------
LimiterTypeOK ==
    /\ \E live \in SUBSET Keys : windows \in [live -> Window]
    /\ requests_since_cleanup \in 0 .. CleanupEvery - 1
    /\ now \in Nat
    /\ answers \in Seq(Answer)

\* The calls of a bucket that were let through from answer i on, up to answer j.
Served(key, i, j) ==
    {n \in i .. j : answers[n].key = key /\ answers[n].allowed}

\* A burst that straddles two windows is the worst case: no more than twice the limit is let
\* through within the length of a window, whatever the clean-up has thrown away by then.
BurstBounded ==
    \A i, j \in DOMAIN answers :
        answers[j].at - answers[i].at < Length =>
            Cardinality(Served(answers[i].key, i, j)) <= 2 * Limit[answers[i].key]

\* Who is turned away and comes back when told to finds a new window: another refusal means that
\* the bucket's whole limit was let through in the meantime.
RetryAfterSuffices ==
    \A i, j \in DOMAIN answers :
        /\ i < j
        /\ answers[i].key = answers[j].key
        /\ ~answers[i].allowed /\ ~answers[j].allowed
        /\ answers[j].at >= answers[i].at + answers[i].retry_after * TicksPerSecond
        => Cardinality(Served(answers[j].key, i, j)) >= Limit[answers[j].key]

\* The remaining calls that an answer announces are let through, whenever they come.
RemainingIsGranted ==
    \A i, j \in DOMAIN answers :
        /\ i < j
        /\ answers[i].key = answers[j].key
        /\ ~answers[j].allowed
        => Cardinality(Served(answers[i].key, i + 1, j)) >= answers[i].remaining

-----------------------------------------------------------------------------
(* The abstract limiter *)

FirstKey == CHOOSE k \in Keys : TRUE

Live(key) == key \in DOMAIN windows /\ ~Expired(windows[key])

Promised == INSTANCE FixedWindow
    WITH clock   <- now,
         open    <- [k \in Keys |-> IF Live(k) THEN windows[k]
                                    ELSE [started_at |-> 0, requests |-> 0]],
         verdict <- IF answers = <<>> THEN [key |-> FirstKey, at |-> 0, allowed |-> FALSE]
                    ELSE LET last == answers[Len(answers)]
                         IN  [key |-> last.key, at |-> last.at, allowed |-> last.allowed]

\* The table, its clean-up and the lazy replacement of expired windows count every call as a
\* limiter would that closes each window when it ends and never forgets one before.
CleanupIsInvisible == Promised!Spec
=============================================================================
