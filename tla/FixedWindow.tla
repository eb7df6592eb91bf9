----------------------------- MODULE FixedWindow -----------------------------
(***************************************************************************)
(* What the limiter of app/core/rate_limit.py promises: the calls of a     *)
(* bucket are counted in windows of one length, each of which opens with   *)
(* the first call after the last one has ended.  There is no table to tidy *)
(* and nothing to forget: a window is there exactly while it lasts.        *)
(***************************************************************************)
EXTENDS Integers

CONSTANTS
    Keys,       \* buckets: a network identity with its scope, read or write
    Limit,      \* calls a window of the bucket admits
    Length      \* ticks in a window

VARIABLES
    clock,      \* the monotonic clock
    open,       \* by bucket, when its window opened and how many calls it has counted
    verdict     \* the last call: its bucket, its time and whether it was let through

abstract == <<clock, open, verdict>>

Closed  == [started_at |-> 0, requests |-> 0]
NoCall(key) == [key |-> key, at |-> 0, allowed |-> FALSE]

Start ==
    /\ clock = 0
    /\ open = [k \in Keys |-> Closed]
    /\ \E k \in Keys : verdict = NoCall(k)

\* Time passes; the windows that have lasted their length are closed.
Pass ==
    /\ clock' = clock + 1
    /\ open' = [k \in Keys |->
                  IF open[k].requests > 0 /\ clock + 1 - open[k].started_at < Length
                  THEN open[k] ELSE Closed]
    /\ UNCHANGED verdict

\* A call is counted in the window of its bucket, which it opens if need be.
Count(key) ==
    /\ open' = [open EXCEPT ![key] =
                  [started_at |-> IF @.requests > 0 THEN @.started_at ELSE clock,
                   requests   |-> @.requests + 1]]
    /\ verdict' = [key |-> key, at |-> clock, allowed |-> open'[key].requests <= Limit[key]]
    /\ UNCHANGED clock

Step == Pass \/ \E key \in Keys : Count(key)

Spec == Start /\ [][Step]_abstract
=============================================================================
