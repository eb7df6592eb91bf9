----------------------------- MODULE MCEvidence -----------------------------
(***************************************************************************)
(* Instances of Evidence for TLC: contracts that require one task or the   *)
(* other, and contents that name a file of any folder, or none.            *)
(***************************************************************************)
EXTENDS Evidence, TLC

CONSTANTS c1, f1, a, b

ShortTerms == [review_window : {1, 2}, minimum_days : {0}, required_sessions : {1}]

\* The longer review window goes with the other tasks.
TwoContracts ==
    [terms \in Terms |-> IF terms.review_window = 1 THEN [all |-> {a, b}, required |-> {a}]
                                                    ELSE [all |-> {b}, required |-> {b}]]

Item(task, key, note) == [task |-> task, key |-> key, link |-> FALSE, note |-> note]

Contents ==
    {[summary |-> [long |-> TRUE, generic |-> FALSE], items |-> {item}] :
       item \in {Item(task, key, "none") : task \in {a, b}, key \in Keys \cup {NoKey}}
                  \cup {Item(task, NoKey, "observation") : task \in {a, b}}}

Testers == Permutations(Users \ Moderators)

Withdrawals == {n \in notifications : n.kind = "tester_withdrew"}
WithoutHistory == <<campaign, contract, assignment, submissions, sessions, dispute, balance,
                    ledger, Withdrawals, suspended, now, content, objects, removing>>
=============================================================================
