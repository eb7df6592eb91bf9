------------------------------ MODULE MCRaces ------------------------------
(***************************************************************************)
(* Instances of ExchangeRaces for TLC.                                     *)
(***************************************************************************)
EXTENDS ExchangeRaces, TLC

ShortTerms == {[review_window |-> 1, minimum_days |-> 0, required_sessions |-> 1]}
TwoTerms   == ShortTerms \cup {[review_window |-> 2, minimum_days |-> 0, required_sessions |-> 1]}

\* Participants who are no moderators are interchangeable.
Participants == Permutations(Users \ Moderators)

\* The audit is written and never read, and of the inbox only the withdrawals are (by Flushed);
\* no property of these runs is about the rest.
Withdrawals == {n \in notifications : n.kind = "tester_withdrew"}
WithoutHistory == <<campaign, contract, assignment, submissions, sessions, dispute,
                    balance, ledger, Withdrawals, suspended, now, inFlight>>
=============================================================================
