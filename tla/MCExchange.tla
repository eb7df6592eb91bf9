----------------------------- MODULE MCExchange -----------------------------
(***************************************************************************)
(* Instances of Exchange for TLC.                                          *)
(***************************************************************************)
EXTENDS Exchange, TLC

\* Contracts: one day tick is one hour of the review window.
ShortTerms == {[review_window |-> 1, minimum_days |-> 0, required_sessions |-> 1]}
LongTerms  == {[review_window |-> 1, minimum_days |-> 1, required_sessions |-> 2]}

\* Participants who are no moderators are interchangeable.
Participants == Permutations(Users \ Moderators)

\* The audit is written and never read, and of the inbox only the withdrawals are (by Flushed):
\* states that differ in nothing else have the same steps.  A run with this view checks no
\* property of the two.
Withdrawals == {n \in notifications : n.kind = "tester_withdrew"}
WithoutHistory == <<campaign, contract, assignment, submissions, sessions, dispute,
                    balance, ledger, Withdrawals, suspended, now>>

\* The same with the audit events that the audit's own properties look up; the others leave no
\* trace in the state, only in the step that appends them.
Decisive == {"campaign.closed", "submission.approved", "dispute.resolved"}
AuditedWork == <<WithoutHistory, {e \in audit : e.action \in Decisive}>>
=============================================================================
