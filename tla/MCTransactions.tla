--------------------------- MODULE MCTransactions ---------------------------
(***************************************************************************)
(* Transactions for TLC: the owner o's campaign c1, its tester t1, an      *)
(* applicant t2 for the same seat, and a campaign c2 that t1 may launch    *)
(* from the account that the rewards of c1 go to.                          *)
(***************************************************************************)
EXTENDS AtomicTransactions, TLC

CONSTANTS c1, c2, o, t1, t2

ShortTerms == {[review_window |-> 1, minimum_days |-> 0, required_sessions |-> 1]}

Launch(u, c, target) ==
    {[op |-> "launch", by |-> u, c |-> c, target |-> target, reward |-> 1, terms |-> terms] :
       terms \in Terms}
Launches == (UNION {Launch(o, c1, target) : target \in Targets}) \cup Launch(t1, c2, 1)

Applicants ==
    {[op |-> "close", by |-> o, c |-> c1]}
    \cup {[op |-> "apply", by |-> t, c |-> c1] : t \in {t1, t2}}
    \cup {[op |-> "accept", by |-> o, c |-> c1, t |-> t] : t \in {t1, t2}}

Work ==
    {[op |-> op, by |-> t1, c |-> c1] : op \in {"withdraw", "session", "submit"}}
    \cup {[op |-> "escalate", by |-> t1, c |-> c1, v |-> 1]}
    \cup {[op |-> "decline", by |-> o, c |-> c1, t |-> t1]}
    \cup {[op |-> "review", by |-> o, c |-> c1, t |-> t1, v |-> 1, decision |-> d] : d \in Decision}

Moderations ==
    {[op |-> op, by |-> m, c |-> c1, t |-> t1] : op \in {"claim", "reject", "award"}, m \in Moderators}
    \cup {[op |-> "dismiss", by |-> m, c |-> c1, t |-> t1, outcome |-> "rejected"] : m \in Moderators}

AllRequests == Launches \cup Applicants \cup Work \cup Moderations

Interchangeable == Permutations(Threads)

Withdrawals == {n \in notifications : n.kind = "tester_withdrew"}
WithoutHistory == <<campaign, contract, assignment, submissions, sessions, dispute,
                    balance, ledger, Withdrawals, suspended, now, tx>>
=============================================================================
