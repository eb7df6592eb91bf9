------------------------- MODULE AtomicTransactions -------------------------
(***************************************************************************)
(* The requests of Transactions take effect one by one, as in Exchange.    *)
(*                                                                         *)
(* A request that holds its campaign's row takes effect when it has read   *)
(* all it decides on, another one when it commits: a close may count work  *)
(* that a moderator, who does not lock the campaign, rejects before the    *)
(* close commits.                                                          *)
(***************************************************************************)
EXTENDS Transactions

\* The requests that hold their campaign's row and have read all they decide on.
Decided == {th \in Busy : ~Selecting(th) /\ CampaignRow(tx[th].request.c) \subseteq tx[th].held}

\* What is decided about a campaign and not committed yet; its row has one holder.
Deciders(c) == {th \in Decided : tx[th].request.c = c}
Ahead == [c \in Campaigns |-> IF Deciders(c) = {} THEN NoWrites
                              ELSE Writing(CHOOSE th \in Deciders(c) : TRUE)]

Tables == [campaign |-> campaign, contract |-> contract, assignment |-> assignment,
           submissions |-> submissions, sessions |-> sessions, dispute |-> dispute,
           balance |-> balance, ledger |-> ledger, audit |-> audit,
           notifications |-> notifications]

\* The tables db with what is ahead of them, by campaign.
Merged(db, ahead) ==
    LET entries == UNION {ahead[c].entries : c \in Campaigns}
    IN  [campaign    |-> [c \in Campaigns |-> Over(ahead[c].campaign, db.campaign)[c]],
         contract    |-> [c \in Campaigns |-> Over(ahead[c].contract, db.contract)[c]],
         assignment  |-> [c \in Campaigns |-> Over(ahead[c].rows, db.assignment[c])],
         submissions |-> [c \in Campaigns |-> Over(ahead[c].subs, db.submissions[c])],
         sessions    |-> [c \in Campaigns |-> Over(ahead[c].days, db.sessions[c])],
         dispute     |-> [c \in Campaigns |-> Over(ahead[c].dispute, db.dispute[c])],
         balance     |-> [u \in Users |-> IF \E e \in entries : e.user = u
                                         THEN db.balance[u] + (CHOOSE e \in entries : e.user = u).delta
                                         ELSE db.balance[u]],
         ledger        |-> db.ledger \cup entries,
         audit         |-> db.audit \cup UNION {ahead[c].audit : c \in Campaigns},
         notifications |-> db.notifications \cup UNION {ahead[c].notes : c \in Campaigns}]

\* The tables as the requests that have taken effect leave them.  (TLC computes the member of a set
\* once, and what a name stands for at every mention.)
Effective == CHOOSE db \in {Merged(Tables, ahead) : ahead \in {Ahead}} : TRUE

VARIABLE effective      \* Effective, kept for TLC

AtomicInit == TxInit /\ effective = Effective
AtomicNext == TxNext /\ effective' = Effective'
AtomicSpec == AtomicInit /\ [][AtomicNext]_<<txVars, effective>>

Atomic == INSTANCE Exchange WITH
            campaign <- effective.campaign, contract <- effective.contract,
            assignment <- effective.assignment, submissions <- effective.submissions,
            sessions <- effective.sessions, dispute <- effective.dispute,
            balance <- effective.balance, ledger <- effective.ledger,
            audit <- effective.audit, notifications <- effective.notifications

\* Locking makes every request atomic ("Every accept for the same campaign serializes on this
\* row", accept_assignment; "Serialize owner decisions with tester escalations and moderator
\* decisions", create_review): all of them together do what Exchange does one by one.
RequestsAreAtomic == Atomic!Spec
=============================================================================
