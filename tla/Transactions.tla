---------------------------- MODULE Transactions ----------------------------
(***************************************************************************)
(* The requests that lock rows (SELECT ... FOR UPDATE) before they decide, *)
(* run by several threads at once under PostgreSQL's READ COMMITTED.       *)
(*                                                                         *)
(* A request runs its selects one by one.  A select waits until nobody     *)
(* else holds the rows it locks, reads what is committed then, and may     *)
(* turn the request away.  After the last one the request writes, from     *)
(* what it has read, and commits: get_db (app/db/session.py) commits or    *)
(* rolls back, and either releases the rows.  PostgreSQL rolls back one of *)
(* the requests that wait for each other.                                  *)
(*                                                                         *)
(* Exchange takes each of these requests for one atomic step; here that is *)
(* what is to be shown.  Drafts, whose requests lock nothing, are left to  *)
(* ExchangeRaces: a campaign is launched here.  Starting stays atomic, and *)
(* pausing and resuming, which lock the campaign alone, are left out.      *)
(***************************************************************************)
EXTENDS Exchange

CONSTANTS
    Threads,        \* threads that serve one request at a time
    Requests,       \* the requests that clients send
    Idle            \* a thread without a request

VARIABLE tx         \* by thread: its request, the selects it has done, the rows it holds, what it read

txVars == <<vars, tx>>

ASSUME ThreadAssumption == IsFiniteSet(Threads)

TxInit == Init /\ tx = [th \in Threads |-> Idle]

Busy == {th \in Threads : tx[th] # Idle}

-----------------------------------------------------------------------------
(* What a request selects, in the order of its code, and on what condition it goes on *)

Lock(rows, check) == [locks |-> rows, ok |-> check]
Read(check) == [locks |-> {}, ok |-> check]

CampaignRow(c)      == {<<"campaign", c>>}
AssignmentRow(c, t) == {<<"assignment", c, t>>}
SubmissionRow(c, t) == {<<"submission", c, t>>}
DisputeRow(c, t)    == {<<"dispute", c, t>>}
AccountRow(u)       == {<<"account", u>>}

\* The new row is held from its insertion on, for its slug is unique; then record_credit_entry.
LaunchPlan(r) ==
    <<Lock(CampaignRow(r.c), campaign[r.c].status = "none"),
      Lock(AccountRow(r.by), Covered(r.by, -PostingCost(r.target, r.reward)))>>

OwnerPlan(r) ==
    LET c == r.c
        camp(status) == Lock(CampaignRow(c), Owns(r.by, c) /\ campaign[c].status \in status)
        work(check)  == Lock(AssignmentRow(c, r.t), check)
    IN  CASE r.op = "launch"  -> LaunchPlan(r)
          [] r.op = "close"   -> <<camp({"published", "paused"}),
                                   Lock(UNION {AssignmentRow(c, t) : t \in Pending(assignment[c])},
                                        TRUE), Read(TRUE)>>
          [] r.op = "accept"  -> <<camp({"published"}), work(Row(c, r.t).status = "applied"),
                                   Read(SeatFree(c))>>
          [] r.op = "decline" -> <<work(Owns(r.by, c) /\ Row(c, r.t).status = "applied")>>

TesterPlan(r) ==
    LET c == r.c
        t == r.by
        work(check) == Lock(AssignmentRow(c, t), check)
    IN  CASE r.op = "apply"    -> <<Lock(CampaignRow(c),
                                         campaign[c].status = "published" /\ ~Owns(t, c)),
                                    Read(Row(c, t).status = "none" /\ SeatFree(c))>>
          [] r.op = "withdraw" -> <<work(Row(c, t).status \in Withdrawable),
                                    Lock(CampaignRow(c), TRUE), Read(TRUE)>>
          [] r.op = "session"  -> <<work(Testing(c, t)), Read(Today \notin sessions[c][t])>>
          [] r.op = "submit"   -> <<work(Testing(c, t)),
                                    Read(ContractFulfilled(c, t) /\ Versions(c, t) < MaxVersions)>>
          [] r.op = "escalate" -> <<work(Row(c, t).status \in {"rejected", "submitted"}),
                                    Read(/\ r.v \in DOMAIN submissions[c][t]
                                         /\ Escalatable(c, t, r.v)
                                         /\ dispute[c][t].status = "none")>>

\* The work under decision: its assignment, then its submission.
WorkLocks_SubmissionFirst(c, t) ==
    <<Lock(SubmissionRow(c, t), TRUE), Lock(AssignmentRow(c, t), TRUE)>>
WorkLocks(c, t) ==
    <<Lock(AssignmentRow(c, t), TRUE), Lock(SubmissionRow(c, t), TRUE)>>

DecisionLock_PlainRead(r) == Read(Reviewable(r.by, r.c, r.t, r.v))
DecisionLock(r) == Lock(CampaignRow(r.c), Reviewable(r.by, r.c, r.t, r.v))

\* The tester's account is locked for the reward; the counts of maybe_complete_campaign follow.
ReviewPlan(r) ==
    Append(WorkLocks(r.c, r.t), DecisionLock(r))
      \o IF r.decision = "approved" THEN <<Lock(AccountRow(r.t), TRUE), Read(TRUE)>> ELSE <<>>

ModeratorPlan(r) ==
    LET c == r.c
        t == r.t
        claimed == Lock(DisputeRow(c, t), /\ dispute[c][t].status = "under_review"
                                          /\ dispute[c][t].assigned_to = r.by)
        work(check) == Lock(AssignmentRow(c, t), check)
    IN  CASE r.op = "claim"   -> <<Lock(DisputeRow(c, t), dispute[c][t].status = "open")>>
          [] r.op = "reject"  -> <<claimed, work(Row(c, t).status = "submitted")>>
          [] r.op = "dismiss" -> <<claimed, work(Row(c, t).status # "submitted")>>
          [] r.op = "award"   -> <<claimed, work(Row(c, t).status \in {"rejected", "submitted"}),
                                   Lock(SubmissionRow(c, t), TRUE), Lock(CampaignRow(c), TRUE),
                                   Lock(AccountRow(t), TRUE), Read(TRUE)>>

ReviewAction == [approved |-> "submission.approved", rejected |-> "submission.rejected",
                 changes_requested |-> "submission.changes_requested"]
OwnerOps     == {"launch", "close", "accept", "decline"}
TesterOps    == {"apply", "withdraw", "session", "submit", "escalate"}
ModeratorOps == {"claim", "reject", "dismiss", "award"}

\* The path and the body of a request, as app/api/routes/ and app/schemas/api.py let them through.
ASSUME RequestAssumption ==
    \A r \in Requests :
        /\ r.op \in OwnerOps \cup TesterOps \cup {"review"} \cup ModeratorOps
        /\ r.by \in Users /\ r.c \in Campaigns
        /\ r.op \in {"accept", "decline", "review"} \cup ModeratorOps => r.t \in Users
        /\ r.op \in {"review", "escalate"} => r.v \in Nat
        /\ r.op = "review" => r.decision \in Decision
        /\ r.op = "dismiss" => r.outcome \in {"resolved", "rejected"}
        /\ r.op = "launch" => r.target \in Targets /\ r.reward \in Rewards /\ r.terms \in Terms

Plan(r) ==
    CASE r.op \in OwnerOps     -> OwnerPlan(r)
      [] r.op \in TesterOps    -> TesterPlan(r)
      [] r.op = "review"       -> ReviewPlan(r)
      [] r.op \in ModeratorOps -> ModeratorPlan(r)

-----------------------------------------------------------------------------
(* What a request writes, from the tables as its last select read them *)

Snapshot(c) == [campaign |-> campaign[c], rows |-> assignment[c], subs |-> submissions[c],
                days |-> sessions[c], dispute |-> dispute[c],
                balance |-> balance, ledger |-> ledger,
                withdrawals |-> {n \in notifications : n.kind = "tester_withdrew"},
                now |-> now]

\* The operators :> and @@ of the module TLC, of which the prover has no definition.
At(key, value) == [k \in {key} |-> value]
Over(written, rows) ==
    [k \in DOMAIN written \cup DOMAIN rows |-> IF k \in DOMAIN written THEN written[k] ELSE rows[k]]

NoWrites == [campaign |-> <<>>, contract |-> <<>>, rows |-> <<>>, subs |-> <<>>, days |-> <<>>,
             dispute |-> <<>>, entries |-> {}, audit |-> {}, notes |-> {}]

\* record_credit_entry, on the ledger and the balances that were read.
Entry(s, u, delta, key) ==
    IF \E e \in s.ledger : e.key = key THEN {}
    ELSE {[key |-> key, user |-> u, delta |-> delta]}

\* maybe_complete_campaign, on the row and the assignments as the request sees them.
Completing(w, r, camp, rows) ==
    IF CompletionDue(camp, rows)
    THEN [w EXCEPT !.campaign = At(r.c, MaybeCompleted(camp, rows)),
                   !.audit = @ \cup CompletionAudit(r.by, r.c, camp, rows)]
    ELSE w

Launching(r, s) ==
    [NoWrites EXCEPT
       !.campaign = At(r.c, [DraftRow(r.by, r.target, r.reward) EXCEPT !.status = "published"]),
       !.contract = At(r.c, [status |-> "locked", terms |-> r.terms]),
       !.entries  = Entry(s, r.by, -PostingCost(r.target, r.reward), PostingKey(r.c)),
       !.audit    = {Audited(r.by, action, r.c) :
                       action \in {"campaign.created", "contract.saved", "campaign.published"}}]

OwnerWrites(r, s) ==
    LET c == r.c
        closed == [s.campaign EXCEPT !.status = "cancelled"]
        decided(row, action, kind) ==
            [NoWrites EXCEPT !.rows = At(r.t, row), !.audit = {Audited(r.by, action, <<c, r.t>>)},
                             !.notes = {Notified(r.t, kind, c, r.t, 0)}]
        pending == Pending(s.rows)
    IN  CASE r.op = "launch"  -> Launching(r, s)
          [] r.op = "close"   ->
               Completing([NoWrites EXCEPT
                             !.campaign = At(c, closed),
                             !.rows  = [t \in pending |-> Cancelled(s.rows[t])],
                             !.audit = {Audited(r.by, "assignment.declined", <<c, t>>) : t \in pending}
                                         \cup {Audited(r.by, "campaign.closed", c)},
                             !.notes = {Notified(t, "application_closed", c, t, 0) : t \in pending}],
                          r, closed, Closing(s.rows))
          [] r.op = "accept"  ->
               decided([s.rows[r.t] EXCEPT !.status = "accepted", !.accepted_at = TRUE],
                       "assignment.accepted", "application_accepted")
          [] r.op = "decline" ->
               decided(Cancelled(s.rows[r.t]), "assignment.declined", "application_declined")

TesterWrites(r, s) ==
    LET c == r.c
        t == r.by
        owner == s.campaign.owner
        did(action, messages) == [NoWrites EXCEPT !.audit = {Audited(t, action, <<c, t>>)},
                                                  !.notes = messages]
        row(status) == At(t, [s.rows[t] EXCEPT !.status = status])
    IN  CASE r.op = "apply" ->
               [did("assignment.applied", {Notified(owner, "application_received", c, t, 0)})
                  EXCEPT !.rows = row("applied")]
          [] r.op = "withdraw" ->
               LET message == Notified(owner, "tester_withdrew", c, t, 0)
                   mine    == At(t, Cancelled(s.rows[t]))
               IN  Completing([did("assignment.withdrawn", {message}) EXCEPT !.rows = mine],
                              r, s.campaign, IF message \in s.withdrawals THEN s.rows ELSE Over(mine, s.rows))
          [] r.op = "session" ->
               [did("testing_session.recorded", {}) EXCEPT !.days = At(t, s.days[t] \cup {s.now \div TicksPerDay})]
          [] r.op = "submit" ->
               [did("submission.created",
                    {Notified(owner, "submission_received", c, t, Len(s.subs[t]) + 1)})
                  EXCEPT !.rows = row("submitted"),
                         !.subs = At(t, Append(s.subs[t], [status |-> "submitted",
                                                             submitted_at |-> s.now, review |-> "none"]))]
          [] r.op = "escalate" ->
               [did("dispute.opened", {Notified(owner, "dispute_opened", c, t, 0)})
                  EXCEPT !.dispute = At(t, [s.dispute[t] EXCEPT !.status = "open", !.version = r.v])]

\* The end of an approval, by review or by award: the row, the reward and the campaign.
Approving(w, r, s) ==
    LET row == At(r.t, ApprovedRow(s.rows[r.t]))
    IN  Completing([w EXCEPT !.rows = row,
                             !.entries = Entry(s, r.t, s.campaign.reward, RewardKey(r.c, r.t))],
                   r, s.campaign, Over(row, s.rows))

ReviewWrites(r, s) ==
    LET t == r.t
        subs == [s.subs[t] EXCEPT ![r.v].status = r.decision, ![r.v].review = r.decision]
        w == [NoWrites EXCEPT !.subs = At(t, subs),
                              !.rows = At(t, [s.rows[t] EXCEPT !.status = r.decision]),
                              !.audit = {Audited(r.by, ReviewAction[r.decision], <<r.c, t>>)},
                              !.notes = {Notified(t, "submission_reviewed", r.c, t, r.v)}]
    IN  IF r.decision = "approved" THEN Approving(w, r, s) ELSE w

ModeratorWrites(r, s) ==
    LET t == r.t
        d == s.dispute[t]
        verdict(outcome, remedy) ==
            [NoWrites EXCEPT
               !.dispute = At(t, [d EXCEPT !.status = outcome, !.remedy = remedy]),
               !.audit = {Audited(r.by, Verdict[outcome], <<r.c, t>>)},
               !.notes = {Notified(u, "dispute_resolved", r.c, t, 0) : u \in {t, s.campaign.owner}}]
        work(status) == At(t, [s.subs[t] EXCEPT ![d.version].status = status])
    IN  CASE r.op = "claim" ->
               [NoWrites EXCEPT
                  !.dispute = At(t, [d EXCEPT !.status = "under_review", !.assigned_to = r.by]),
                  !.audit = {Audited(r.by, "dispute.claimed", <<r.c, t>>)}]
          [] r.op = "reject" ->
               [verdict("rejected", "none") EXCEPT
                  !.subs = work("rejected"),
                  !.rows = At(t, [s.rows[t] EXCEPT !.status = "rejected", !.completed_at = TRUE])]
          [] r.op = "dismiss" -> verdict(r.outcome, "none")
          [] r.op = "award" ->
               Approving([verdict("resolved", "award_tester") EXCEPT !.subs = work("approved")], r, s)

Writes(r, s) ==
    CASE r.op \in OwnerOps     -> OwnerWrites(r, s)
      [] r.op \in TesterOps    -> TesterWrites(r, s)
      [] r.op = "review"       -> ReviewWrites(r, s)
      [] r.op \in ModeratorOps -> ModeratorWrites(r, s)

Writing(th) == Writes(tx[th].request, tx[th].read)

\* The tables with what the request of a thread writes, all of it to rows that it holds.
Written(th) ==
    LET c == tx[th].request.c
        w == Writing(th)
    IN  [campaign    |-> Over(w.campaign, campaign),
         contract    |-> Over(w.contract, contract),
         assignment  |-> [assignment EXCEPT ![c] = Over(w.rows, @)],
         submissions |-> [submissions EXCEPT ![c] = Over(w.subs, @)],
         sessions    |-> [sessions EXCEPT ![c] = Over(w.days, @)],
         dispute     |-> [dispute EXCEPT ![c] = Over(w.dispute, @)],
         balance     |-> [u \in Users |-> IF \E e \in w.entries : e.user = u
                                         THEN tx[th].read.balance[u] + (CHOOSE e \in w.entries : TRUE).delta
                                         ELSE balance[u]],
         ledger        |-> ledger \cup w.entries,
         audit         |-> audit \cup w.audit,
         notifications |-> notifications \cup w.notes]

-----------------------------------------------------------------------------
(* A thread at work *)

Held(th) == IF th \in Busy THEN tx[th].held ELSE {}

Selecting(th) == th \in Busy /\ tx[th].done < Len(Plan(tx[th].request))
NextSelect(th) == Plan(tx[th].request)[tx[th].done + 1]

\* th waits for a row that other holds.
Waits(th, other) == Selecting(th) /\ th # other /\ NextSelect(th).locks \cap Held(other) # {}

\* The transaction after one more select.
Selected(r, t, select) ==
    [t EXCEPT !.done = @ + 1,
              !.held = @ \cup select.locks,
              !.read = IF t.done + 1 = Len(Plan(r)) THEN Snapshot(r.c) ELSE @]

\* The request is admitted (get_active_user looks at its sender once) and does its first select.
\* One that waits for its first row, or is refused there, is not told apart from one still to come.
Begin(th, r) ==
    /\ tx[th] = Idle
    /\ IF r.op \in ModeratorOps THEN Moderating(r.by) ELSE Authenticated(r.by)
    /\ LET first == Plan(r)[1]
       IN  /\ first.ok
           /\ \A other \in Busy : first.locks \cap Held(other) = {}
           /\ tx' = [tx EXCEPT ![th] =
                       Selected(r, [request |-> r, done |-> 0, held |-> {}, read |-> Idle], first)]
    /\ UNCHANGED vars

Release(th) == tx' = [tx EXCEPT ![th] = Idle]

\* A request that is refused rolls back.
Select(th) ==
    /\ Selecting(th)
    /\ ~\E other \in Threads : Waits(th, other)
    /\ IF NextSelect(th).ok
       THEN tx' = [tx EXCEPT ![th] = Selected(@.request, @, NextSelect(th))]
       ELSE Release(th)
    /\ UNCHANGED vars

Commit(th) ==
    /\ th \in Busy
    /\ ~Selecting(th)
    /\ LET db == Written(th)
       IN  /\ campaign' = db.campaign
           /\ contract' = db.contract
           /\ assignment' = db.assignment
           /\ submissions' = db.submissions
           /\ sessions' = db.sessions
           /\ dispute' = db.dispute
           /\ balance' = db.balance
           /\ ledger' = db.ledger
           /\ audit' = db.audit
           /\ notifications' = db.notifications
    /\ Release(th)
    /\ UNCHANGED <<suspended, now>>

\* PostgreSQL looks for a cycle when a request has waited for its deadlock_timeout.
Deadlocked(th) ==
    \E S \in SUBSET Busy :
        /\ th \in S
        /\ \A a \in S : \E b \in S : Waits(a, b)
        /\ \A b \in S : \E a \in S : Waits(a, b)

RollBack(th) ==
    /\ Deadlocked(th)
    /\ Release(th)
    /\ UNCHANGED vars

\* Starting locks nothing before it checks; its update waits for the row.
TxStart(t, c) ==
    /\ \A th \in Busy : AssignmentRow(c, t) \cap Held(th) = {}
    /\ StartAssignment(t, c)

\* A tick is hours or a day: no request is under way at both its ends.
TxTick == Busy = {} /\ Tick

TxNext ==
    \/ \E th \in Threads : \E r \in Requests : Begin(th, r)
    \/ \E th \in Threads : Select(th) \/ Commit(th) \/ RollBack(th)
    \/ /\ TxTick \/ \E t \in Users, c \in Campaigns : TxStart(t, c)
       /\ UNCHANGED tx

TxSpec == TxInit /\ [][TxNext]_txVars

-----------------------------------------------------------------------------
\* No lost update: what a request that is about to commit writes, it has read as it is now, and what
\* it posts to the ledger nobody has posted since.
NothingStale ==
    \A th \in Busy : ~Selecting(th) =>
        LET c == tx[th].request.c
            s == tx[th].read
            w == Writes(tx[th].request, s)
        IN  /\ \A d \in DOMAIN w.campaign : campaign[d] = s.campaign
            /\ \A t \in DOMAIN w.rows : assignment[c][t] = s.rows[t]
            /\ \A t \in DOMAIN w.subs : submissions[c][t] = s.subs[t]
            /\ \A t \in DOMAIN w.days : sessions[c][t] = s.days[t]
            /\ \A t \in DOMAIN w.dispute : dispute[c][t] = s.dispute[t]
            /\ \A e \in w.entries : balance[e.user] = s.balance[e.user] /\ ~Posted(e.key)

\* However many requests wait for each other in a circle, one of them accepts an application or
\* closes its campaign, and waits for an assignment of the campaign whose row is all it holds: the
\* others lock assignment, submission, campaign and account in one order.
OppositeOrders ==
    \A th \in Busy : Deadlocked(th) =>
        \E a \in Busy :
            /\ Deadlocked(a)
            /\ tx[a].request.op \in {"accept", "close"}
            /\ tx[a].held = CampaignRow(tx[a].request.c)
            /\ \A row \in NextSelect(a).locks : row[1] = "assignment"
=============================================================================
