-------------------------- MODULE AtomicityProofs --------------------------
(*****************************************************************************)
(* The requests of Transactions take effect one by one, as in Exchange:      *)
(* AtomicSpec implements Exchange, with the effective tables for the tables  *)
(* of Exchange.  A request that holds its campaign's row takes effect with   *)
(* its last select, another one when it commits.                             *)
(*****************************************************************************)
EXTENDS DecisionProofs

-----------------------------------------------------------------------------
(* What Exchange computes of rows, it computes of those of the effective tables *)

\* The counts over the assignments of a campaign.
LEMMA AtomicCounts ==
    \A rows : /\ Atomic!Occupied(rows) = Occupied(rows)
              /\ Atomic!Approved(rows) = Approved(rows)
              /\ Atomic!Pending(rows) = Pending(rows)
              /\ Atomic!ActiveTesters(rows) = ActiveTesters(rows)
              /\ Atomic!EverAccepted(rows) = EverAccepted(rows)
              /\ Atomic!Closing(rows) = Closing(rows)
  BY DEF Atomic!Occupied, Occupied, Atomic!OccupiedStatus, OccupiedStatus, Atomic!Approved, Approved,
     Atomic!Pending, Pending, Atomic!ActiveTesters, ActiveTesters, Atomic!ActiveStatus, ActiveStatus,
     Atomic!EverAccepted, EverAccepted, Atomic!Closing, Closing, Atomic!Cancelled, Cancelled

\* Exchange counts as Transactions does.
LEMMA AtomicCardinality == \A S : Atomic!Cardinality(S) = Cardinality(S)
  BY DEF Atomic!Cardinality, Cardinality

\* The completion of a campaign.
LEMMA AtomicCompletion ==
    \A u, c, camp, rows :
       /\ Atomic!CompletionDue(camp, rows) <=> CompletionDue(camp, rows)
       /\ Atomic!MaybeCompleted(camp, rows) = MaybeCompleted(camp, rows)
       /\ Atomic!CompletionAudit(u, c, camp, rows) = CompletionAudit(u, c, camp, rows)
  <1>1. \A camp, rows : Atomic!TargetReached(camp, rows) <=> TargetReached(camp, rows)
    BY AtomicCounts, AtomicCardinality DEF Atomic!TargetReached, TargetReached
  <1>2. \A camp, rows : Atomic!ClosedWorkSettled(camp, rows) <=> ClosedWorkSettled(camp, rows)
    BY AtomicCounts DEF Atomic!ClosedWorkSettled, ClosedWorkSettled
  <1>3. \A camp, rows : Atomic!CompletionDue(camp, rows) <=> CompletionDue(camp, rows)
    BY <1>1, <1>2 DEF Atomic!CompletionDue, CompletionDue
  <1>4. \A camp, rows : Atomic!MaybeCompleted(camp, rows) = MaybeCompleted(camp, rows)
    BY <1>3 DEF Atomic!MaybeCompleted, MaybeCompleted
  <1>5. \A u, c, camp, rows : Atomic!CompletionAudit(u, c, camp, rows) =
          CompletionAudit(u, c, camp, rows)
    BY <1>3 DEF Atomic!CompletionAudit, CompletionAudit, Atomic!Audited, Audited
  <1> QED
    BY <1>3, <1>4, <1>5

\* The rows it makes.
LEMMA AtomicRows ==
    /\ \A u, action, entity : Atomic!Audited(u, action, entity) = Audited(u, action, entity)
    /\ \A u, kind, c, t, v : Atomic!Notified(u, kind, c, t, v) = Notified(u, kind, c, t, v)
    /\ \A kind, c, t, v : Atomic!ToTester(kind, c, t, v) = Notified(t, kind, c, t, v)
    /\ \A kind, c, t, v :
         Atomic!ToOwner(kind, c, t, v) = Notified(effective.campaign[c].owner, kind, c, t, v)
    /\ \A row : Atomic!Cancelled(row) = Cancelled(row) /\ Atomic!ApprovedRow(row) = ApprovedRow(row)
    /\ \A u, target, reward : Atomic!DraftRow(u, target, reward) = DraftRow(u, target, reward)
    /\ \A target, reward : Atomic!PostingCost(target, reward) = PostingCost(target, reward)
    /\ \A c, t : Atomic!PostingKey(c) = PostingKey(c) /\ Atomic!RewardKey(c, t) = RewardKey(c, t)
    /\ \A key : Atomic!Posted(key) <=> PostedIn(effective.ledger, key)
    /\ \A c, t : Atomic!Row(c, t) = effective.assignment[c][t]
    /\ \A table, c, t, row : Atomic!Put(table, c, t, row) = [table EXCEPT ![c][t] = row]
    /\ Atomic!Today = now \div TicksPerDay
  <1>1. /\ \A u, action, entity : Atomic!Audited(u, action, entity) = Audited(u, action, entity)
        /\ \A u, kind, c, t, v : Atomic!Notified(u, kind, c, t, v) = Notified(u, kind, c, t, v)
    BY DEF Atomic!Audited, Audited, Atomic!Notified, Notified
  <1>2. /\ \A kind, c, t, v : Atomic!ToTester(kind, c, t, v) = Notified(t, kind, c, t, v)
        /\ \A kind, c, t, v :
             Atomic!ToOwner(kind, c, t, v) = Notified(effective.campaign[c].owner, kind, c, t, v)
    BY <1>1 DEF Atomic!ToTester, Atomic!ToOwner
  <1>3. \A row : Atomic!Cancelled(row) = Cancelled(row) /\ Atomic!ApprovedRow(row) = ApprovedRow(row)
    BY DEF Atomic!Cancelled, Cancelled, Atomic!ApprovedRow, ApprovedRow
  <1>4. /\ \A u, target, reward : Atomic!DraftRow(u, target, reward) = DraftRow(u, target, reward)
        /\ \A target, reward : Atomic!PostingCost(target, reward) = PostingCost(target, reward)
        /\ \A c, t : Atomic!PostingKey(c) = PostingKey(c) /\ Atomic!RewardKey(c, t) = RewardKey(c, t)
    BY DEF Atomic!DraftRow, DraftRow, Atomic!PostingCost, PostingCost, Atomic!PostingKey, PostingKey,
       Atomic!RewardKey, RewardKey
  <1>5. /\ \A key : Atomic!Posted(key) <=> PostedIn(effective.ledger, key)
        /\ \A c, t : Atomic!Row(c, t) = effective.assignment[c][t]
        /\ \A table, c, t, row : Atomic!Put(table, c, t, row) = [table EXCEPT ![c][t] = row]
        /\ Atomic!Today = now \div TicksPerDay
    BY DEF Atomic!Posted, PostedIn, Atomic!Row, Atomic!Put, Atomic!Today
  <1> QED
    BY <1>1, <1>2, <1>3, <1>4, <1>5

-----------------------------------------------------------------------------
(* A request that takes effect *)

\* The tables, when a request of the campaign's row decides, are those it reads about the campaign,
\* whose owner may write the message of a withdrawal; who takes a seat has found one free.
Seen(r, s, db) ==
    r.op \in CampaignOps =>
        /\ db.campaign[r.c] = s.campaign /\ db.assignment[r.c] = s.rows
        /\ db.submissions[r.c] = s.subs /\ db.dispute[r.c] = s.dispute
        /\ \A key : PostedIn(s.ledger, key) => PostedIn(db.ledger, key)
        /\ \A n : n.kind = "tester_withdrew" /\ n.assignment[1] = r.c =>
             (n \in s.withdrawals <=> n \in db.notifications)
        /\ r.op \in {"accept", "apply"} => Cardinality(Occupied(s.rows)) < s.campaign.target

\* Request r, which holds h and has read s, takes effect on the tables db.
Takes(r, h, s, db, clock) ==
    /\ r \in Requests
    /\ Decides(r, h, s, db.contract[r.c].terms, clock)
    /\ Fresh(r.c, h, s, db) /\ Formed(db)
    /\ s.campaign.status # "none" => db.campaign[r.c].owner = s.campaign.owner
    /\ r.op \in ModeratorOps => r.by \in Moderators
    /\ Seen(r, s, db)

\* What it knows of them.
LEMMA TakesFacts ==
    ASSUME NEW r, NEW h, NEW s, NEW db, NEW clock, Takes(r, h, s, db, clock), NEW t, t = Worker(r)
    PROVE  /\ r \in Requests /\ r.c \in Campaigns /\ r.by \in Users
           /\ Knows(r, 6, s, db.contract[r.c].terms, clock) /\ s.now = clock /\ clock \in Nat
           /\ ReadNow(r, s, db, t) /\ Seen(r, s, db) /\ Formed(db)
           /\ SoundView(s) /\ s.rows \in [Users -> Assignment] /\ s.dispute \in [Users -> Dispute]
           /\ r.op \in WorkOps \cup ModeratorOps \cup {"close", "apply"} =>
                s.campaign.status # "none" /\ db.campaign[r.c].owner = s.campaign.owner
           /\ r.op \in WorkOps \cup ModeratorOps \cup TesterOps => t \in Users
           /\ r.op \in ModeratorOps => r.by \in Moderators
  <1>1. /\ r \in Requests /\ Decides(r, h, s, db.contract[r.c].terms, clock)
        /\ Fresh(r.c, h, s, db) /\ Seen(r, s, db) /\ Formed(db)
        /\ s.campaign.status # "none" => db.campaign[r.c].owner = s.campaign.owner
        /\ r.op \in ModeratorOps => r.by \in Moderators
    BY DEF Takes
  <1>2. Done(r, h, s) /\ Knows(r, 6, s, db.contract[r.c].terms, clock) /\ s.now = clock
        /\ SoundView(s) /\ clock \in Nat
    BY <1>1 DEF Decides
  <1>3. ReadNow(r, s, db, t)
    BY <1>1, <1>2, ReadsNow
  <1>4. s.rows \in [Users -> Assignment] /\ s.dispute \in [Users -> Dispute]
    BY <1>2 DEF Done
  <1>5. r.op \in WorkOps \cup ModeratorOps \cup {"close", "apply"} => s.campaign.status # "none"
    BY <1>1, WorkCampaign
  <1> QED
    BY <1>1, <1>2, <1>3, <1>4, <1>5, RequestFields

\* Requests without effect on the campaign, its contract, or the accounts.
LEMMA AtomicAside ==
    ASSUME NEW db, db = effective, NEW later, later = effective'
    PROVE  /\ later.campaign = db.campaign => UNCHANGED effective.campaign
           /\ later.contract = db.contract => UNCHANGED effective.contract
           /\ later.balance = db.balance /\ later.ledger = db.ledger => UNCHANGED Atomic!creditVars
  BY DEF Atomic!creditVars

-----------------------------------------------------------------------------
(* Each request that takes effect is a step of Exchange *)

\* Accepting an application.
LEMMA TakesAccept ==
    ASSUME NEW r, r.op = "accept", NEW h, NEW s, suspended = {}, UNCHANGED <<suspended, now>>,
           NEW db, db = effective, Takes(r, h, s, db, now), NEW w, w = Writes(r, s),
           NEW later, later = effective', later = Patch(r.c, w, db)
    PROVE  Atomic!AcceptAssignment(r.by, r.c, r.t)
  <1> DEFINE c == r.c
             t == r.t
             row == [s.rows[t] EXCEPT !.status = "accepted", !.accepted_at = TRUE]
  <1>1. /\ c \in Campaigns /\ t \in Users /\ Formed(db)
        /\ Knows(r, 6, s, db.contract[c].terms, now) /\ Seen(r, s, db)
        /\ db.campaign[c].owner = s.campaign.owner
    BY TakesFacts DEF Worker, WorkOps, TesterOps
  <1>2. /\ s.campaign.owner = r.by /\ s.campaign.status = "published" /\ s.rows[t].status = "applied"
    BY <1>1 DEF Knows, OwnerKnows
  <1>3. /\ db.campaign[c] = s.campaign /\ db.assignment[c] = s.rows
        /\ Cardinality(Occupied(s.rows)) < s.campaign.target
    BY <1>1 DEF Seen, CampaignOps
  <1>4. Accepts(r, s, w)
    BY AcceptColumns
  <1> HIDE DEF row
  <1>5. /\ w.campaign = <<>> /\ w.contract = <<>> /\ w.rows = At(t, row)
        /\ w.subs = <<>> /\ w.days = <<>> /\ w.dispute = <<>> /\ w.entries = {}
        /\ w.audit = {Audited(r.by, "assignment.accepted", <<c, t>>)}
        /\ w.notes = {Notified(t, "application_accepted", c, t, 0)}
    BY <1>4, Zenon DEF Accepts, row
  <1>6. /\ later.campaign = db.campaign /\ later.contract = db.contract
        /\ later.submissions = db.submissions /\ later.sessions = db.sessions
        /\ later.dispute = db.dispute /\ later.balance = db.balance /\ later.ledger = db.ledger
        /\ later.audit = db.audit \cup w.audit /\ later.notifications = db.notifications \cup w.notes
    <2>1. c \in Campaigns /\ Formed(db)
      BY <1>1
    <2> QED
      BY <1>5, <2>1, PatchNone
  <1>7. later.assignment = [db.assignment EXCEPT ![c][t] = row]
    BY <1>1, <1>5, PatchOne
  <1> HIDE DEF c, t
  <1>8. Atomic!Authenticated(r.by) /\ Atomic!Owns(r.by, c)
          /\ effective.campaign[c].status = "published"
    BY <1>1, <1>2, <1>3 DEF Atomic!Authenticated, Atomic!Owns
  <1>9. Atomic!Row(c, t).status = "applied"
    BY <1>2, <1>3, AtomicRows
  <1>10. Atomic!SeatFree(c)
    BY <1>3, AtomicCounts, AtomicCardinality DEF Atomic!SeatFree
  <1>11. effective'.assignment = Atomic!Put(effective.assignment, c, t,
                         [Atomic!Row(c, t) EXCEPT !.status = "accepted", !.accepted_at = TRUE])
    <2>1. row = [Atomic!Row(c, t) EXCEPT !.status = "accepted", !.accepted_at = TRUE]
      BY <1>3 DEF row, Atomic!Row, c, t
    <2> QED
      BY <1>7, <2>1 DEF Atomic!Put
  <1>12. Atomic!AddAuditEvents({Atomic!Audited(r.by, "assignment.accepted", <<c, t>>)})
    BY <1>5, <1>6, AtomicRows DEF Atomic!AddAuditEvents
  <1>13. Atomic!AddNotifications({Atomic!ToTester("application_accepted", c, t, 0)})
    BY <1>5, <1>6, AtomicRows DEF Atomic!AddNotifications
  <1>14. UNCHANGED <<Atomic!campaignVars, Atomic!creditVars, Atomic!unchangedByOwner>>
    BY <1>6 DEF Atomic!campaignVars, Atomic!creditVars, Atomic!unchangedByOwner
  <1>15. Atomic!AcceptAssignment(r.by, c, t)
    BY <1>8, <1>9, <1>10, <1>11, <1>12, <1>13, <1>14 DEF Atomic!AcceptAssignment
  <1> QED
    BY <1>15 DEF c, t

\* Declining one.
LEMMA TakesDecline ==
    ASSUME NEW r, r.op = "decline", NEW h, NEW s, suspended = {}, UNCHANGED <<suspended, now>>,
           NEW db, db = effective, Takes(r, h, s, db, now), NEW w, w = Writes(r, s),
           NEW later, later = effective', later = Patch(r.c, w, db)
    PROVE  Atomic!DeclineAssignment(r.by, r.c, r.t)
  <1> DEFINE c == r.c
             t == r.t
             row == Cancelled(s.rows[t])
  <1>1. /\ c \in Campaigns /\ t \in Users /\ t = Worker(r) /\ Formed(db)
        /\ Knows(r, 6, s, db.contract[c].terms, now) /\ ReadNow(r, s, db, t)
        /\ db.campaign[c].owner = s.campaign.owner
    <2>1. t = Worker(r)
      BY DEF Worker, TesterOps
    <2> QED
      BY <2>1, TakesFacts DEF WorkOps
  <1>2. s.campaign.owner = r.by /\ s.rows[t].status = "applied"
    BY <1>1 DEF Knows, OwnerKnows
  <1>3. db.assignment[c][t] = s.rows[t]
    BY <1>1 DEF ReadNow, WorkOps
  <1>4. Declines(r, s, w)
    BY DeclineColumns
  <1> HIDE DEF row
  <1>5. /\ w.campaign = <<>> /\ w.contract = <<>> /\ w.rows = At(t, row)
        /\ w.subs = <<>> /\ w.days = <<>> /\ w.dispute = <<>> /\ w.entries = {}
        /\ w.audit = {Audited(r.by, "assignment.declined", <<c, t>>)}
        /\ w.notes = {Notified(t, "application_declined", c, t, 0)}
    BY <1>4, Zenon DEF Declines, row
  <1>6. /\ later.campaign = db.campaign /\ later.contract = db.contract
        /\ later.submissions = db.submissions /\ later.sessions = db.sessions
        /\ later.dispute = db.dispute /\ later.balance = db.balance /\ later.ledger = db.ledger
        /\ later.audit = db.audit \cup w.audit /\ later.notifications = db.notifications \cup w.notes
    <2>1. c \in Campaigns /\ Formed(db)
      BY <1>1
    <2> QED
      BY <1>5, <2>1, PatchNone
  <1>7. later.assignment = [db.assignment EXCEPT ![c][t] = row]
    BY <1>1, <1>5, PatchOne
  <1> HIDE DEF c, t
  <1>8. Atomic!Authenticated(r.by) /\ Atomic!Owns(r.by, c)
    BY <1>1, <1>2 DEF Atomic!Authenticated, Atomic!Owns
  <1>9. Atomic!Row(c, t).status = "applied"
    BY <1>2, <1>3, AtomicRows
  <1>10. effective'.assignment =
           Atomic!Put(effective.assignment, c, t, Atomic!Cancelled(Atomic!Row(c, t)))
    <2>1. row = Atomic!Cancelled(Atomic!Row(c, t))
      BY <1>3, AtomicRows DEF row
    <2> QED
      BY <1>7, <2>1 DEF Atomic!Put
  <1>11. Atomic!AddAuditEvents({Atomic!Audited(r.by, "assignment.declined", <<c, t>>)})
    BY <1>5, <1>6, AtomicRows DEF Atomic!AddAuditEvents
  <1>12. Atomic!AddNotifications({Atomic!ToTester("application_declined", c, t, 0)})
    BY <1>5, <1>6, AtomicRows DEF Atomic!AddNotifications
  <1>13. UNCHANGED <<Atomic!campaignVars, Atomic!creditVars, Atomic!unchangedByOwner>>
    BY <1>6 DEF Atomic!campaignVars, Atomic!creditVars, Atomic!unchangedByOwner
  <1>14. Atomic!DeclineAssignment(r.by, c, t)
    BY <1>8, <1>9, <1>10, <1>11, <1>12, <1>13 DEF Atomic!DeclineAssignment
  <1> QED
    BY <1>14 DEF c, t

\* Applying.
LEMMA TakesApply ==
    ASSUME NEW r, r.op = "apply", NEW h, NEW s, suspended = {}, UNCHANGED <<suspended, now>>,
           NEW db, db = effective, Takes(r, h, s, db, now), NEW w, w = Writes(r, s),
           NEW later, later = effective', later = Patch(r.c, w, db)
    PROVE  Atomic!ApplyToCampaign(r.by, r.c)
  <1> DEFINE c == r.c
             t == r.by
             row == [s.rows[t] EXCEPT !.status = "applied"]
  <1>1. /\ c \in Campaigns /\ t \in Users /\ Formed(db)
        /\ Knows(r, 6, s, db.contract[c].terms, now) /\ Seen(r, s, db)
        /\ ReadNow(r, s, db, t) /\ db.campaign[c].owner = s.campaign.owner
    <2>1. t = Worker(r)
      BY DEF Worker, TesterOps
    <2> QED
      BY <2>1, TakesFacts
  <1>2. s.campaign.owner # t /\ s.campaign.status = "published" /\ s.rows[t].status = "none"
    BY <1>1 DEF Knows, TesterKnows, ReadNow
  <1>3. /\ db.campaign[c] = s.campaign /\ db.assignment[c] = s.rows
        /\ Cardinality(Occupied(s.rows)) < s.campaign.target
    BY <1>1 DEF Seen, CampaignOps
  <1>4. Applies(r, s, w)
    BY ApplyColumns
  <1> HIDE DEF row
  <1>5. /\ w.campaign = <<>> /\ w.contract = <<>> /\ w.rows = At(t, row)
        /\ w.subs = <<>> /\ w.days = <<>> /\ w.dispute = <<>> /\ w.entries = {}
        /\ w.audit = {Audited(t, "assignment.applied", <<c, t>>)}
        /\ w.notes = {Notified(s.campaign.owner, "application_received", c, t, 0)}
    BY <1>4, Zenon DEF Applies, row
  <1>6. /\ later.campaign = db.campaign /\ later.contract = db.contract
        /\ later.submissions = db.submissions /\ later.sessions = db.sessions
        /\ later.dispute = db.dispute /\ later.balance = db.balance /\ later.ledger = db.ledger
        /\ later.audit = db.audit \cup w.audit /\ later.notifications = db.notifications \cup w.notes
    <2>1. c \in Campaigns /\ Formed(db)
      BY <1>1
    <2> QED
      BY <1>5, <2>1, PatchNone
  <1>7. later.assignment = [db.assignment EXCEPT ![c][t] = row]
    BY <1>1, <1>5, PatchOne
  <1> HIDE DEF c, t
  <1>8. Atomic!Authenticated(t) /\ ~Atomic!Owns(t, c) /\ effective.campaign[c].status = "published"
    BY <1>1, <1>2, <1>3 DEF Atomic!Authenticated, Atomic!Owns
  <1>9. Atomic!Row(c, t).status = "none"
    BY <1>2, <1>3, AtomicRows
  <1>10. Atomic!SeatFree(c)
    BY <1>3, AtomicCounts, AtomicCardinality DEF Atomic!SeatFree
  <1>11. effective'.assignment = Atomic!SetStatus(c, t, "applied")
    <2>1. row = [Atomic!Row(c, t) EXCEPT !.status = "applied"]
      BY <1>3 DEF row, Atomic!Row, c, t
    <2> QED
      BY <1>7, <2>1 DEF Atomic!Put, Atomic!SetStatus
  <1>12. Atomic!AddAuditEvents({Atomic!Audited(t, "assignment.applied", <<c, t>>)})
    BY <1>5, <1>6, AtomicRows DEF Atomic!AddAuditEvents
  <1>13. Atomic!AddNotifications({Atomic!ToOwner("application_received", c, t, 0)})
    BY <1>1, <1>5, <1>6, AtomicRows DEF Atomic!AddNotifications
  <1>14. UNCHANGED <<Atomic!campaignVars, Atomic!creditVars, Atomic!unchangedByOwner>>
    BY <1>6 DEF Atomic!campaignVars, Atomic!creditVars, Atomic!unchangedByOwner
  <1>15. Atomic!ApplyToCampaign(t, c)
    BY <1>8, <1>9, <1>10, <1>11, <1>12, <1>13, <1>14 DEF Atomic!ApplyToCampaign
  <1> QED
    BY <1>15 DEF c, t

\* Recording a session.
LEMMA TakesSession ==
    ASSUME NEW r, r.op = "session", NEW h, NEW s, suspended = {}, UNCHANGED <<suspended, now>>,
           NEW db, db = effective, Takes(r, h, s, db, now), NEW w, w = Writes(r, s),
           NEW later, later = effective', later = Patch(r.c, w, db)
    PROVE  Atomic!RecordTestingSession(r.by, r.c)
  <1> DEFINE c == r.c
             t == r.by
             days == s.days[t] \cup {now \div TicksPerDay}
  <1>1. /\ c \in Campaigns /\ t \in Users /\ Formed(db) /\ s.now = now
        /\ Knows(r, 6, s, db.contract[c].terms, now) /\ ReadNow(r, s, db, t)
    <2>1. t = Worker(r)
      BY DEF Worker, TesterOps
    <2> QED
      BY <2>1, TakesFacts
  <1>2. /\ s.rows[t].status \in {"in_progress", "changes_requested"}
        /\ now \div TicksPerDay \notin s.days[t]
    BY <1>1 DEF Knows, TesterKnows
  <1>3. db.assignment[c][t] = s.rows[t] /\ db.sessions[c][t] = s.days[t]
    BY <1>1 DEF ReadNow, WorkOps
  <1>4. Records(r, s, w)
    BY SessionColumns
  <1> HIDE DEF days
  <1>5. /\ w.campaign = <<>> /\ w.contract = <<>> /\ w.rows = <<>>
        /\ w.subs = <<>> /\ w.days = At(t, days) /\ w.dispute = <<>> /\ w.entries = {}
        /\ w.audit = {Audited(t, "testing_session.recorded", <<c, t>>)}
        /\ w.notes = {}
    BY <1>1, <1>4, Zenon DEF Records, days
  <1>6. /\ later.campaign = db.campaign /\ later.contract = db.contract
        /\ later.submissions = db.submissions /\ later.assignment = db.assignment
        /\ later.dispute = db.dispute /\ later.balance = db.balance /\ later.ledger = db.ledger
        /\ later.audit = db.audit \cup w.audit /\ later.notifications = db.notifications
    <2>1. c \in Campaigns /\ Formed(db)
      BY <1>1
    <2>2. later.notifications = db.notifications \cup w.notes
      BY <2>1, PatchNone
    <2>3. later.notifications = db.notifications
      BY <1>5, <2>2
    <2> QED
      BY <1>5, <2>1, <2>3, PatchNone
  <1>7. later.sessions = [db.sessions EXCEPT ![c][t] = days]
    BY <1>1, <1>5, PatchOne
  <1> HIDE DEF c, t
  <1>8. Atomic!Authenticated(t)
    BY DEF Atomic!Authenticated
  <1>9. Atomic!Testing(c, t) /\ Atomic!Today \notin effective.sessions[c][t]
    BY <1>2, <1>3, AtomicRows DEF Atomic!Testing
  <1>10. effective'.sessions = Atomic!Put(effective.sessions, c, t,
                                          effective.sessions[c][t] \cup {Atomic!Today})
    <2>1. days = effective.sessions[c][t] \cup {Atomic!Today}
      BY <1>3, AtomicRows DEF days
    <2> QED
      BY <1>7, <2>1 DEF Atomic!Put
  <1>11. Atomic!AddAuditEvents({Atomic!Audited(t, "testing_session.recorded", <<c, t>>)})
    BY <1>5, <1>6, AtomicRows DEF Atomic!AddAuditEvents
  <1>12. /\ UNCHANGED <<Atomic!campaignVars, Atomic!creditVars, effective.assignment>>
         /\ UNCHANGED <<effective.submissions, effective.dispute, effective.notifications>>
    BY <1>6 DEF Atomic!campaignVars, Atomic!creditVars
  <1>13. Atomic!RecordTestingSession(t, c)
    BY <1>8, <1>9, <1>10, <1>11, <1>12 DEF Atomic!RecordTestingSession
  <1> QED
    BY <1>13 DEF c, t

\* Submitting.
LEMMA TakesSubmit ==
    ASSUME NEW r, r.op = "submit", NEW h, NEW s, suspended = {}, UNCHANGED <<suspended, now>>,
           NEW db, db = effective, Takes(r, h, s, db, now), NEW w, w = Writes(r, s),
           NEW later, later = effective', later = Patch(r.c, w, db)
    PROVE  Atomic!CreateSubmission(r.by, r.c)
  <1> DEFINE c == r.c
             t == r.by
             terms == db.contract[c].terms
             version == [status |-> "submitted", submitted_at |-> now, review |-> "none"]
             versions == Append(s.subs[t], version)
             row == [s.rows[t] EXCEPT !.status = "submitted"]
  <1>1. /\ c \in Campaigns /\ t \in Users /\ Formed(db) /\ s.now = now
        /\ Knows(r, 6, s, terms, now) /\ ReadNow(r, s, db, t)
        /\ db.campaign[c].owner = s.campaign.owner
    <2>1. t = Worker(r)
      BY DEF Worker, TesterOps
    <2> QED
      BY <2>1, TakesFacts DEF WorkOps
  <1> HIDE DEF terms
  <1>2. /\ s.rows[t].status \in {"in_progress", "changes_requested"}
        /\ s.rows[t].started_at # Null
        /\ now >= s.rows[t].started_at + terms.minimum_days * TicksPerDay
        /\ Cardinality(s.days[t]) >= terms.required_sessions
        /\ Len(s.subs[t]) < MaxVersions
    BY <1>1 DEF Knows, TesterKnows
  <1>3. /\ db.assignment[c][t] = s.rows[t] /\ db.sessions[c][t] = s.days[t]
        /\ db.submissions[c][t] = s.subs[t]
    BY <1>1 DEF ReadNow, WorkOps
  <1>4. Submits(r, s, w)
    BY SubmitColumns
  <1> HIDE DEF row, versions
  <1>5. /\ w.campaign = <<>> /\ w.contract = <<>> /\ w.rows = At(t, row)
        /\ w.subs = At(t, versions) /\ w.days = <<>> /\ w.dispute = <<>> /\ w.entries = {}
        /\ w.audit = {Audited(t, "submission.created", <<c, t>>)}
        /\ w.notes = {Notified(s.campaign.owner, "submission_received", c, t, Len(s.subs[t]) + 1)}
    BY <1>1, <1>4, Zenon DEF Submits, row, versions
  <1>6. /\ later.campaign = db.campaign /\ later.contract = db.contract
        /\ later.sessions = db.sessions
        /\ later.dispute = db.dispute /\ later.balance = db.balance /\ later.ledger = db.ledger
        /\ later.audit = db.audit \cup w.audit /\ later.notifications = db.notifications \cup w.notes
    <2>1. c \in Campaigns /\ Formed(db)
      BY <1>1
    <2> QED
      BY <1>5, <2>1, PatchNone
  <1>7. /\ later.assignment = [db.assignment EXCEPT ![c][t] = row]
        /\ later.submissions = [db.submissions EXCEPT ![c][t] = versions]
    BY <1>1, <1>5, PatchRow, PatchVersions
  <1> HIDE DEF c, t
  <1>8. Atomic!Authenticated(t)
    BY DEF Atomic!Authenticated
  <1>9. Atomic!Testing(c, t) /\ Atomic!Versions(c, t) < MaxVersions
    BY <1>2, <1>3, AtomicRows DEF Atomic!Testing, Atomic!Versions
  <1>10. Atomic!ContractFulfilled(c, t)
    <2>1. /\ Atomic!Row(c, t) = s.rows[t] /\ effective.contract[c].terms = terms
          /\ Atomic!Cardinality(effective.sessions[c][t]) = Cardinality(s.days[t])
          /\ Atomic!Null = Null
      BY <1>3, AtomicRows, AtomicCardinality DEF terms, c, Atomic!Null, Null
    <2> QED
      BY <1>2, <2>1 DEF Atomic!ContractFulfilled
  <1>11. effective'.assignment = Atomic!SetStatus(c, t, "submitted")
    <2>1. row = [Atomic!Row(c, t) EXCEPT !.status = "submitted"]
      BY <1>3 DEF row, Atomic!Row, c, t
    <2> QED
      BY <1>7, <2>1 DEF Atomic!Put, Atomic!SetStatus
  <1>12. effective'.submissions = Atomic!Put(effective.submissions, c, t,
                                             Append(effective.submissions[c][t], version))
    <2>1. versions = Append(effective.submissions[c][t], version)
      BY <1>3 DEF versions, c, t
    <2> QED
      BY <1>7, <2>1 DEF Atomic!Put
  <1>13. Atomic!AddAuditEvents({Atomic!Audited(t, "submission.created", <<c, t>>)})
    BY <1>5, <1>6, AtomicRows DEF Atomic!AddAuditEvents
  <1>14. Atomic!AddNotifications(
           {Atomic!ToOwner("submission_received", c, t, Atomic!Versions(c, t) + 1)})
    <2>1. Atomic!Versions(c, t) = Len(s.subs[t])
      BY <1>3 DEF Atomic!Versions
    <2> QED
      BY <1>1, <1>5, <1>6, <2>1, AtomicRows DEF Atomic!AddNotifications
  <1>15. /\ UNCHANGED <<Atomic!campaignVars, Atomic!creditVars>>
         /\ UNCHANGED <<effective.sessions, effective.dispute>>
    BY <1>6 DEF Atomic!campaignVars, Atomic!creditVars
  <1>16. Atomic!CreateSubmission(t, c)
    BY <1>8, <1>9, <1>10, <1>11, <1>12, <1>13, <1>14, <1>15 DEF Atomic!CreateSubmission
  <1> QED
    BY <1>16 DEF c, t

\* Escalating.
LEMMA TakesEscalate ==
    ASSUME NEW r, r.op = "escalate", NEW h, NEW s, suspended = {}, UNCHANGED <<suspended, now>>,
           NEW db, db = effective, Takes(r, h, s, db, now), NEW w, w = Writes(r, s),
           NEW later, later = effective', later = Patch(r.c, w, db)
    PROVE  r.v \in DOMAIN effective.submissions[r.c][r.by] /\ Atomic!OpenDispute(r.by, r.c, r.v)
  <1> DEFINE c == r.c
             t == r.by
             v == r.v
             terms == db.contract[c].terms
             row == [s.dispute[t] EXCEPT !.status = "open", !.version = v]
  <1>1. /\ c \in Campaigns /\ t \in Users /\ Formed(db)
        /\ Knows(r, 6, s, terms, now) /\ ReadNow(r, s, db, t)
        /\ db.campaign[c].owner = s.campaign.owner /\ s.dispute[t].status = "none"
    <2>1. t = Worker(r)
      BY DEF Worker, TesterOps
    <2>2. s.dispute[t].status = "none"
      BY DoneHolds DEF Takes, Decides
    <2> QED
      BY <2>1, <2>2, TakesFacts DEF WorkOps
  <1> HIDE DEF terms
  <1>2. /\ v \in DOMAIN s.subs[t]
        /\ \/ /\ s.rows[t].status = "submitted"
              /\ s.subs[t][v].status = "submitted"
              /\ now >= s.subs[t][v].submitted_at + terms.review_window
           \/ /\ s.rows[t].status = "rejected"
              /\ s.subs[t][v].status = "rejected"
    BY <1>1 DEF Knows, TesterKnows
  <1>3. /\ db.assignment[c][t] = s.rows[t] /\ db.submissions[c][t] = s.subs[t]
        /\ db.dispute[c][t] = s.dispute[t]
    BY <1>1 DEF ReadNow, WorkOps
  <1>4. Escalates(r, s, w)
    BY EscalateColumns
  <1> HIDE DEF row
  <1>5. /\ w.campaign = <<>> /\ w.contract = <<>> /\ w.rows = <<>>
        /\ w.subs = <<>> /\ w.days = <<>> /\ w.dispute = At(t, row) /\ w.entries = {}
        /\ w.audit = {Audited(t, "dispute.opened", <<c, t>>)}
        /\ w.notes = {Notified(s.campaign.owner, "dispute_opened", c, t, 0)}
    BY <1>4, Zenon DEF Escalates, row
  <1>6. /\ later.campaign = db.campaign /\ later.contract = db.contract
        /\ later.assignment = db.assignment /\ later.submissions = db.submissions
        /\ later.sessions = db.sessions /\ later.balance = db.balance /\ later.ledger = db.ledger
        /\ later.audit = db.audit \cup w.audit /\ later.notifications = db.notifications \cup w.notes
    <2>1. c \in Campaigns /\ Formed(db) /\ later = Patch(c, w, db)
      BY <1>1
    <2> HIDE DEF c
    <2> QED
      BY <1>5, <2>1, PatchNone
  <1>7. later.dispute = [db.dispute EXCEPT ![c][t] = row]
    BY <1>1, <1>5, PatchCase
  <1> HIDE DEF c, t, v
  <1>8. Atomic!Authenticated(t) /\ effective.dispute[c][t].status = "none"
    BY <1>1, <1>3 DEF Atomic!Authenticated
  <1>9. v \in DOMAIN effective.submissions[c][t]
    BY <1>2, <1>3
  <1>10. Atomic!Escalatable(c, t, v)
    <2>1. Atomic!Row(c, t) = s.rows[t] /\ effective.contract[c].terms = terms
      BY <1>3, AtomicRows DEF terms, c
    <2> QED
      BY <1>2, <1>3, <2>1 DEF Atomic!Escalatable, Atomic!Overdue
  <1>11. effective'.dispute = Atomic!Put(effective.dispute, c, t,
                                 [effective.dispute[c][t] EXCEPT !.status = "open", !.version = v])
    <2>1. row = [effective.dispute[c][t] EXCEPT !.status = "open", !.version = v]
      BY <1>3 DEF row, c, t
    <2> QED
      BY <1>7, <2>1 DEF Atomic!Put
  <1>12. Atomic!AddAuditEvents({Atomic!Audited(t, "dispute.opened", <<c, t>>)})
    BY <1>5, <1>6, AtomicRows DEF Atomic!AddAuditEvents
  <1>13. Atomic!AddNotifications({Atomic!ToOwner("dispute_opened", c, t, 0)})
    BY <1>1, <1>5, <1>6, AtomicRows DEF Atomic!AddNotifications
  <1>14. UNCHANGED <<Atomic!campaignVars, Atomic!creditVars, Atomic!workVars>>
    BY <1>6 DEF Atomic!campaignVars, Atomic!creditVars, Atomic!workVars
  <1>15. Atomic!OpenDispute(t, c, v)
    BY <1>8, <1>9, <1>10, <1>11, <1>12, <1>13, <1>14 DEF Atomic!OpenDispute
  <1> QED
    BY <1>9, <1>15 DEF c, t, v

\* Claiming a dispute.
LEMMA TakesClaim ==
    ASSUME NEW r, r.op = "claim", NEW h, NEW s, suspended = {}, UNCHANGED <<suspended, now>>,
           NEW db, db = effective, Takes(r, h, s, db, now), NEW w, w = Writes(r, s),
           NEW later, later = effective', later = Patch(r.c, w, db)
    PROVE  Atomic!ClaimDispute(r.by, r.c, r.t)
  <1> DEFINE c == r.c
             t == r.t
             row == [s.dispute[t] EXCEPT !.status = "under_review", !.assigned_to = r.by]
  <1>1. /\ c \in Campaigns /\ t \in Users /\ Formed(db) /\ r.by \in Moderators
        /\ Knows(r, 6, s, db.contract[c].terms, now) /\ ReadNow(r, s, db, t)
    <2>1. t = Worker(r)
      BY DEF Worker, TesterOps
    <2> QED
      BY <2>1, TakesFacts DEF ModeratorOps
  <1>2. s.dispute[t].status = "open"
    BY <1>1 DEF Knows, ModeratorKnows
  <1>3. db.dispute[c][t] = s.dispute[t]
    BY <1>1 DEF ReadNow, ModeratorOps
  <1>4. Claims(r, s, w)
    BY ClaimColumns
  <1> HIDE DEF row
  <1>5. /\ w.campaign = <<>> /\ w.contract = <<>> /\ w.rows = <<>>
        /\ w.subs = <<>> /\ w.days = <<>> /\ w.dispute = At(t, row) /\ w.entries = {}
        /\ w.audit = {Audited(r.by, "dispute.claimed", <<c, t>>)}
        /\ w.notes = {}
    BY <1>4, Zenon DEF Claims, row
  <1>6. /\ later.campaign = db.campaign /\ later.contract = db.contract
        /\ later.assignment = db.assignment /\ later.submissions = db.submissions
        /\ later.sessions = db.sessions /\ later.balance = db.balance /\ later.ledger = db.ledger
        /\ later.audit = db.audit \cup w.audit /\ later.notifications = db.notifications
    <2>1. c \in Campaigns /\ Formed(db)
      BY <1>1
    <2>2. later.notifications = db.notifications \cup w.notes
      BY <2>1, PatchNone
    <2>3. later.notifications = db.notifications
      BY <1>5, <2>2
    <2> QED
      BY <1>5, <2>1, <2>3, PatchNone
  <1>7. later.dispute = [db.dispute EXCEPT ![c][t] = row]
    BY <1>1, <1>5, PatchOne
  <1> HIDE DEF c, t
  <1>8. Atomic!Moderating(r.by) /\ effective.dispute[c][t].status = "open"
    BY <1>1, <1>2, <1>3 DEF Atomic!Moderating, Atomic!Authenticated
  <1>9. effective'.dispute = Atomic!Put(effective.dispute, c, t,
            [effective.dispute[c][t] EXCEPT !.status = "under_review", !.assigned_to = r.by])
    <2>1. row = [effective.dispute[c][t] EXCEPT !.status = "under_review", !.assigned_to = r.by]
      BY <1>3 DEF row, c, t
    <2> QED
      BY <1>7, <2>1 DEF Atomic!Put
  <1>10. Atomic!AddAuditEvents({Atomic!Audited(r.by, "dispute.claimed", <<c, t>>)})
    BY <1>5, <1>6, AtomicRows DEF Atomic!AddAuditEvents
  <1>11. /\ UNCHANGED <<Atomic!campaignVars, Atomic!creditVars, Atomic!workVars>>
         /\ UNCHANGED effective.notifications
    BY <1>6 DEF Atomic!campaignVars, Atomic!creditVars, Atomic!workVars
  <1>12. Atomic!ClaimDispute(r.by, c, t)
    BY <1>8, <1>9, <1>10, <1>11 DEF Atomic!ClaimDispute
  <1> QED
    BY <1>12 DEF c, t

\* A verdict, and the message to both parties.
Judged(r, c, t, db, later, outcome, remedy, completion) ==
    /\ later.dispute = [db.dispute EXCEPT ![c][t] =
                          [db.dispute[c][t] EXCEPT !.status = outcome, !.remedy = remedy]]
    /\ later.audit = db.audit \cup ({Audited(r.by, Verdict[outcome], <<c, t>>)} \cup completion)
    /\ later.notifications = db.notifications
         \cup {Notified(u, "dispute_resolved", c, t, 0) : u \in {t, db.campaign[c].owner}}
    /\ later.contract = db.contract /\ later.sessions = db.sessions

\* What a moderator's verdict writes is what Resolved says.
LEMMA TakesVerdict ==
    ASSUME NEW r, NEW c, NEW t, NEW outcome, NEW remedy, NEW completion,
           NEW db, db = effective, NEW later, later = effective',
           Judged(r, c, t, db, later, outcome, remedy, completion), UNCHANGED <<suspended, now>>
    PROVE  Atomic!Resolved(r.by, c, t, outcome, remedy, completion)
  <1>1. Atomic!Verdict = Verdict
    BY DEF Atomic!Verdict, Verdict
  <1>2. effective'.dispute = Atomic!Put(effective.dispute, c, t,
            [effective.dispute[c][t] EXCEPT !.status = outcome, !.remedy = remedy])
    BY DEF Judged, Atomic!Put
  <1>3. Atomic!AddAuditEvents({Atomic!Audited(r.by, Atomic!Verdict[outcome], <<c, t>>)}
          \cup completion)
    BY <1>1, AtomicRows DEF Judged, Atomic!AddAuditEvents
  <1>4. Atomic!AddNotifications({Atomic!ToTester("dispute_resolved", c, t, 0),
                                 Atomic!ToOwner("dispute_resolved", c, t, 0)})
    <2> DEFINE owner == effective.campaign[c].owner
               notes == {Notified(u, "dispute_resolved", c, t, 0) : u \in {t, owner}}
    <2>1. notes = {Notified(t, "dispute_resolved", c, t, 0),
                   Notified(owner, "dispute_resolved", c, t, 0)}
      <3> HIDE DEF owner
      <3> QED
        BY Zenon DEF notes
    <2>2. effective'.notifications = effective.notifications \cup notes
      BY DEF Judged
    <2>3. notes = {Atomic!ToTester("dispute_resolved", c, t, 0),
                   Atomic!ToOwner("dispute_resolved", c, t, 0)}
      <3> HIDE DEF notes
      <3> QED
        BY <2>1, AtomicRows
    <2> HIDE DEF notes, owner
    <2> QED
      BY <2>2, <2>3 DEF Atomic!AddNotifications
  <1>5. UNCHANGED <<effective.contract, effective.sessions, suspended, now>>
    BY DEF Judged
  <1> QED
    BY <1>2, <1>3, <1>4, <1>5 DEF Atomic!Resolved

\* A version, written at once or field by field.
LEMMA VersionWritten ==
    ASSUME NEW versions, NEW v \in DOMAIN versions, NEW x
    PROVE  /\ [versions EXCEPT ![v].status = x]
                = [versions EXCEPT ![v] = [versions[v] EXCEPT !.status = x]]
           /\ [versions EXCEPT ![v].status = x, ![v].review = x] =
                [versions EXCEPT ![v] = [versions[v] EXCEPT !.status = x, !.review = x]]
  OBVIOUS

\* Closing a dispute without award.
LEMMA TakesDismiss ==
    ASSUME NEW r, r.op = "dismiss", NEW h, NEW s, suspended = {}, UNCHANGED <<suspended, now>>,
           NEW db, db = effective, Takes(r, h, s, db, now), NEW w, w = Writes(r, s),
           NEW later, later = effective', later = Patch(r.c, w, db)
    PROVE  Atomic!CloseWithoutAward(r.by, r.c, r.t, r.outcome)
  <1> DEFINE c == r.c
             t == r.t
             row == [s.dispute[t] EXCEPT !.status = r.outcome, !.remedy = "none"]
  <1>1. /\ c \in Campaigns /\ t \in Users /\ Formed(db) /\ r.by \in Moderators
        /\ Knows(r, 6, s, db.contract[c].terms, now) /\ ReadNow(r, s, db, t)
        /\ db.campaign[c].owner = s.campaign.owner
    <2>1. t = Worker(r)
      BY DEF Worker, TesterOps
    <2> QED
      BY <2>1, TakesFacts DEF ModeratorOps
  <1>2. /\ s.dispute[t].status = "under_review" /\ s.dispute[t].assigned_to = r.by
        /\ s.rows[t].status = "rejected"
    BY <1>1 DEF Knows, ModeratorKnows
  <1>3. db.dispute[c][t] = s.dispute[t] /\ db.assignment[c][t] = s.rows[t]
    BY <1>1, <1>2 DEF ReadNow, ModeratorOps
  <1>4. Dismisses(r, s, w)
    BY DismissColumns
  <1> HIDE DEF row
  <1>5. /\ w.campaign = <<>> /\ w.contract = <<>> /\ w.rows = <<>>
        /\ w.subs = <<>> /\ w.days = <<>> /\ w.dispute = At(t, row) /\ w.entries = {}
        /\ w.audit = {Audited(r.by, Verdict[r.outcome], <<c, t>>)}
        /\ w.notes = Parties(r, s)
    BY <1>4, Zenon DEF Dismisses, row
  <1>6. /\ later.campaign = db.campaign /\ later.contract = db.contract
        /\ later.assignment = db.assignment /\ later.submissions = db.submissions
        /\ later.sessions = db.sessions /\ later.balance = db.balance /\ later.ledger = db.ledger
        /\ later.audit = db.audit \cup w.audit /\ later.notifications = db.notifications \cup w.notes
    <2>1. c \in Campaigns /\ Formed(db)
      BY <1>1
    <2> QED
      BY <1>5, <2>1, PatchNone
  <1>7. later.dispute = [db.dispute EXCEPT ![c][t] = row]
    BY <1>1, <1>5, PatchOne
  <1>8. Judged(r, c, t, db, later, r.outcome, "none", {})
    <2>1. row = [db.dispute[c][t] EXCEPT !.status = r.outcome, !.remedy = "none"]
      BY <1>3 DEF row
    <2>2. w.audit = {Audited(r.by, Verdict[r.outcome], <<c, t>>)} \cup {}
      BY <1>5
    <2>3. w.notes = {Notified(u, "dispute_resolved", c, t, 0) : u \in {t, db.campaign[c].owner}}
      BY <1>1, <1>5 DEF Parties
    <2>4. later.audit = db.audit \cup ({Audited(r.by, Verdict[r.outcome], <<c, t>>)} \cup {})
      BY <1>6, <2>2
    <2> HIDE DEF c, t
    <2> QED
      BY <1>6, <1>7, <2>1, <2>3, <2>4 DEF Judged
  <1> HIDE DEF c, t
  <1>9. Atomic!Resolved(r.by, c, t, r.outcome, "none", {})
    BY <1>8, TakesVerdict
  <1>10. Atomic!Resolvable(r.by, c, t)
    BY <1>1, <1>2, <1>3 DEF Atomic!Resolvable, Atomic!Moderating, Atomic!Authenticated
  <1>11. Atomic!Row(c, t).status # "submitted"
    BY <1>2, <1>3, AtomicRows
  <1>12. UNCHANGED <<effective.campaign, Atomic!creditVars, effective.assignment,
           effective.submissions>>
    BY <1>6 DEF Atomic!creditVars
  <1>13. Atomic!CloseWithoutAward(r.by, c, t, r.outcome)
    BY <1>9, <1>10, <1>11, <1>12 DEF Atomic!CloseWithoutAward
  <1> QED
    BY <1>13 DEF c, t

\* Rejecting overdue work.
LEMMA TakesReject ==
    ASSUME NEW r, r.op = "reject", NEW h, NEW s, suspended = {}, UNCHANGED <<suspended, now>>,
           NEW db, db = effective, Takes(r, h, s, db, now), NEW w, w = Writes(r, s),
           NEW later, later = effective', later = Patch(r.c, w, db)
    PROVE  Atomic!RejectOverdueWork(r.by, r.c, r.t)
  <1> DEFINE c == r.c
             t == r.t
             v == s.dispute[t].version
             case == [s.dispute[t] EXCEPT !.status = "rejected", !.remedy = "none"]
             row == [s.rows[t] EXCEPT !.status = "rejected", !.completed_at = TRUE]
             versions == [s.subs[t] EXCEPT ![v].status = "rejected"]
  <1>1. /\ c \in Campaigns /\ t \in Users /\ Formed(db) /\ r.by \in Moderators
        /\ Knows(r, 6, s, db.contract[c].terms, now) /\ ReadNow(r, s, db, t)
        /\ db.campaign[c].owner = s.campaign.owner
    <2>1. t = Worker(r)
      BY DEF Worker, TesterOps
    <2> QED
      BY <2>1, TakesFacts DEF ModeratorOps
  <1>2. /\ s.dispute[t].status = "under_review" /\ s.dispute[t].assigned_to = r.by
        /\ s.rows[t].status = "submitted" /\ v \in DOMAIN s.subs[t]
    BY <1>1 DEF Knows, ModeratorKnows
  <1>3. /\ db.dispute[c][t] = s.dispute[t] /\ db.assignment[c][t] = s.rows[t]
        /\ db.submissions[c][t] = s.subs[t]
    BY <1>1, <1>2 DEF ReadNow, ModeratorOps, WorkOps
  <1>4. Rejects(r, s, w, v)
    BY RejectColumns
  <1> HIDE DEF row, case, versions, v
  <1>5. /\ w.campaign = <<>> /\ w.contract = <<>> /\ w.rows = At(t, row)
        /\ w.subs = At(t, versions) /\ w.days = <<>> /\ w.dispute = At(t, case) /\ w.entries = {}
        /\ w.audit = {Audited(r.by, "dispute.rejected", <<c, t>>)}
        /\ w.notes = Parties(r, s)
    BY <1>4, Zenon DEF Rejects, row, case, versions
  <1>6. /\ later.campaign = db.campaign /\ later.contract = db.contract
        /\ later.sessions = db.sessions /\ later.balance = db.balance /\ later.ledger = db.ledger
        /\ later.audit = db.audit \cup w.audit /\ later.notifications = db.notifications \cup w.notes
    <2>1. c \in Campaigns /\ Formed(db)
      BY <1>1
    <2> QED
      BY <1>5, <2>1, PatchNone
  <1>7. /\ later.dispute = [db.dispute EXCEPT ![c][t] = case]
        /\ later.assignment = [db.assignment EXCEPT ![c][t] = row]
        /\ later.submissions = [db.submissions EXCEPT ![c][t] = versions]
    <2>0. c \in Campaigns /\ t \in Users /\ Formed(db)
      BY <1>1
    <2>1. later.dispute = [db.dispute EXCEPT ![c][t] = case]
      BY <1>5, <2>0, PatchOne
    <2>2. later.assignment = [db.assignment EXCEPT ![c][t] = row]
      BY <1>5, <2>0, PatchOne
    <2>3. later.submissions = [db.submissions EXCEPT ![c][t] = versions]
      BY <1>5, <2>0, PatchOne
    <2> QED
      BY <2>1, <2>2, <2>3
  <1>8. Judged(r, c, t, db, later, "rejected", "none", {})
    <2>1. case = [db.dispute[c][t] EXCEPT !.status = "rejected", !.remedy = "none"]
      BY <1>3 DEF case
    <2>2. w.audit = {Audited(r.by, Verdict["rejected"], <<c, t>>)} \cup {}
      BY <1>5 DEF Verdict
    <2>3. w.notes = {Notified(u, "dispute_resolved", c, t, 0) : u \in {t, db.campaign[c].owner}}
      BY <1>1, <1>5 DEF Parties
    <2>4. later.audit = db.audit \cup ({Audited(r.by, Verdict["rejected"], <<c, t>>)} \cup {})
      BY <1>6, <2>2
    <2> HIDE DEF c, t
    <2> QED
      BY <1>6, <1>7, <2>1, <2>3, <2>4 DEF Judged
  <1> HIDE DEF c, t
  <1>9. Atomic!Resolved(r.by, c, t, "rejected", "none", {})
    BY <1>8, TakesVerdict
  <1>10. Atomic!Resolvable(r.by, c, t)
    BY <1>1, <1>2, <1>3 DEF Atomic!Resolvable, Atomic!Moderating, Atomic!Authenticated
  <1>11. Atomic!Row(c, t).status = "submitted"
    BY <1>2, <1>3, AtomicRows
  <1>12. effective'.assignment = Atomic!Put(effective.assignment, c, t,
                         [Atomic!Row(c, t) EXCEPT !.status = "rejected", !.completed_at = TRUE])
    <2>1. row = [Atomic!Row(c, t) EXCEPT !.status = "rejected", !.completed_at = TRUE]
      BY <1>3 DEF row, Atomic!Row, c, t
    <2> QED
      BY <1>7, <2>1 DEF Atomic!Put
  <1>13. Atomic!Decide(c, t, "rejected")
    <2>1. effective.dispute[c][t].version = v /\ effective.submissions[c][t] = s.subs[t]
      BY <1>3 DEF v, c, t
    <2>2. versions = [s.subs[t] EXCEPT ![v] = [s.subs[t][v] EXCEPT !.status = "rejected"]]
      BY <1>2, VersionWritten DEF versions
    <2>3. effective'.submissions = Atomic!WriteVersion(c, t, v,
                                      [effective.submissions[c][t][v] EXCEPT !.status = "rejected"])
      BY <1>7, <2>1, <2>2 DEF Atomic!WriteVersion, Atomic!Put
    <2> QED
      BY <1>2, <2>1, <2>3 DEF Atomic!Decide
  <1>14. UNCHANGED <<effective.campaign, Atomic!creditVars>>
    BY <1>6 DEF Atomic!creditVars
  <1>15. Atomic!RejectOverdueWork(r.by, c, t)
    BY <1>9, <1>10, <1>11, <1>12, <1>13, <1>14 DEF Atomic!RejectOverdueWork
  <1> QED
    BY <1>15 DEF c, t

\* A decision of the owner that approves nothing.
LEMMA TakesReview ==
    ASSUME NEW r, r.op = "review", r.decision # "approved", NEW h, NEW s, suspended = {},
           UNCHANGED <<suspended, now>>,
           NEW db, db = effective, Takes(r, h, s, db, now), NEW w, w = Writes(r, s),
           NEW later, later = effective', later = Patch(r.c, w, db)
    PROVE  /\ r.v \in DOMAIN effective.submissions[r.c][r.t]
           /\ \/ Atomic!RequestChanges(r.by, r.c, r.t, r.v)
              \/ Atomic!RejectSubmission(r.by, r.c, r.t, r.v)
  <1> DEFINE c == r.c
             t == r.t
             v == r.v
             decision == r.decision
             row == [s.rows[t] EXCEPT !.status = decision]
             versions == [s.subs[t] EXCEPT ![v].status = decision, ![v].review = decision]
  <1>1. /\ c \in Campaigns /\ t \in Users /\ Formed(db) /\ Seen(r, s, db)
        /\ Knows(r, 6, s, db.contract[c].terms, now) /\ r \in Requests
    <2>1. t = Worker(r)
      BY DEF Worker, TesterOps
    <2> QED
      BY <2>1, TakesFacts DEF WorkOps
  <1>2. /\ s.campaign.owner = r.by /\ s.rows[t].status = "submitted" /\ v \in DOMAIN s.subs[t]
        /\ s.subs[t][v].status = "submitted" /\ s.dispute[t].status = "none"
    BY <1>1 DEF Knows, ReviewKnows
  <1>3. /\ db.dispute[c] = s.dispute /\ db.assignment[c] = s.rows /\ db.submissions[c] = s.subs
        /\ db.campaign[c] = s.campaign
    BY <1>1 DEF Seen, CampaignOps
  <1>4. Reviews(r, s, w)
    BY ReviewedColumns
  <1>5. decision \in {"changes_requested", "rejected"}
    BY <1>1, RequestFields DEF Decision
  <1> HIDE DEF row, versions
  <1>6. /\ w.campaign = <<>> /\ w.contract = <<>> /\ w.rows = At(t, row)
        /\ w.subs = At(t, versions) /\ w.days = <<>> /\ w.dispute = <<>> /\ w.entries = {}
        /\ w.audit = {Audited(r.by, ReviewAction[decision], <<c, t>>)}
        /\ w.notes = {Notified(t, "submission_reviewed", c, t, v)}
    BY <1>4, Zenon DEF Reviews, row, versions
  <1>7. /\ later.campaign = db.campaign /\ later.contract = db.contract /\ later.dispute = db.dispute
        /\ later.sessions = db.sessions /\ later.balance = db.balance /\ later.ledger = db.ledger
        /\ later.audit = db.audit \cup w.audit /\ later.notifications = db.notifications \cup w.notes
    <2>1. c \in Campaigns /\ Formed(db)
      BY <1>1
    <2> QED
      BY <1>6, <2>1, PatchNone
  <1>8. /\ later.assignment = [db.assignment EXCEPT ![c][t] = row]
        /\ later.submissions = [db.submissions EXCEPT ![c][t] = versions]
    BY <1>1, <1>6, PatchOne
  <1> HIDE DEF c, t, v, decision
  <1>9. Atomic!Reviewable(r.by, c, t, v) /\ v \in DOMAIN effective.submissions[c][t]
    BY <1>2, <1>3, AtomicRows DEF Atomic!Reviewable, Atomic!Authenticated, Atomic!Owns,
       Atomic!NoActiveDispute, Atomic!ActiveDispute
  <1>10. Atomic!Reviewed(r.by, c, t, v, decision)
    <2>1. versions = [s.subs[t] EXCEPT ![v] =
            [s.subs[t][v] EXCEPT !.status = decision, !.review = decision]]
      BY <1>2, VersionWritten DEF versions
    <2>2. effective'.submissions = Atomic!WriteVersion(c, t, v,
                  [effective.submissions[c][t][v] EXCEPT !.status = decision, !.review = decision])
      BY <1>3, <1>8, <2>1 DEF Atomic!WriteVersion, Atomic!Put, c
    <2>3. Atomic!AddNotifications({Atomic!ToTester("submission_reviewed", c, t, v)})
      BY <1>6, <1>7, AtomicRows DEF Atomic!AddNotifications
    <2>4. UNCHANGED <<effective.contract, effective.sessions, effective.dispute, suspended, now>>
      BY <1>7
    <2> QED
      BY <2>2, <2>3, <2>4 DEF Atomic!Reviewed
  <1>11. effective'.assignment = Atomic!SetStatus(c, t, decision)
    <2>1. row = [Atomic!Row(c, t) EXCEPT !.status = decision]
      BY <1>3 DEF row, Atomic!Row, c, t, decision
    <2> QED
      BY <1>8, <2>1 DEF Atomic!Put, Atomic!SetStatus
  <1>12. UNCHANGED <<effective.campaign, Atomic!creditVars>>
    BY <1>7 DEF Atomic!creditVars
  <1>13. CASE decision = "changes_requested"
    <2>1. Atomic!AddAuditEvents({Atomic!Audited(r.by, "submission.changes_requested", <<c, t>>)})
      <3>1. ReviewAction[decision] = "submission.changes_requested"
        BY <1>13 DEF ReviewAction
      <3> QED
        BY <1>6, <1>7, <3>1, AtomicRows DEF Atomic!AddAuditEvents
    <2>2. Atomic!RequestChanges(r.by, c, t, v)
      BY <1>9, <1>10, <1>11, <1>12, <1>13, <2>1 DEF Atomic!RequestChanges
    <2> QED
      BY <1>9, <2>2 DEF c, t, v
  <1>14. CASE decision = "rejected"
    <2>1. Atomic!AddAuditEvents({Atomic!Audited(r.by, "submission.rejected", <<c, t>>)})
      <3>1. ReviewAction[decision] = "submission.rejected"
        BY <1>14 DEF ReviewAction
      <3> QED
        BY <1>6, <1>7, <3>1, AtomicRows DEF Atomic!AddAuditEvents
    <2>2. Atomic!RejectSubmission(r.by, c, t, v)
      BY <1>9, <1>10, <1>11, <1>12, <1>14, <2>1 DEF Atomic!RejectSubmission
    <2> QED
      BY <1>9, <2>2 DEF c, t, v
  <1> QED
    BY <1>5, <1>13, <1>14

\* The campaign, when the request looks whether it is completed.
Completes(c, rows) ==
    effective'.campaign = [effective.campaign EXCEPT ![c] = Atomic!MaybeCompleted(@, rows)]

\* The campaign that a request leaves, completed if it is due.
LEMMA TakesCompletion ==
    ASSUME NEW c \in Campaigns, NEW db, db = effective, Formed(db), NEW w, NEW rows,
           NEW camp, camp = db.campaign[c],
           w.campaign = IF CompletionDue(camp, rows) THEN At(c, MaybeCompleted(camp, rows)) ELSE <<>>,
           NEW later, later = effective', later = Patch(c, w, db)
    PROVE  Completes(c, rows)
  <1>1. db.campaign = [d \in Campaigns |-> db.campaign[d]]
    BY DEF Formed
  <1>2. later.campaign = [db.campaign EXCEPT ![c] = MaybeCompleted(camp, rows)]
    <2>1. CASE CompletionDue(camp, rows)
      <3> DEFINE x == MaybeCompleted(camp, rows)
      <3>1. w.campaign = At(c, x)
        BY <2>1
      <3> HIDE DEF x
      <3>2. later.campaign = [db.campaign EXCEPT ![c] = x]
        BY <3>1, PatchOne
      <3> QED
        BY <3>2 DEF x
    <2>2. CASE ~CompletionDue(camp, rows)
      <3>1. w.campaign = <<>>
        BY <2>2
      <3>2. later.campaign = db.campaign
        BY <3>1, PatchNone
      <3>3. MaybeCompleted(camp, rows) = camp
        BY <2>2 DEF MaybeCompleted
      <3>4. [db.campaign EXCEPT ![c] = db.campaign[c]] = db.campaign
        BY <1>1
      <3> QED
        BY <3>2, <3>3, <3>4
    <2> QED
      BY <2>1, <2>2
  <1>3. Atomic!MaybeCompleted(camp, rows) = MaybeCompleted(camp, rows)
    BY AtomicCompletion
  <1> QED
    BY <1>2, <1>3 DEF Completes

\* The account and the ledger.
LEMMA TakesEntry ==
    ASSUME NEW c \in Campaigns, NEW db, db = effective, Formed(db), NEW s, NEW w,
           NEW u \in Users, NEW delta, NEW key, w.entries = Entry(s, u, delta, key),
           PostedIn(s.ledger, key) <=> PostedIn(db.ledger, key),
           delta # 0, db.balance[u] + delta >= 0,
           NEW later, later = effective', later = Patch(c, w, db)
    PROVE  Atomic!RecordCreditEntry(u, delta, key)
  <1>1. CASE PostedIn(s.ledger, key)
    <2>1. w.entries = {}
      BY <1>1, EntryOne
    <2>2. later.balance = db.balance /\ later.ledger = db.ledger
      BY <2>1, PatchNone
    <2>3. Atomic!Posted(key)
      BY <1>1, AtomicRows
    <2>4. UNCHANGED Atomic!creditVars
      BY <2>2 DEF Atomic!creditVars
    <2> QED
      BY <2>3, <2>4 DEF Atomic!RecordCreditEntry
  <1>2. CASE ~PostedIn(s.ledger, key)
    <2> DEFINE e == [key |-> key, user |-> u, delta |-> delta]
    <2>0. e.user = u /\ e.delta = delta
      OBVIOUS
    <2>1. w.entries = {e}
      BY <1>2, EntryOne
    <2> HIDE DEF e
    <2>2. later.balance = [db.balance EXCEPT ![e.user] = @ + e.delta]
      BY <2>0, <2>1, PatchOne
    <2>3. later.ledger = db.ledger \cup {e}
      BY <2>1, PatchNone
    <2>4. ~Atomic!Posted(key)
      BY <1>2, AtomicRows
    <2>5. Atomic!Covered(u, delta)
      BY DEF Atomic!Covered
    <2>6. Atomic!Booked(u, delta, key)
      BY <2>0, <2>2, <2>3 DEF Atomic!Booked, e
    <2> QED
      BY <2>4, <2>5, <2>6 DEF Atomic!RecordCreditEntry
  <1> QED
    BY <1>1, <1>2

\* The rows of the campaign with one of them written.
RowsOver(rows, mine, table, c) == rows = Over(mine, table[c])

\* The rows that the request leaves are those that it sees at its end.
LEMMA RowsAfter ==
    ASSUME NEW db, Formed(db), NEW c \in Campaigns, NEW t \in Users, NEW x, NEW mine, mine = At(t, x),
           NEW next, next = [db.assignment EXCEPT ![c][t] = x]
    PROVE  RowsOver(next[c], mine, db.assignment, c)
  <1> DEFINE table == db.assignment
  <1>1. ByWorker(table)
    BY DEF Formed
  <1> HIDE DEF table
  <1>2. Overwritten(c, table, At(t, x)) = [table EXCEPT ![c][t] = x]
    BY <1>1, OverWork
  <1>3. table = [d \in Campaigns |-> table[d]]
    BY <1>1 DEF ByWorker
  <1>4. next = [table EXCEPT ![c] = Over(mine, @)]
    BY <1>2 DEF Overwritten, table
  <1>5. next[c] = Over(mine, table[c])
    BY <1>3, <1>4
  <1> QED
    BY <1>5 DEF RowsOver, table

\* Withdrawing.
LEMMA TakesWithdraw ==
    ASSUME NEW r, r.op = "withdraw", NEW h, NEW s, suspended = {}, UNCHANGED <<suspended, now>>,
           NEW db, db = effective, Takes(r, h, s, db, now), NEW w, w = Writes(r, s),
           NEW later, later = effective', later = Patch(r.c, w, db)
    PROVE  Atomic!WithdrawAssignment(r.by, r.c)
  <1> DEFINE c == r.c
             t == r.by
             row == Cancelled(s.rows[t])
             mine == At(t, row)
             message == Notified(s.campaign.owner, "tester_withdrew", c, t, 0)
             seen == IF message \in s.withdrawals THEN s.rows ELSE Over(mine, s.rows)
  <1>1. /\ c \in Campaigns /\ t \in Users /\ Formed(db) /\ Seen(r, s, db)
        /\ Knows(r, 6, s, db.contract[c].terms, now)
    <2>1. t = Worker(r)
      BY DEF Worker, TesterOps
    <2> QED
      BY <2>1, TakesFacts
  <1>2. s.rows[t].status \in Withdrawable
    BY <1>1 DEF Knows, TesterKnows
  <1>3. /\ db.campaign[c] = s.campaign /\ db.assignment[c] = s.rows
        /\ message \in s.withdrawals <=> message \in db.notifications
    <2>1. message.kind = "tester_withdrew" /\ message.assignment[1] = c
      BY DEF Notified
    <2> HIDE DEF message
    <2> QED
      BY <1>1, <2>1 DEF Seen, CampaignOps
  <1>4. Withdraws(r, s, w, message, mine, seen)
    BY WithdrawColumns
  <1> HIDE DEF row, message, mine, seen
  <1>5. /\ w.campaign = IF CompletionDue(s.campaign, seen)
                        THEN At(c, MaybeCompleted(s.campaign, seen)) ELSE <<>>
        /\ w.contract = <<>> /\ w.rows = At(t, row)
        /\ w.subs = <<>> /\ w.days = <<>> /\ w.dispute = <<>> /\ w.entries = {}
        /\ w.audit = {Audited(t, "assignment.withdrawn", <<c, t>>)}
             \cup CompletionAudit(t, c, s.campaign, seen)
        /\ w.notes = {message}
    BY <1>4, Zenon DEF Withdraws, mine
  <1>6. /\ later.contract = db.contract
        /\ later.submissions = db.submissions /\ later.sessions = db.sessions
        /\ later.dispute = db.dispute /\ later.balance = db.balance /\ later.ledger = db.ledger
        /\ later.audit = db.audit \cup w.audit /\ later.notifications = db.notifications \cup w.notes
    <2>1. c \in Campaigns /\ Formed(db)
      BY <1>1
    <2> QED
      BY <1>5, <2>1, PatchNone
  <1>7. later.assignment = [db.assignment EXCEPT ![c][t] = row]
    BY <1>1, <1>5, PatchOne
  <1>8. later.assignment[c] = Over(mine, s.rows)
    <2> DEFINE next == later.assignment
    <2>1. mine = At(t, row) /\ next = [db.assignment EXCEPT ![c][t] = row]
      BY <1>7 DEF mine
    <2>2. c \in Campaigns /\ t \in Users /\ Formed(db)
      BY <1>1
    <2> HIDE DEF next, c, t
    <2>3. RowsOver(next[c], mine, db.assignment, c)
      BY <2>1, <2>2, RowsAfter
    <2> QED
      BY <1>3, <2>3 DEF next, RowsOver
  <1>9. Atomic!ToOwner("tester_withdrew", c, t, 0) = message
    BY <1>3, AtomicRows DEF message
  <1>10. Atomic!Flushed(message, c) = seen
    BY <1>3, <1>8 DEF Atomic!Flushed, seen
  <1>11. effective'.campaign =
           [effective.campaign EXCEPT ![c] = Atomic!MaybeCompleted(@, Atomic!Flushed(message, c))]
    <2>1. c \in Campaigns /\ Formed(db) /\ db.campaign[c] = s.campaign
      BY <1>1, <1>3
    <2>2. Completes(c, seen)
      BY <1>5, <2>1, TakesCompletion
    <2> QED
      BY <1>10, <2>2 DEF Completes
  <1> HIDE DEF c, t
  <1>12. Atomic!Authenticated(t) /\ Atomic!Row(c, t).status \in Atomic!Withdrawable
    BY <1>2, <1>3, AtomicRows DEF Atomic!Authenticated, Atomic!Withdrawable, Withdrawable
  <1>13. effective'.assignment =
           Atomic!Put(effective.assignment, c, t, Atomic!Cancelled(Atomic!Row(c, t)))
    <2>1. row = Atomic!Cancelled(Atomic!Row(c, t))
      BY <1>3, AtomicRows DEF row
    <2> QED
      BY <1>7, <2>1 DEF Atomic!Put
  <1>14. Atomic!AddAuditEvents({Atomic!Audited(t, "assignment.withdrawn", <<c, t>>)}
              \cup Atomic!CompletionAudit(t, c, effective.campaign[c], Atomic!Flushed(message, c)))
    <2>1. Atomic!Audited(t, "assignment.withdrawn", <<c, t>>) =
            Audited(t, "assignment.withdrawn", <<c, t>>)
      BY AtomicRows
    <2>2. Atomic!CompletionAudit(t, c, effective.campaign[c], Atomic!Flushed(message, c))
            = CompletionAudit(t, c, s.campaign, seen)
      BY <1>3, <1>10, AtomicCompletion
    <2> QED
      BY <1>5, <1>6, <2>1, <2>2 DEF Atomic!AddAuditEvents
  <1>15. Atomic!AddNotifications({message})
    BY <1>5, <1>6 DEF Atomic!AddNotifications
  <1>16. UNCHANGED <<effective.contract, Atomic!creditVars, Atomic!unchangedByOwner>>
    BY <1>6 DEF Atomic!creditVars, Atomic!unchangedByOwner
  <1>17. Atomic!WithdrawAssignment(t, c)
    BY <1>9, <1>11, <1>12, <1>13, <1>14, <1>15, <1>16 DEF Atomic!WithdrawAssignment
  <1> QED
    BY <1>17 DEF c, t

\* The requests that pay a reward.
Rewarding(r) == r.op = "award" \/ (r.op = "review" /\ r.decision = "approved")

\* The entry that it posts is the reward.
LEMMA TakesReward ==
    ASSUME NEW r, Rewarding(r), NEW h, NEW s,
           NEW db, db = effective, Takes(r, h, s, db, now), NEW w,
           w.entries = Entry(s, r.t, s.campaign.reward, RewardKey(r.c, r.t)),
           NEW later, later = effective', later = Patch(r.c, w, db)
    PROVE  Atomic!PayReward(r.c, r.t)
  <1> DEFINE c == r.c
             t == r.t
             key == RewardKey(c, t)
             reward == s.campaign.reward
  <1>0. t = Worker(r) /\ r.op \in WorkOps /\ r.op \in CampaignOps
    BY DEF Worker, TesterOps, WorkOps, Rewarding, CampaignOps
  <1>1. /\ c \in Campaigns /\ t \in Users /\ Formed(db) /\ Seen(r, s, db) /\ ReadNow(r, s, db, t)
        /\ SoundView(s) /\ s.campaign.status # "none"
    BY <1>0, TakesFacts
  <1>2. db.campaign[c] = s.campaign /\ db.balance[t] = s.balance[t]
    BY <1>0, <1>1 DEF Seen, ReadNow, Rewarding
  <1>3. PostedIn(s.ledger, key) <=> PostedIn(db.ledger, key)
    BY <1>0, <1>1 DEF Seen, ReadNow
  <1>4. reward \in Nat /\ reward # 0 /\ s.balance[t] \in Nat
    BY <1>1 DEF SoundView, SoundCampaign, Campaign
  <1>5. db.balance[t] + reward >= 0
    BY <1>2, <1>4
  <1>6. w.entries = Entry(s, t, reward, key)
    OBVIOUS
  <1>7. later = Patch(c, w, db)
    OBVIOUS
  <1> HIDE DEF key, reward, c, t
  <1>8. Atomic!RecordCreditEntry(t, reward, key)
    BY <1>1, <1>3, <1>4, <1>5, <1>6, <1>7, TakesEntry
  <1>9. Atomic!PayReward(c, t)
    BY <1>2, <1>8, AtomicRows DEF Atomic!PayReward, reward, key
  <1> QED
    BY <1>9 DEF c, t

\* The row of the work that is approved, and the completion of its campaign.
Finishes(u, c, t, s, db, row, completion) ==
    /\ effective'.assignment = [db.assignment EXCEPT ![c][t] = row]
    /\ Completes(c, effective'.assignment[c])
    /\ Atomic!CompletionAudit(u, c, effective.campaign[c], effective'.assignment[c]) = completion

\* What is written of them.
FinishWrites(w, u, c, s, mine, seen, completion) ==
    /\ seen = Over(mine, s.rows)
    /\ completion = CompletionAudit(u, c, s.campaign, seen)
    /\ w.campaign = IF CompletionDue(s.campaign, seen)
                    THEN At(c, MaybeCompleted(s.campaign, seen)) ELSE <<>>
    /\ w.rows = mine

\* What is written completes the campaign.
LEMMA TakesLast ==
    ASSUME NEW c \in Campaigns, NEW t \in Users, NEW s, NEW u,
           NEW db, db = effective, Formed(db), db.campaign[c] = s.campaign, db.assignment[c] = s.rows,
           NEW row, NEW mine, mine = At(t, row), NEW seen, NEW completion, NEW w,
           FinishWrites(w, u, c, s, mine, seen, completion),
           NEW later, later = effective', later = Patch(c, w, db)
    PROVE  Finishes(u, c, t, s, db, row, completion)
  <1>0. /\ seen = Over(mine, s.rows)
        /\ completion = CompletionAudit(u, c, s.campaign, seen)
        /\ w.campaign = IF CompletionDue(s.campaign, seen)
                        THEN At(c, MaybeCompleted(s.campaign, seen)) ELSE <<>>
        /\ w.rows = At(t, row)
    BY DEF FinishWrites
  <1>1. later.assignment = [db.assignment EXCEPT ![c][t] = row]
    BY <1>0, PatchRow
  <1>2. later.assignment[c] = seen
    <2> DEFINE next == later.assignment
    <2>1. next = [db.assignment EXCEPT ![c][t] = row]
      BY <1>1
    <2> HIDE DEF next
    <2>2. RowsOver(next[c], mine, db.assignment, c)
      BY <2>1, RowsAfter
    <2> QED
      BY <1>0, <2>2 DEF next, RowsOver
  <1>3. Completes(c, seen)
    <2> HIDE DEF Completes
    <2> QED
      BY <1>0, TakesCompletion
  <1>4. Atomic!CompletionAudit(u, c, s.campaign, seen) = completion
    BY <1>0, AtomicCompletion
  <1>5. effective'.assignment[c] = seen /\ effective.campaign[c] = s.campaign
    BY <1>2
  <1> QED
    BY <1>1, <1>3, <1>4, <1>5 DEF Finishes

\* Approving.
LEMMA TakesApprove ==
    ASSUME NEW r, r.op = "review", r.decision = "approved", NEW h, NEW s, suspended = {},
           UNCHANGED <<suspended, now>>,
           NEW db, db = effective, Takes(r, h, s, db, now), NEW w, w = Writes(r, s),
           NEW later, later = effective', later = Patch(r.c, w, db)
    PROVE  /\ r.v \in DOMAIN effective.submissions[r.c][r.t]
           /\ Atomic!ApproveSubmission(r.by, r.c, r.t, r.v)
  <1> DEFINE c == r.c
             t == r.t
             v == r.v
             row == ApprovedRow(s.rows[t])
             mine == At(t, row)
             seen == Over(mine, s.rows)
             versions == [s.subs[t] EXCEPT ![v].status = "approved", ![v].review = "approved"]
             completion == CompletionAudit(r.by, c, s.campaign, seen)
  <1>1. /\ c \in Campaigns /\ t \in Users /\ Formed(db) /\ Seen(r, s, db)
        /\ Knows(r, 6, s, db.contract[c].terms, now)
    <2>1. t = Worker(r)
      BY DEF Worker, TesterOps
    <2> QED
      BY <2>1, TakesFacts DEF WorkOps
  <1>2. /\ s.campaign.owner = r.by /\ s.rows[t].status = "submitted" /\ v \in DOMAIN s.subs[t]
        /\ s.subs[t][v].status = "submitted" /\ s.dispute[t].status = "none"
    BY <1>1 DEF Knows, ReviewKnows
  <1>3. /\ db.dispute[c] = s.dispute /\ db.assignment[c] = s.rows /\ db.submissions[c] = s.subs
        /\ db.campaign[c] = s.campaign
    BY <1>1 DEF Seen, CampaignOps
  <1>4. Approves(r, s, w, mine, seen)
    BY ApproveColumns
  <1> HIDE DEF row, mine, seen, versions, completion
  <1>5. /\ w.campaign = IF CompletionDue(s.campaign, seen)
                        THEN At(c, MaybeCompleted(s.campaign, seen)) ELSE <<>>
        /\ w.contract = <<>> /\ w.rows = mine
        /\ w.subs = At(t, versions) /\ w.days = <<>> /\ w.dispute = <<>>
        /\ w.entries = Entry(s, t, s.campaign.reward, RewardKey(c, t))
        /\ w.audit = {Audited(r.by, "submission.approved", <<c, t>>)} \cup completion
        /\ w.notes = {Notified(t, "submission_reviewed", c, t, v)}
    BY <1>4, Zenon DEF Approves, versions, completion
  <1>6. /\ later.contract = db.contract /\ later.dispute = db.dispute /\ later.sessions = db.sessions
        /\ later.audit = db.audit \cup w.audit /\ later.notifications = db.notifications \cup w.notes
    <2>1. c \in Campaigns /\ Formed(db)
      BY <1>1
    <2> QED
      BY <1>5, <2>1, PatchNone
  <1>7. later.submissions = [db.submissions EXCEPT ![c][t] = versions]
    BY <1>1, <1>5, PatchVersions
  <1>8. Atomic!PayReward(c, t)
    <2>1. Rewarding(r)
      BY DEF Rewarding
    <2> QED
      BY <1>5, <2>1, TakesReward
  <1>9. /\ later.assignment = [db.assignment EXCEPT ![c][t] = row]
        /\ Completes(c, effective'.assignment[c])
        /\ Atomic!CompletionAudit(r.by, c, effective.campaign[c], effective'.assignment[c]) =
             completion
    <2>1. mine = At(t, row)
      BY DEF mine
    <2>2. FinishWrites(w, r.by, c, s, mine, seen, completion)
      BY <1>5 DEF FinishWrites, seen, completion
    <2>3. c \in Campaigns /\ t \in Users /\ later = Patch(c, w, db) /\ Formed(db)
          /\ db.campaign[c] = s.campaign /\ db.assignment[c] = s.rows
      BY <1>1, <1>3
    <2> HIDE DEF c, t
    <2>4. Finishes(r.by, c, t, s, db, row, completion)
      BY <2>1, <2>2, <2>3, TakesLast
    <2> QED
      BY <2>4 DEF Finishes
  <1> HIDE DEF c, t, v
  <1>10. Atomic!Reviewable(r.by, c, t, v) /\ v \in DOMAIN effective.submissions[c][t]
    BY <1>2, <1>3, AtomicRows DEF Atomic!Reviewable, Atomic!Authenticated, Atomic!Owns,
       Atomic!NoActiveDispute, Atomic!ActiveDispute
  <1>11. Atomic!Reviewed(r.by, c, t, v, "approved")
    <2>1. versions = [s.subs[t] EXCEPT ![v] =
            [s.subs[t][v] EXCEPT !.status = "approved", !.review = "approved"]]
      BY <1>2, VersionWritten DEF versions
    <2>2. effective'.submissions = Atomic!WriteVersion(c, t, v,
                  [effective.submissions[c][t][v] EXCEPT
                    !.status = "approved", !.review = "approved"])
      BY <1>3, <1>7, <2>1 DEF Atomic!WriteVersion, Atomic!Put, c
    <2>3. Atomic!AddNotifications({Atomic!ToTester("submission_reviewed", c, t, v)})
      BY <1>5, <1>6, AtomicRows DEF Atomic!AddNotifications
    <2>4. UNCHANGED <<effective.contract, effective.sessions, effective.dispute, suspended, now>>
      BY <1>6
    <2> QED
      BY <2>2, <2>3, <2>4 DEF Atomic!Reviewed
  <1>12. effective'.assignment =
           Atomic!Put(effective.assignment, c, t, Atomic!ApprovedRow(Atomic!Row(c, t)))
    <2>1. row = Atomic!ApprovedRow(Atomic!Row(c, t))
      BY <1>3, AtomicRows DEF row, c, t
    <2> QED
      BY <1>9, <2>1 DEF Atomic!Put
  <1>13. Atomic!AddAuditEvents({Atomic!Audited(r.by, "submission.approved", <<c, t>>)}
             \cup Atomic!CompletionAudit(r.by, c, effective.campaign[c], effective'.assignment[c]))
    <2>1. Atomic!Audited(r.by, "submission.approved", <<c, t>>) =
            Audited(r.by, "submission.approved", <<c, t>>)
      BY AtomicRows
    <2> QED
      BY <1>5, <1>6, <1>9, <2>1 DEF Atomic!AddAuditEvents
  <1>14. effective'.campaign =
           [effective.campaign EXCEPT ![c] = Atomic!MaybeCompleted(@, effective'.assignment[c])]
    BY <1>9 DEF Completes
  <1>15. Atomic!ApproveSubmission(r.by, c, t, v)
    BY <1>8, <1>10, <1>11, <1>12, <1>13, <1>14 DEF Atomic!ApproveSubmission
  <1> QED
    BY <1>10, <1>15 DEF c, t, v

\* Awarding the tester.
LEMMA TakesAward ==
    ASSUME NEW r, r.op = "award", NEW h, NEW s, suspended = {}, UNCHANGED <<suspended, now>>,
           NEW db, db = effective, Takes(r, h, s, db, now), NEW w, w = Writes(r, s),
           NEW later, later = effective', later = Patch(r.c, w, db)
    PROVE  Atomic!AwardTester(r.by, r.c, r.t)
  <1> DEFINE c == r.c
             t == r.t
             v == s.dispute[t].version
             case == [s.dispute[t] EXCEPT !.status = "resolved", !.remedy = "award_tester"]
             row == ApprovedRow(s.rows[t])
             mine == At(t, row)
             seen == Over(mine, s.rows)
             versions == [s.subs[t] EXCEPT ![v].status = "approved"]
             completion == CompletionAudit(r.by, c, s.campaign, seen)
  <1>1. /\ c \in Campaigns /\ t \in Users /\ Formed(db) /\ r.by \in Moderators /\ Seen(r, s, db)
        /\ Knows(r, 6, s, db.contract[c].terms, now)
    <2>1. t = Worker(r)
      BY DEF Worker, TesterOps
    <2> QED
      BY <2>1, TakesFacts DEF ModeratorOps
  <1>2. /\ s.dispute[t].status = "under_review" /\ s.dispute[t].assigned_to = r.by
        /\ s.rows[t].status \in {"rejected", "submitted"} /\ v \in DOMAIN s.subs[t]
    BY <1>1 DEF Knows, ModeratorKnows
  <1>3. /\ db.dispute[c] = s.dispute /\ db.assignment[c] = s.rows /\ db.submissions[c] = s.subs
        /\ db.campaign[c] = s.campaign
    BY <1>1 DEF Seen, CampaignOps
  <1>4. Awards(r, s, w, v, mine, seen)
    BY AwardColumns
  <1> HIDE DEF row, mine, seen, versions, completion, case, v
  <1>5. /\ w.campaign = IF CompletionDue(s.campaign, seen)
                        THEN At(c, MaybeCompleted(s.campaign, seen)) ELSE <<>>
        /\ w.contract = <<>> /\ w.rows = mine
        /\ w.subs = At(t, versions) /\ w.days = <<>> /\ w.dispute = At(t, case)
        /\ w.entries = Entry(s, t, s.campaign.reward, RewardKey(c, t))
        /\ w.audit = {Audited(r.by, "dispute.resolved", <<c, t>>)} \cup completion
        /\ w.notes = Parties(r, s)
    BY <1>4, Zenon DEF Awards, versions, completion, case
  <1>6. /\ later.contract = db.contract /\ later.sessions = db.sessions
        /\ later.audit = db.audit \cup w.audit /\ later.notifications = db.notifications \cup w.notes
    <2>1. c \in Campaigns /\ Formed(db)
      BY <1>1
    <2> QED
      BY <1>5, <2>1, PatchNone
  <1>7. /\ later.dispute = [db.dispute EXCEPT ![c][t] = case]
        /\ later.submissions = [db.submissions EXCEPT ![c][t] = versions]
    <2>0. c \in Campaigns /\ t \in Users /\ Formed(db)
      BY <1>1
    <2>1. later.dispute = [db.dispute EXCEPT ![c][t] = case]
      <3>1. w.dispute = At(t, case) /\ later = Patch(c, w, db)
        BY <1>5
      <3> HIDE DEF c, t
      <3> QED
        BY <2>0, <3>1, PatchOne
    <2>2. later.submissions = [db.submissions EXCEPT ![c][t] = versions]
      BY <1>5, <2>0, PatchOne
    <2> QED
      BY <2>1, <2>2
  <1>8. Atomic!PayReward(c, t)
    <2>1. Rewarding(r)
      BY DEF Rewarding
    <2> QED
      BY <1>5, <2>1, TakesReward
  <1>9. /\ later.assignment = [db.assignment EXCEPT ![c][t] = row]
        /\ Completes(c, effective'.assignment[c])
        /\ Atomic!CompletionAudit(r.by, c, effective.campaign[c], effective'.assignment[c]) =
             completion
    <2>1. mine = At(t, row)
      BY DEF mine
    <2>2. FinishWrites(w, r.by, c, s, mine, seen, completion)
      BY <1>5 DEF FinishWrites, seen, completion
    <2>3. c \in Campaigns /\ t \in Users /\ later = Patch(c, w, db) /\ Formed(db)
          /\ db.campaign[c] = s.campaign /\ db.assignment[c] = s.rows
      BY <1>1, <1>3
    <2> HIDE DEF c, t
    <2>4. Finishes(r.by, c, t, s, db, row, completion)
      BY <2>1, <2>2, <2>3, TakesLast
    <2> QED
      BY <2>4 DEF Finishes
  <1>10. Judged(r, c, t, db, later, "resolved", "award_tester", completion)
    <2>1. case = [db.dispute[c][t] EXCEPT !.status = "resolved", !.remedy = "award_tester"]
      BY <1>3 DEF case
    <2>2. w.audit = {Audited(r.by, Verdict["resolved"], <<c, t>>)} \cup completion
      BY <1>5 DEF Verdict
    <2>3. w.notes = {Notified(u, "dispute_resolved", c, t, 0) : u \in {t, db.campaign[c].owner}}
      BY <1>3, <1>5 DEF Parties
    <2>4. later.audit = db.audit \cup ({Audited(r.by, Verdict["resolved"], <<c, t>>)} \cup completion)
      BY <1>6, <2>2
    <2> HIDE DEF c, t
    <2> QED
      BY <1>6, <1>7, <2>1, <2>3, <2>4 DEF Judged
  <1> HIDE DEF c, t
  <1>11. Atomic!Resolved(r.by, c, t, "resolved", "award_tester",
                        Atomic!CompletionAudit(r.by, c, effective.campaign[c],
                          effective'.assignment[c]))
    <2>1. Atomic!Resolved(r.by, c, t, "resolved", "award_tester", completion)
      BY <1>10, TakesVerdict
    <2> QED
      BY <1>9, <2>1
  <1>12. Atomic!Resolvable(r.by, c, t)
    BY <1>1, <1>2, <1>3 DEF Atomic!Resolvable, Atomic!Moderating, Atomic!Authenticated
  <1>13. Atomic!Row(c, t).status \in {"rejected", "submitted"}
    BY <1>2, <1>3, AtomicRows
  <1>14. effective'.assignment =
           Atomic!Put(effective.assignment, c, t, Atomic!ApprovedRow(Atomic!Row(c, t)))
    <2>1. row = Atomic!ApprovedRow(Atomic!Row(c, t))
      BY <1>3, AtomicRows DEF row, c, t
    <2> QED
      BY <1>9, <2>1 DEF Atomic!Put
  <1>15. Atomic!Decide(c, t, "approved")
    <2>1. effective.dispute[c][t].version = v /\ effective.submissions[c][t] = s.subs[t]
      BY <1>3 DEF v, c, t
    <2>2. versions = [s.subs[t] EXCEPT ![v] = [s.subs[t][v] EXCEPT !.status = "approved"]]
      BY <1>2, VersionWritten DEF versions
    <2>3. effective'.submissions = Atomic!WriteVersion(c, t, v,
                                      [effective.submissions[c][t][v] EXCEPT !.status = "approved"])
      BY <1>7, <2>1, <2>2 DEF Atomic!WriteVersion, Atomic!Put
    <2> QED
      BY <1>2, <2>1, <2>3 DEF Atomic!Decide
  <1>16. effective'.campaign =
           [effective.campaign EXCEPT ![c] = Atomic!MaybeCompleted(@, effective'.assignment[c])]
    BY <1>9 DEF Completes
  <1>17. Atomic!AwardTester(r.by, c, t)
    BY <1>8, <1>11, <1>12, <1>13, <1>14, <1>15, <1>16 DEF Atomic!AwardTester
  <1> QED
    BY <1>17 DEF c, t

\* The applications of a campaign that closes.
LEMMA ClosingRows ==
    ASSUME NEW db, Formed(db), NEW c \in Campaigns, NEW rows, rows = db.assignment[c],
           NEW pending, pending = Pending(rows),
           NEW w, w.rows = [t \in pending |-> Cancelled(rows[t])],
           NEW p, p = Patch(c, w, db)
    PROVE  p.assignment = [db.assignment EXCEPT ![c] = Closing(rows)]
  <1> DEFINE table == db.assignment
  <1>1. p.assignment = Overwritten(c, table, w.rows)
    BY PatchTables
  <1>2. DOMAIN rows = Users /\ rows = [t \in Users |-> rows[t]]
    BY DEF Formed, ByWorker
  <1>3. pending \subseteq Users
    BY DEF Pending
  <1>4. Over(w.rows, rows) = Closing(rows)
    <2>1. DOMAIN w.rows = pending
      OBVIOUS
    <2>2. DOMAIN w.rows \cup DOMAIN rows = Users
      BY <1>2, <1>3, <2>1
    <2>3. Over(w.rows, rows) = [t \in Users |-> IF t \in pending THEN Cancelled(rows[t]) ELSE rows[t]]
      <3>1. \A t \in pending : w.rows[t] = Cancelled(rows[t])
        OBVIOUS
      <3> HIDE DEF Cancelled
      <3> QED
        BY <2>1, <2>2, <3>1 DEF Over
    <2> QED
      BY <2>3 DEF Closing
  <1>5. Overwritten(c, table, w.rows) = [table EXCEPT ![c] = Over(w.rows, table[c])]
    BY DEF Overwritten
  <1> QED
    BY <1>1, <1>4, <1>5

\* Closing.
LEMMA TakesClose ==
    ASSUME NEW r, r.op = "close", NEW h, NEW s, suspended = {}, UNCHANGED <<suspended, now>>,
           NEW db, db = effective, Takes(r, h, s, db, now), NEW w, w = Writes(r, s),
           NEW later, later = effective', later = Patch(r.c, w, db)
    PROVE  Atomic!CloseCampaign(r.by, r.c)
  <1> DEFINE c == r.c
             pending == Pending(s.rows)
             rows == Closing(s.rows)
             closed == [s.campaign EXCEPT !.status = "cancelled"]
             x == MaybeCompleted(closed, rows)
             events == {Audited(r.by, "assignment.declined", <<c, t>>) : t \in pending}
                         \cup {Audited(r.by, "campaign.closed", c)}
                           \cup CompletionAudit(r.by, c, closed, rows)
             notes == {Notified(t, "application_closed", c, t, 0) : t \in pending}
             cancelled == [t \in pending |-> Cancelled(s.rows[t])]
  <1>1. /\ c \in Campaigns /\ Formed(db) /\ Seen(r, s, db)
        /\ Knows(r, 6, s, db.contract[c].terms, now)
    <2>1. \E t : t = Worker(r)
      OBVIOUS
    <2> QED
      BY <2>1, TakesFacts
  <1>2. s.campaign.owner = r.by /\ s.campaign.status \in {"published", "paused"}
    BY <1>1 DEF Knows, OwnerKnows
  <1>3. db.assignment[c] = s.rows /\ db.campaign[c] = s.campaign
    BY <1>1 DEF Seen, CampaignOps
  <1>4. Closes(r, s, w, pending, rows, closed)
    BY CloseColumns
  <1> HIDE DEF x, closed, pending, rows, events, notes, cancelled
  <1>5. /\ w.campaign = At(c, x) /\ w.contract = <<>> /\ w.rows = cancelled
        /\ w.subs = <<>> /\ w.days = <<>> /\ w.dispute = <<>> /\ w.entries = {}
        /\ w.audit = events /\ w.notes = notes
    BY <1>4, Zenon DEF Closes, x, events, notes, cancelled
  <1>6. /\ later.contract = db.contract /\ later.submissions = db.submissions
        /\ later.sessions = db.sessions /\ later.dispute = db.dispute
        /\ later.balance = db.balance /\ later.ledger = db.ledger
        /\ later.audit = db.audit \cup w.audit /\ later.notifications = db.notifications \cup w.notes
    <2>1. c \in Campaigns /\ Formed(db)
      BY <1>1
    <2> QED
      BY <1>5, <2>1, PatchNone
  <1>7. later.campaign = [db.campaign EXCEPT ![c] = x]
    <2>1. c \in Campaigns /\ Formed(db) /\ w.campaign = At(c, x) /\ later = Patch(c, w, db)
      BY <1>1, <1>5
    <2> HIDE DEF c
    <2> QED
      BY <2>1, PatchOne
  <1>8. later.assignment = [db.assignment EXCEPT ![c] = rows]
    <2>1. c \in Campaigns /\ Formed(db) /\ later = Patch(c, w, db) /\ w.rows = cancelled
      BY <1>1, <1>5
    <2> HIDE DEF c
    <2> QED
      BY <1>3, <2>1, ClosingRows DEF pending, cancelled, rows
  <1> HIDE DEF c
  <1>9. Atomic!Authenticated(r.by) /\ Atomic!Owns(r.by, c)
        /\ effective.campaign[c].status \in {"published", "paused"}
    BY <1>2, <1>3 DEF Atomic!Authenticated, Atomic!Owns
  <1>10. /\ Atomic!Closing(effective.assignment[c]) = rows
         /\ Atomic!Pending(effective.assignment[c]) = pending
         /\ [effective.campaign[c] EXCEPT !.status = "cancelled"] = closed
    BY <1>3, AtomicCounts DEF rows, pending, closed
  <1>11. effective'.campaign = [effective.campaign EXCEPT ![c] = Atomic!MaybeCompleted(closed, rows)]
    <2>1. x = Atomic!MaybeCompleted(closed, rows)
      BY AtomicCompletion DEF x
    <2> QED
      BY <1>7, <2>1
  <1>12. Atomic!AddAuditEvents({Atomic!Audited(r.by, "assignment.declined", <<c, t>>) : t \in pending}
                            \cup {Atomic!Audited(r.by, "campaign.closed", c)}
                            \cup Atomic!CompletionAudit(r.by, c, closed, rows))
    <2>1. events = {Atomic!Audited(r.by, "assignment.declined", <<c, t>>) : t \in pending}
                            \cup {Atomic!Audited(r.by, "campaign.closed", c)}
                            \cup Atomic!CompletionAudit(r.by, c, closed, rows)
      BY AtomicRows, AtomicCompletion DEF events, c
    <2> QED
      BY <1>5, <1>6, <2>1 DEF Atomic!AddAuditEvents
  <1>13. Atomic!AddNotifications({Atomic!Notified(t, "application_closed", c, t, 0) : t \in pending})
    <2>1. notes = {Atomic!Notified(t, "application_closed", c, t, 0) : t \in pending}
      BY AtomicRows DEF notes, c
    <2> QED
      BY <1>5, <1>6, <2>1 DEF Atomic!AddNotifications
  <1>14. UNCHANGED <<effective.contract, Atomic!creditVars, Atomic!unchangedByOwner>>
    BY <1>6 DEF Atomic!creditVars, Atomic!unchangedByOwner
  <1>15. Atomic!CloseCampaign(r.by, c)
    BY <1>8, <1>9, <1>10, <1>11, <1>12, <1>13, <1>14 DEF Atomic!CloseCampaign
  <1> QED
    BY <1>15 DEF c

\* Launching.
LEMMA TakesLaunch ==
    ASSUME NEW r, r.op = "launch", NEW h, NEW s, suspended = {}, UNCHANGED <<suspended, now>>,
           NEW db, db = effective, Takes(r, h, s, db, now), NEW w, w = Writes(r, s),
           NEW later, later = effective', later = Patch(r.c, w, db)
    PROVE  /\ r.target \in Targets /\ r.reward \in Rewards /\ r.terms \in Terms
           /\ Atomic!LaunchCampaign(r.by, r.c, r.target, r.reward, r.terms)
  <1> DEFINE c == r.c
             u == r.by
             cost == PostingCost(r.target, r.reward)
             delta == -cost
             key == PostingKey(c)
             x == [DraftRow(u, r.target, r.reward) EXCEPT !.status = "published"]
             y == [status |-> "locked", terms |-> r.terms]
             events == {Audited(u, action, c) :
                          action \in {"campaign.created", "contract.saved", "campaign.published"}}
  <1>1. /\ c \in Campaigns /\ u \in Users /\ Formed(db) /\ Seen(r, s, db) /\ r \in Requests
        /\ Knows(r, 6, s, db.contract[c].terms, now)
    <2>1. \E t : t = Worker(r)
      OBVIOUS
    <2> QED
      BY <2>1, TakesFacts
  <1>2. r.target \in Targets /\ r.reward \in Rewards /\ r.terms \in Terms
    BY <1>1, RequestAssumption
  <1>3. s.campaign.status = "none" /\ s.balance[u] + delta >= 0
    BY <1>1 DEF Knows, OwnerKnows
  <1>4. CampaignRow(c) \subseteq h /\ AccountRow(u) \subseteq h /\ Fresh(c, h, s, db)
    BY DoneHolds DEF Takes, Decides
  <1>5. /\ db.campaign[c] = s.campaign /\ db.balance[u] = s.balance[u]
        /\ PostedIn(s.ledger, key) <=> PostedIn(db.ledger, key)
    BY <1>1, <1>4 DEF Seen, CampaignOps, Fresh
  <1>6. delta # 0
    <2>1. r.target \in Nat \ {0} /\ r.reward \in Nat \ {0}
      BY <1>2, OfferAssumption
    <2>2. cost \in Nat \ {0}
      BY <2>1 DEF PostingCost
    <2> HIDE DEF cost
    <2> QED
      BY <2>2
  <1>7. Launches(r, s, w)
    BY LaunchColumns
  <1> HIDE DEF x, y, events, delta, key, cost
  <1>8. /\ w.campaign = At(c, x) /\ w.contract = At(c, y)
        /\ w.rows = <<>> /\ w.subs = <<>> /\ w.days = <<>> /\ w.dispute = <<>>
        /\ w.entries = Entry(s, u, delta, key)
        /\ w.audit = events /\ w.notes = {}
    BY <1>7, Zenon DEF Launches, x, y, events, delta, key, cost
  <1>9. /\ later.assignment = db.assignment /\ later.submissions = db.submissions
        /\ later.sessions = db.sessions /\ later.dispute = db.dispute
        /\ later.audit = db.audit \cup w.audit /\ later.notifications = db.notifications
    <2>1. c \in Campaigns /\ Formed(db)
      BY <1>1
    <2>2. later.notifications = db.notifications \cup w.notes
      BY <2>1, PatchNone
    <2>3. later.notifications = db.notifications
      BY <1>8, <2>2
    <2> QED
      BY <1>8, <2>1, <2>3, PatchNone
  <1>10. c \in Campaigns /\ u \in Users /\ Formed(db) /\ later = Patch(c, w, db)
    BY <1>1
  <1> HIDE DEF c, u
  <1>11. later.campaign = [db.campaign EXCEPT ![c] = x]
    <2>1. w.campaign = At(c, x)
      BY <1>8
    <2> QED
      BY <1>10, <2>1, PatchOne
  <1>12. later.contract = [db.contract EXCEPT ![c] = y]
    <2>1. w.contract = At(c, y)
      BY <1>8
    <2> QED
      BY <1>10, <2>1, PatchOne
  <1>13. Atomic!RecordCreditEntry(u, -Atomic!PostingCost(r.target, r.reward), Atomic!PostingKey(c))
    <2>1. /\ w.entries = Entry(s, u, delta, key) /\ db.balance[u] + delta >= 0
          /\ PostedIn(s.ledger, key) <=> PostedIn(db.ledger, key)
      BY <1>3, <1>5, <1>8
    <2>2. Atomic!RecordCreditEntry(u, delta, key)
      BY <1>6, <1>10, <2>1, TakesEntry
    <2>3. -Atomic!PostingCost(r.target, r.reward) = delta /\ Atomic!PostingKey(c) = key
      BY AtomicRows DEF delta, cost, key
    <2> QED
      BY <2>2, <2>3
  <1>14. Atomic!Authenticated(u) /\ effective.campaign[c].status = "none"
    BY <1>3, <1>5 DEF Atomic!Authenticated
  <1>15. effective'.campaign = [effective.campaign EXCEPT ![c] =
                      [Atomic!DraftRow(u, r.target, r.reward) EXCEPT !.status = "published"]]
    <2>1. x = [Atomic!DraftRow(u, r.target, r.reward) EXCEPT !.status = "published"]
      BY AtomicRows DEF x, u
    <2> QED
      BY <1>11, <2>1
  <1>16. effective'.contract =
           [effective.contract EXCEPT ![c] = [status |-> "locked", terms |-> r.terms]]
    BY <1>12 DEF y
  <1>17. Atomic!AddAuditEvents({Atomic!Audited(u, action, c) :
                         action \in {"campaign.created", "contract.saved", "campaign.published"}})
    <2>1. events = {Atomic!Audited(u, action, c) :
                         action \in {"campaign.created", "contract.saved", "campaign.published"}}
      BY AtomicRows DEF events, u, c
    <2> QED
      BY <1>8, <1>9, <2>1 DEF Atomic!AddAuditEvents
  <1>18. UNCHANGED <<effective.assignment, effective.notifications, Atomic!unchangedByOwner>>
    BY <1>9 DEF Atomic!unchangedByOwner
  <1>19. Atomic!LaunchCampaign(u, c, r.target, r.reward, r.terms)
    BY <1>13, <1>14, <1>15, <1>16, <1>17, <1>18 DEF Atomic!LaunchCampaign
  <1> QED
    BY <1>2, <1>19 DEF c, u

\* A start.
LEMMA TakesStart ==
    ASSUME NEW t \in Users, NEW c \in Campaigns, StartAssignment(t, c),
           NEW s, s = Snapshot(c), NEW db, db = effective, Formed(db),
           Fresh(c, AssignmentRow(c, t), s, db), NEW w, w = StartWrites(c, t, s),
           NEW later, later = effective', later = Patch(c, w, db)
    PROVE  Atomic!StartAssignment(t, c)
  <1> DEFINE row == [s.rows[t] EXCEPT !.status = "in_progress", !.started_at = s.now]
             days == s.days[t] \cup {s.now \div TicksPerDay}
  <1>1. /\ t \notin suspended /\ UNCHANGED <<suspended, now>>
        /\ assignment[c][t].status = "accepted" /\ now \div TicksPerDay \notin sessions[c][t]
    BY DEF StartAssignment, Authenticated, Row, Today
  <1>2. s.rows = assignment[c] /\ s.days = sessions[c] /\ s.now = now
    BY SnapshotColumns
  <1>3. db.assignment[c][t] = s.rows[t] /\ db.sessions[c][t] = s.days[t]
    BY <1>1, <1>2 DEF Fresh
  <1>4. Starts(c, t, s, w)
    BY StartColumns
  <1> HIDE DEF row, days
  <1>5. /\ w.campaign = <<>> /\ w.contract = <<>> /\ w.rows = At(t, row)
        /\ w.subs = <<>> /\ w.days = At(t, days) /\ w.dispute = <<>> /\ w.entries = {}
        /\ w.audit = {Audited(t, "assignment.started", <<c, t>>)} /\ w.notes = {}
    BY <1>4, Zenon DEF Starts, row, days
  <1>6. /\ later.campaign = db.campaign /\ later.contract = db.contract
        /\ later.submissions = db.submissions /\ later.dispute = db.dispute
        /\ later.balance = db.balance /\ later.ledger = db.ledger
        /\ later.audit = db.audit \cup w.audit /\ later.notifications = db.notifications
    <2>1. later.notifications = db.notifications \cup w.notes
      BY PatchNone
    <2>2. later.notifications = db.notifications
      BY <1>5, <2>1
    <2> QED
      BY <1>5, <2>2, PatchNone
  <1>7. later.assignment = [db.assignment EXCEPT ![c][t] = row]
    BY <1>5, PatchOne
  <1>8. later.sessions = [db.sessions EXCEPT ![c][t] = days]
    BY <1>5, PatchOne
  <1>9. /\ Atomic!Authenticated(t) /\ Atomic!Row(c, t).status = "accepted"
        /\ Atomic!Today \notin effective.sessions[c][t]
    BY <1>1, <1>2, <1>3, AtomicRows DEF Atomic!Authenticated
  <1>10. effective'.assignment = Atomic!Put(effective.assignment, c, t,
                         [Atomic!Row(c, t) EXCEPT !.status = "in_progress", !.started_at = now])
    <2>1. row = [Atomic!Row(c, t) EXCEPT !.status = "in_progress", !.started_at = now]
      BY <1>2, <1>3, AtomicRows DEF row
    <2> QED
      BY <1>7, <2>1 DEF Atomic!Put
  <1>11. effective'.sessions = Atomic!Put(effective.sessions, c, t,
                                          effective.sessions[c][t] \cup {Atomic!Today})
    <2>1. days = effective.sessions[c][t] \cup {Atomic!Today}
      BY <1>2, <1>3, AtomicRows DEF days
    <2> QED
      BY <1>8, <2>1 DEF Atomic!Put
  <1>12. Atomic!AddAuditEvents({Atomic!Audited(t, "assignment.started", <<c, t>>)})
    BY <1>5, <1>6, AtomicRows DEF Atomic!AddAuditEvents
  <1>13. UNCHANGED <<Atomic!campaignVars, Atomic!creditVars>>
    BY <1>6 DEF Atomic!campaignVars, Atomic!creditVars
  <1>14. UNCHANGED <<effective.submissions, effective.dispute, effective.notifications, suspended,
           now>>
    BY <1>1, <1>6
  <1> QED
    BY <1>9, <1>10, <1>11, <1>12, <1>13, <1>14 DEF Atomic!StartAssignment

\* A request of an owner is a step of Exchange.
LEMMA OwnerTakes ==
    ASSUME NEW r, r.op \in OwnerOps \cup {"review"}, NEW h, NEW s, suspended = {},
           UNCHANGED <<suspended, now>>,
           NEW db, db = effective, Takes(r, h, s, db, now), NEW w, w = Writes(r, s),
           NEW later, later = effective', later = Patch(r.c, w, db)
    PROVE  Atomic!OwnerStep(r.by, r.c)
  <1>1. r.op \in {"accept", "decline", "review"} => r.t \in Users
    BY RequestAssumption DEF Takes
  <1>2. CASE r.op = "launch"
    <2>1. /\ r.target \in Targets /\ r.reward \in Rewards /\ r.terms \in Terms
          /\ Atomic!LaunchCampaign(r.by, r.c, r.target, r.reward, r.terms)
      BY <1>2, TakesLaunch
    <2> QED
      BY <2>1 DEF Atomic!OwnerStep
  <1>3. CASE r.op = "close"
    <2>1. Atomic!CloseCampaign(r.by, r.c)
      BY <1>3, TakesClose
    <2> QED
      BY <2>1 DEF Atomic!OwnerStep
  <1>4. CASE r.op = "accept"
    <2>1. Atomic!AcceptAssignment(r.by, r.c, r.t)
      BY <1>4, TakesAccept
    <2> QED
      BY <1>1, <1>4, <2>1 DEF Atomic!OwnerStep
  <1>5. CASE r.op = "decline"
    <2>1. Atomic!DeclineAssignment(r.by, r.c, r.t)
      BY <1>5, TakesDecline
    <2> QED
      BY <1>1, <1>5, <2>1 DEF Atomic!OwnerStep
  <1>6. CASE r.op = "review"
    <2>1. /\ r.v \in DOMAIN effective.submissions[r.c][r.t]
          /\ \/ Atomic!ApproveSubmission(r.by, r.c, r.t, r.v)
             \/ Atomic!RequestChanges(r.by, r.c, r.t, r.v)
             \/ Atomic!RejectSubmission(r.by, r.c, r.t, r.v)
      <3>1. CASE r.decision = "approved"
        BY <1>6, <3>1, TakesApprove
      <3>2. CASE r.decision # "approved"
        BY <1>6, <3>2, TakesReview
      <3> QED
        BY <3>1, <3>2
    <2> QED
      BY <1>1, <1>6, <2>1 DEF Atomic!OwnerStep
  <1> QED
    BY <1>2, <1>3, <1>4, <1>5, <1>6 DEF OwnerOps

\* So is one of a tester.
LEMMA TesterTakes ==
    ASSUME NEW r, r.op \in TesterOps, NEW h, NEW s, suspended = {}, UNCHANGED <<suspended, now>>,
           NEW db, db = effective, Takes(r, h, s, db, now), NEW w, w = Writes(r, s),
           NEW later, later = effective', later = Patch(r.c, w, db)
    PROVE  Atomic!TesterStep(r.by, r.c)
  <1>1. CASE r.op = "apply"
    <2>1. Atomic!ApplyToCampaign(r.by, r.c)
      BY <1>1, TakesApply
    <2> QED
      BY <2>1 DEF Atomic!TesterStep
  <1>2. CASE r.op = "withdraw"
    <2>1. Atomic!WithdrawAssignment(r.by, r.c)
      BY <1>2, TakesWithdraw
    <2> QED
      BY <2>1 DEF Atomic!TesterStep
  <1>3. CASE r.op = "session"
    <2>1. Atomic!RecordTestingSession(r.by, r.c)
      BY <1>3, TakesSession
    <2> QED
      BY <2>1 DEF Atomic!TesterStep
  <1>4. CASE r.op = "submit"
    <2>1. Atomic!CreateSubmission(r.by, r.c)
      BY <1>4, TakesSubmit
    <2> QED
      BY <2>1 DEF Atomic!TesterStep
  <1>5. CASE r.op = "escalate"
    <2>1. r.v \in DOMAIN effective.submissions[r.c][r.by] /\ Atomic!OpenDispute(r.by, r.c, r.v)
      BY <1>5, TakesEscalate
    <2> QED
      BY <2>1 DEF Atomic!TesterStep
  <1> QED
    BY <1>1, <1>2, <1>3, <1>4, <1>5 DEF TesterOps

\* And one of a moderator.
LEMMA ModeratorTakes ==
    ASSUME NEW r, r.op \in ModeratorOps, NEW h, NEW s, suspended = {}, UNCHANGED <<suspended, now>>,
           NEW db, db = effective, Takes(r, h, s, db, now), NEW w, w = Writes(r, s),
           NEW later, later = effective', later = Patch(r.c, w, db)
    PROVE  Atomic!ModeratorStep(r.by, r.c, r.t)
  <1>1. CASE r.op = "claim"
    <2>1. Atomic!ClaimDispute(r.by, r.c, r.t)
      BY <1>1, TakesClaim
    <2> QED
      BY <2>1 DEF Atomic!ModeratorStep
  <1>2. CASE r.op = "reject"
    <2>1. Atomic!RejectOverdueWork(r.by, r.c, r.t)
      BY <1>2, TakesReject
    <2> QED
      BY <2>1 DEF Atomic!ModeratorStep
  <1>3. CASE r.op = "dismiss"
    <2>1. Atomic!CloseWithoutAward(r.by, r.c, r.t, r.outcome)
      BY <1>3, TakesDismiss
    <2>2. r.outcome \in {"resolved", "rejected"}
      BY <1>3, RequestAssumption DEF Takes
    <2> QED
      BY <2>1, <2>2 DEF Atomic!ModeratorStep
  <1>4. CASE r.op = "award"
    <2>1. Atomic!AwardTester(r.by, r.c, r.t)
      BY <1>4, TakesAward
    <2> QED
      BY <2>1 DEF Atomic!ModeratorStep
  <1> QED
    BY <1>1, <1>2, <1>3, <1>4 DEF ModeratorOps

\* A request that takes effect is a step of Exchange.
LEMMA TakesStep ==
    ASSUME NEW r, NEW h, NEW s, suspended = {}, UNCHANGED <<suspended, now>>,
           NEW db, db = effective, Takes(r, h, s, db, now), NEW w, w = Writes(r, s),
           NEW later, later = effective', later = Patch(r.c, w, db)
    PROVE  Atomic!Next
  <1>1. /\ r \in Requests /\ r.c \in Campaigns /\ r.by \in Users
        /\ r.op \in ModeratorOps => r.by \in Moderators /\ r.t \in Users
        /\ r.op \in OwnerOps \cup TesterOps \cup {"review"} \cup ModeratorOps
    BY RequestAssumption DEF Takes
  <1>2. CASE r.op \in OwnerOps \cup {"review"}
    <2>1. Atomic!OwnerStep(r.by, r.c)
      BY <1>2, OwnerTakes
    <2> QED
      BY <1>1, <2>1 DEF Atomic!Next
  <1>3. CASE r.op \in TesterOps
    <2>1. Atomic!TesterStep(r.by, r.c)
      BY <1>3, TesterTakes
    <2> QED
      BY <1>1, <2>1 DEF Atomic!Next
  <1>4. CASE r.op \in ModeratorOps
    <2>1. Atomic!ModeratorStep(r.by, r.c, r.t)
      BY <1>4, ModeratorTakes
    <2> QED
      BY <1>1, <1>4, <2>1 DEF Atomic!Next
  <1> QED
    BY <1>1, <1>2, <1>3, <1>4

-----------------------------------------------------------------------------
(* When a request takes effect *)

\* Without the campaign's row a request writes neither the campaign nor an account.
LEMMA MinorWrites ==
    ASSUME NEW r \in Requests, r.op \notin CampaignOps, NEW s, NEW w, w = Writes(r, s)
    PROVE  Minor(w)
  <1>1. CASE r.op = "decline"
    <2>1. Declines(r, s, w)
      BY <1>1, DeclineColumns
    <2> QED
      BY <2>1 DEF Declines, Minor
  <1>2. CASE r.op = "session"
    <2>1. Records(r, s, w)
      BY <1>2, SessionColumns
    <2> QED
      BY <2>1 DEF Records, Minor
  <1>3. CASE r.op = "submit"
    <2>1. Submits(r, s, w)
      BY <1>3, SubmitColumns
    <2> QED
      BY <2>1 DEF Submits, Minor
  <1>4. CASE r.op = "escalate"
    <2>1. Escalates(r, s, w)
      BY <1>4, EscalateColumns
    <2> QED
      BY <2>1 DEF Escalates, Minor
  <1>5. CASE r.op = "claim"
    <2>1. Claims(r, s, w)
      BY <1>5, ClaimColumns
    <2> QED
      BY <2>1 DEF Claims, Minor
  <1>6. CASE r.op = "reject"
    <2>1. \E v : v = s.dispute[r.t].version
      OBVIOUS
    <2>2. \E v : Rejects(r, s, w, v)
      BY <1>6, <2>1, RejectColumns
    <2> QED
      BY <2>2 DEF Rejects, Minor
  <1>7. CASE r.op = "dismiss"
    <2>1. Dismisses(r, s, w)
      BY <1>7, DismissColumns
    <2> QED
      BY <2>1 DEF Dismisses, Minor
  <1> QED
    BY <1>1, <1>2, <1>3, <1>4, <1>5, <1>6, <1>7, RequestAssumption
       DEF CampaignOps, OwnerOps, TesterOps, ModeratorOps

\* Whose contract a request that needs none reads does not matter.
LEMMA OtherTerms ==
    ASSUME NEW r, r.op \notin {"submit", "escalate"}, NEW h, NEW s, NEW terms, NEW more, NEW clock,
           Decides(r, h, s, terms, clock)
    PROVE  Decides(r, h, s, more, clock)
  <1>1. Knows(r, 6, s, terms, clock) => Knows(r, 6, s, more, clock)
    BY DEF Knows, TesterKnows
  <1> QED
    BY <1>1 DEF Decides

\* A request that decides on the tables decides on those with what is ahead of them, which touches
\* no row that the request holds.
LEMMA MergedTakes ==
    ASSUME SoundInv, NEW r \in Requests, NEW h, NEW s, Decides(r, h, s, contract[r.c].terms, now),
           NEW w, Due(r.c, h, s, w, Tables),
           s.campaign.status # "none" => Tables.campaign[r.c].owner = s.campaign.owner,
           r.op \in ModeratorOps => r.by \in Moderators,
           NEW ahead, Backed(ahead, h, Tables), NEW m, m = Merged(Tables, ahead), Seen(r, s, m)
    PROVE  Takes(r, h, s, m, now)
  <1> DEFINE c == r.c
             db == Tables
  <1>1. /\ Formed(db) /\ Shaped(db) /\ Pledges(ahead) /\ c \in Campaigns
        /\ db.contract = contract
    BY RequestFields DEF SoundInv, ReadInv, Backed, Tables
  <1> HIDE DEF db
  <1>2. Formed(m)
    BY <1>1, MergedFormed DEF db
  <1>3. Untouched(h, db, m)
    BY <1>1, BackedUntouched DEF db
  <1>4. Fresh(c, h, s, m)
    <2>1. Fresh(c, h, s, db)
      BY DEF Due, db
    <2> QED
      BY <1>1, <1>3, <2>1, FreshStays
  <1>5. Kept(db, m)
    BY <1>1, BackedKept DEF db
  <1>6. s.campaign.status # "none" => /\ m.campaign[c].owner = s.campaign.owner
                                      /\ m.contract[c] = contract[c]
    <2>1. s.campaign.status # "none" =>
            db.campaign[c].status # "none" /\ db.campaign[c].owner = s.campaign.owner
      BY DEF Due, db
    <2> QED
      BY <1>1, <1>5, <2>1 DEF Kept
  <1>7. Decides(r, h, s, m.contract[c].terms, now)
    <2>1. CASE s.campaign.status # "none"
      BY <1>6, <2>1
    <2>2. CASE s.campaign.status = "none"
      <3>1. r.op \notin {"submit", "escalate"}
        BY <2>2, WorkCampaign DEF WorkOps
      <3> QED
        BY <3>1, OtherTerms
    <2> QED
      BY <2>1, <2>2
  <1> QED
    BY <1>2, <1>4, <1>6, <1>7 DEF Takes

\* A seat is counted last.
LEMMA SeatCounted ==
    ASSUME NEW r, r.op \in {"accept", "apply"}, Plan(r)[Len(Order(r))].ok
    PROVE  SeatFree(r.c)
  <1> USE DEF CampaignFirst, OwnerOps, TesterOps, ModeratorOps
  <1>1. CASE r.op = "accept"
    <2>1. Len(Order(r)) = 3
      BY <1>1 DEF Order
    <2>2. Plan(r)[3].ok <=> SeatFree(r.c)
      BY <1>1 DEF Lock, Read, Plan, OwnerPlan
    <2> QED
      BY <2>1, <2>2
  <1>2. CASE r.op = "apply"
    <2>1. Len(Order(r)) = 2
      BY <1>2 DEF Order
    <2>2. Plan(r)[2].ok => SeatFree(r.c)
      BY <1>2 DEF Lock, Read, Plan, TesterPlan
    <2> QED
      BY <2>1, <2>2
  <1> QED
    BY <1>1, <1>2

\* Campaign c in the tables m as in the tables db.
AsIn(c, db, m) ==
    /\ m.campaign[c] = db.campaign[c] /\ m.assignment[c] = db.assignment[c]
    /\ m.submissions[c] = db.submissions[c] /\ m.dispute[c] = db.dispute[c]
    /\ \A key : PostedIn(db.ledger, key) => PostedIn(m.ledger, key)
    /\ \A n : n.assignment[1] = c => (n \in db.notifications <=> n \in m.notifications)

\* So is a campaign of which nobody has decided.
LEMMA MergedAlone ==
    ASSUME NEW db, Formed(db), NEW ahead, Pledges(ahead), NEW m, m = Merged(db, ahead),
           NEW c \in Campaigns, ahead[c] = NoWrites
    PROVE  AsIn(c, db, m)
  <1> DEFINE p == Patch(c, ahead[c], db)
             none == ahead[c]
  <1>1. none.campaign = <<>> /\ none.rows = <<>> /\ none.subs = <<>> /\ none.dispute = <<>>
        /\ none.notes = {}
    BY NoneKeyed
  <1>2. /\ m.campaign[c] = p.campaign[c] /\ m.assignment[c] = p.assignment[c]
        /\ m.submissions[c] = p.submissions[c] /\ m.dispute[c] = p.dispute[c]
    BY MergedCampaign
  <1>3. /\ p.campaign = db.campaign /\ p.assignment = db.assignment
        /\ p.submissions = db.submissions /\ p.dispute = db.dispute
    <2>1. p = Patch(c, none, db)
      OBVIOUS
    <2> HIDE DEF p, none
    <2> QED
      BY <1>1, <2>1, PatchNone
  <1>4. /\ \A e \in db.ledger : e \in m.ledger
        /\ \A n \in db.notifications : n \in m.notifications
        /\ \A n \in m.notifications :
             n \in db.notifications
               \/ \E d \in Campaigns : n.assignment[1] = d /\ n \in ahead[d].notes
    BY MergedEntries
  <1> HIDE DEF p, none
  <1>5. \A key : PostedIn(db.ledger, key) => PostedIn(m.ledger, key)
    BY <1>4 DEF PostedIn
  <1>6. \A n : n.assignment[1] = c => (n \in db.notifications <=> n \in m.notifications)
    BY <1>1, <1>4 DEF none
  <1> QED
    BY <1>2, <1>3, <1>5, <1>6 DEF AsIn

\* So who reads a campaign of which nobody has decided reads it as it is with what is ahead.
LEMMA SeenNow ==
    ASSUME SoundInv, NEW r \in Requests, NEW s, s = Snapshot(r.c),
           r.op \in {"accept", "apply"} => SeatFree(r.c),
           NEW ahead, Pledges(ahead), ahead[r.c] = NoWrites, NEW m, m = Merged(Tables, ahead)
    PROVE  Seen(r, s, m)
  <1> DEFINE c == r.c
             db == Tables
  <1>1. c \in Campaigns /\ Formed(db)
    BY RequestFields DEF SoundInv
  <1>2. /\ m.campaign[c] = db.campaign[c] /\ m.assignment[c] = db.assignment[c]
        /\ m.submissions[c] = db.submissions[c] /\ m.dispute[c] = db.dispute[c]
        /\ \A key : PostedIn(db.ledger, key) => PostedIn(m.ledger, key)
        /\ \A n : n.assignment[1] = c => (n \in db.notifications <=> n \in m.notifications)
    <2>1. AsIn(c, db, m)
      BY <1>1, MergedAlone
    <2> QED
      BY <2>1 DEF AsIn
  <1>3. /\ db.campaign = campaign /\ db.assignment = assignment /\ db.submissions = submissions
        /\ db.dispute = dispute /\ db.ledger = ledger /\ db.notifications = notifications
    BY DEF Tables
  <1>4. /\ s.campaign = campaign[c] /\ s.rows = assignment[c] /\ s.subs = submissions[c]
        /\ s.dispute = dispute[c] /\ s.ledger = ledger
        /\ s.withdrawals = {n \in notifications : n.kind = "tester_withdrew"}
    BY SnapshotColumns
  <1> HIDE DEF db, c
  <1>5. r.op \in {"accept", "apply"} => Cardinality(Occupied(s.rows)) < s.campaign.target
    BY <1>4 DEF SeatFree, c
  <1>6. \A n : n.kind = "tester_withdrew" /\ n.assignment[1] = c =>
             (n \in s.withdrawals <=> n \in m.notifications)
    BY <1>2, <1>3, <1>4
  <1> QED
    BY <1>2, <1>3, <1>4, <1>5, <1>6 DEF Seen, c

-----------------------------------------------------------------------------
(* The steps *)

\* The invariant: the effective tables are the tables with what the ripe threads have decided.
AtomInv == SoundInv /\ effective = Merged(Tables, Promising(tx))

\* The variables of Exchange stay when the effective tables do.
Still == effective' = effective /\ UNCHANGED <<suspended, now>>

\* Nothing happens to Exchange then.
LEMMA StillStutters == Still => UNCHANGED Atomic!vars
  BY DEF Still, Atomic!vars, Atomic!campaignVars, Atomic!creditVars, Atomic!workVars

\* The threads, before a step and after it.
LEMMA ThreadsHere == SoundInv => Alone(tx) /\ tx = [th \in Threads |-> tx[th]]
  BY PromisingHere DEF AheadPromised, SoundInv, ReadInv, LockInv

\* After a step.
LEMMA ThreadsNext == SoundInv' => Alone(tx') /\ tx' = [th \in Threads |-> tx'[th]]
  <1>1. SoundInv' => AheadPromised' /\ LockInv'
    BY PromisingNext DEF SoundInv, ReadInv
  <1> QED
    BY <1>1 DEF AheadPromised, LockInv, Alone, RipeFor, Ripe

\* One thread goes on.
Goes(th, t) == tx' = [tx EXCEPT ![th] = t] /\ UNCHANGED <<suspended, now>>

\* What is ahead of the tables, when the thread that goes on was not ripe and is not,
LEMMA GoesAside ==
    ASSUME SoundInv, SoundInv', NEW th \in Threads, NEW t, Goes(th, t), ~Ripe(tx[th]), ~Ripe(t)
    PROVE  Promising(tx') = Promising(tx)
  <1>1. /\ Alone(tx) /\ tx = [other \in Threads |-> tx[other]]
        /\ Alone(tx') /\ tx' = [tx EXCEPT ![th] = t]
    BY ThreadsHere, ThreadsNext DEF Goes
  <1> QED
    BY <1>1, PromisingSame

\* when it becomes ripe,
LEMMA GoesFirst ==
    ASSUME SoundInv, SoundInv', NEW th \in Threads, NEW t, Goes(th, t), ~Ripe(tx[th]), Ripe(t),
           NEW c \in Campaigns, c = t.request.c
    PROVE  /\ Promising(tx)[c] = NoWrites
           /\ Promising(tx') = Promised(Promising(tx), c, WritesOfThread(t))
  <1>1. /\ Alone(tx) /\ tx = [other \in Threads |-> tx[other]]
        /\ Alone(tx') /\ tx' = [tx EXCEPT ![th] = t]
    BY ThreadsHere, ThreadsNext DEF Goes
  <1> QED
    BY <1>1, PromisingFirst

\* and when it was ripe.
LEMMA GoesLast ==
    ASSUME SoundInv, SoundInv', NEW th \in Threads, NEW t, Goes(th, t), Ripe(tx[th]), ~Ripe(t),
           NEW c \in Campaigns, c = tx[th].request.c
    PROVE  /\ Promising(tx)[c] = WritesOfThread(tx[th])
           /\ Promising(tx') = Promised(Promising(tx), c, NoWrites)
  <1>1. /\ Alone(tx) /\ tx = [other \in Threads |-> tx[other]]
        /\ Alone(tx') /\ tx' = [tx EXCEPT ![th] = t]
    BY ThreadsHere, ThreadsNext DEF Goes
  <1> QED
    BY <1>1, PromisingLast

\* A thread that does not get ripe changes nothing.
LEMMA AsideStill ==
    ASSUME AtomInv, AtomInv', NEW th \in Threads, NEW t, Goes(th, t), ~Ripe(tx[th]), ~Ripe(t),
           Tables' = Tables
    PROVE  Still
  <1>1. Promising(tx') = Promising(tx)
    BY GoesAside DEF AtomInv
  <1> QED
    BY <1>1 DEF AtomInv, Still, Goes

\* A request of the campaign's row takes effect with its last select.
LEMMA RipeTakes ==
    ASSUME AtomInv, AtomInv', NEW th \in Threads, NEW r, NEW d, NEW t, Advances(th, r, d, t), Ripe(t)
    PROVE  Atomic!Next
  <1> DEFINE c == r.c
             h == t.held
             s == t.read
             w == Writes(r, s)
             ahead == Promising(tx)
             m == Merged(Tables, ahead)
             next == Promised(ahead, c, w)
  <1>1. /\ r \in Requests /\ d + 1 = Len(Order(r)) /\ Plan(r)[Len(Order(r))].ok
        /\ t.request = r /\ t.done = Len(Order(r)) /\ s = Snapshot(c)
        /\ Serving(t) /\ Informed(t, Tables) /\ Ready(t, Tables, now)
        /\ ~Ripe(tx[th]) /\ Goes(th, t) /\ UNCHANGED vars
        /\ \A other \in Threads \ {th} : h \cap Held(other) = {}
    <2>1. UNCHANGED vars => UNCHANGED <<suspended, now>>
      BY DEF vars
    <2> QED
      BY <2>1 DEF Advances, Ripe, Goes
  <1>2. SoundInv /\ SoundInv' /\ now \in Nat /\ suspended = {} /\ Tables' = Tables /\ c \in Campaigns
    BY <1>1, SoundSame, RequestFields DEF AtomInv, SoundInv, ReadInv
  <1>3. /\ Decides(r, h, s, contract[c].terms, now) /\ Due(c, h, s, w, Tables)
        /\ s.campaign.status # "none" => Tables.campaign[c].owner = s.campaign.owner
        /\ r.op \in ModeratorOps => r.by \in Moderators
    <2>1. Tables.contract = contract
      BY DEF Tables
    <2> QED
      BY <1>1, <1>2, <2>1, DoneDue
  <1>4. ahead[c] = NoWrites /\ Promising(tx') = next
    <2>1. WritesOfThread(t) = w
      BY <1>1 DEF WritesOfThread
    <2> QED
      BY <1>1, <1>2, <2>1, GoesFirst
  <1>5. Backed(ahead, h, Tables)
    <2>1. \A other \in Threads : Ripe(tx[other]) => tx[other].held \cap h = {}
      BY <1>1 DEF Held, Busy, Ripe
    <2> QED
      BY <1>2, <2>1, TablesBacked
  <1> HIDE DEF w, h, s, ahead, next, m, c
  <1>6. Pledges(ahead) /\ Formed(Tables) /\ Guarded(c, h, s, w) /\ Fresh(c, h, s, Tables)
          /\ Keyed(c, w)
    BY <1>2, <1>3, <1>5 DEF SoundInv, Backed, Due
  <1>7. effective = m /\ effective' = Patch(c, w, m)
    <2>1. PaysApart(c, w, ahead)
      BY <1>2, <1>5, <1>6, BackedApart
    <2>2. Merged(Tables, next) = Patch(c, w, m)
      BY <1>2, <1>4, <1>6, <2>1, MergedFirst DEF m, next
    <2>3. effective = m /\ effective' = Merged(Tables', next)
      BY <1>4 DEF AtomInv, m, ahead
    <2> QED
      BY <1>2, <2>2, <2>3
  <1>8. Seen(r, s, m)
    <2>1. r.op \in {"accept", "apply"} => SeatFree(c)
      BY <1>1, SeatCounted DEF c
    <2> QED
      BY <1>1, <1>2, <1>4, <1>6, <2>1, SeenNow DEF c, m
  <1>9. Takes(r, h, s, m, now)
    BY <1>1, <1>2, <1>3, <1>5, <1>8, MergedTakes DEF c, m
  <1>10. UNCHANGED <<suspended, now>> /\ w = Writes(r, s)
    BY <1>1 DEF Goes, w
  <1> QED
    BY <1>2, <1>7, <1>9, <1>10, TakesStep DEF c

\* Its commit changes nothing any more.
LEMMA RipeCommits ==
    ASSUME AtomInv, AtomInv', NEW th \in Threads, Commit(th), Ripe(tx[th])
    PROVE  Still
  <1> DEFINE r == tx[th].request
             c == r.c
             ahead == Promising(tx)
             w == Writes(r, tx[th].read)
             next == Promised(ahead, c, NoWrites)
  <1>1. /\ SoundInv /\ SoundInv' /\ Goes(th, Idle) /\ Tables' = Patch(c, w, Tables)
        /\ c \in Campaigns /\ Formed(Tables)
    BY CommitDone, RequestFields DEF AtomInv, Goes, SoundInv
  <1>2. ahead[c] = w /\ Promising(tx') = next
    <2>1. ~Ripe(Idle)
      BY DEF Ripe
    <2>2. WritesOfThread(tx[th]) = w
      BY DEF WritesOfThread
    <2> QED
      BY <1>1, <2>1, <2>2, GoesLast
  <1>3. Pledges(ahead)
    <2>1. \A other \in Threads : Ripe(tx[other]) => tx[other].held \cap {} = {}
      OBVIOUS
    <2> QED
      BY <1>1, <2>1, TablesBacked DEF Backed
  <1> HIDE DEF c, w, ahead, next
  <1>4. Merged(Patch(c, ahead[c], Tables), next) = Merged(Tables, ahead)
    BY <1>1, <1>3, MergedLast DEF next
  <1>5. effective = Merged(Tables, ahead) /\ effective' = Merged(Tables', next)
    BY <1>2 DEF AtomInv, ahead
  <1> QED
    BY <1>1, <1>2, <1>4, <1>5 DEF Still, Goes

\* What is written beside the rows of the ripe threads is written to the effective tables.
LEMMA BesideTakes ==
    ASSUME AtomInv, AtomInv', Promising(tx') = Promising(tx),
           NEW c \in Campaigns, NEW h, NEW s, NEW w,
           Due(c, h, s, w, Tables), Minor(w),
           \A th \in Threads : Ripe(tx[th]) => tx[th].held \cap h = {},
           Tables' = Patch(c, w, Tables)
    PROVE  /\ effective' = Patch(c, w, effective) /\ Formed(effective)
           /\ Backed(Promising(tx), h, Tables) /\ effective = Merged(Tables, Promising(tx))
           /\ Fresh(c, h, s, effective)
  <1> DEFINE ahead == Promising(tx)
             m == Merged(Tables, ahead)
  <1>1. SoundInv /\ Formed(Tables) /\ Shaped(Tables)
    BY DEF AtomInv, SoundInv, ReadInv
  <1>2. Backed(ahead, h, Tables)
    BY <1>1, TablesBacked
  <1>3. effective = m /\ effective' = Merged(Tables', ahead)
    BY DEF AtomInv
  <1> HIDE DEF ahead, m
  <1>4. Pledges(ahead) /\ Guarded(c, h, s, w) /\ Fresh(c, h, s, Tables) /\ Keyed(c, w)
    BY <1>2 DEF Backed, Due
  <1>5. /\ DOMAIN w.rows \cap DOMAIN ahead[c].rows = {}
        /\ DOMAIN w.subs \cap DOMAIN ahead[c].subs = {}
        /\ DOMAIN w.days \cap DOMAIN ahead[c].days = {}
        /\ DOMAIN w.dispute \cap DOMAIN ahead[c].dispute = {}
    BY <1>2, <1>4, BackedApart
  <1>6. Merged(Patch(c, w, Tables), ahead) = Patch(c, w, m)
    BY <1>1, <1>4, <1>5, MergedPast DEF m
  <1>7. Formed(m)
    BY <1>1, <1>4, MergedFormed DEF m
  <1>8. Fresh(c, h, s, m)
    <2>1. Untouched(h, Tables, m)
      BY <1>1, <1>2, BackedUntouched DEF m
    <2> QED
      BY <1>4, <2>1, FreshStays
  <1> QED
    BY <1>2, <1>3, <1>6, <1>7, <1>8 DEF ahead, m

\* Another request takes effect when it commits.
LEMMA OtherTakes ==
    ASSUME AtomInv, AtomInv', NEW th \in Threads, Commit(th), ~Ripe(tx[th])
    PROVE  Atomic!Next
  <1> DEFINE r == tx[th].request
             c == r.c
             h == tx[th].held
             s == tx[th].read
             w == Writes(r, s)
             ahead == Promising(tx)
  <1>1. /\ SoundInv /\ SoundInv' /\ Goes(th, Idle) /\ Tables' = Patch(c, w, Tables)
        /\ c \in Campaigns /\ r \in Requests /\ r.op \notin CampaignOps /\ suspended = {}
             /\ th \in Busy
        /\ Decides(r, h, s, contract[c].terms, now) /\ Due(c, h, s, w, Tables)
        /\ s.campaign.status # "none" => Tables.campaign[c].owner = s.campaign.owner
        /\ r.op \in ModeratorOps => r.by \in Moderators
    BY CommitDone, RequestFields DEF AtomInv, Goes, SoundInv, Ripe
  <1>2. Promising(tx') = ahead
    <2>1. ~Ripe(Idle)
      BY DEF Ripe
    <2> QED
      BY <1>1, <2>1, GoesAside
  <1>3. \A other \in Threads : Ripe(tx[other]) => tx[other].held \cap h = {}
    <2>1. \A other \in Threads : Ripe(tx[other]) => other \in Busy /\ other # th
      BY DEF Ripe, Busy
    <2> QED
      BY <1>1, <2>1 DEF SoundInv, ReadInv, LockInv, OneHolder, Held
  <1>4. Minor(w)
    BY <1>1, MinorWrites
  <1> HIDE DEF c, w, h, s, ahead
  <1>5. /\ effective' = Patch(c, w, effective)
        /\ Backed(ahead, h, Tables) /\ effective = Merged(Tables, ahead)
    BY <1>1, <1>2, <1>3, <1>4, BesideTakes DEF ahead
  <1>6. Seen(r, s, effective)
    BY <1>1 DEF Seen
  <1>7. Takes(r, h, s, effective, now)
    BY <1>1, <1>5, <1>6, MergedTakes DEF c
  <1>8. UNCHANGED <<suspended, now>> /\ w = Writes(r, s)
    BY <1>1 DEF Goes, w
  <1> QED
    BY <1>1, <1>5, <1>7, <1>8, TakesStep DEF c

\* A start takes effect at once.
LEMMA StartTakes ==
    ASSUME AtomInv, AtomInv', NEW t \in Users, NEW c \in Campaigns, TxStart(t, c), UNCHANGED tx
    PROVE  Atomic!Next
  <1> DEFINE h == AssignmentRow(c, t)
             s == Snapshot(c)
             w == StartWrites(c, t, s)
  <1>1. /\ StartAssignment(t, c) /\ \A th \in Busy : h \cap Held(th) = {}
        /\ SoundInv /\ now \in Nat /\ Shaped(Tables) /\ Sound(Tables) /\ Formed(Tables)
    BY DEF TxStart, AtomInv, SoundInv, ReadInv
  <1>2. Due(c, h, s, w, Tables) /\ Minor(w) /\ Tables' = Patch(c, w, Tables)
    BY <1>1, StartDue, StartPatches
  <1>3. \A th \in Threads : Ripe(tx[th]) => tx[th].held \cap h = {}
    BY <1>1 DEF Ripe, Busy, Held
  <1>4. Promising(tx') = Promising(tx)
    OBVIOUS
  <1> HIDE DEF h, s, w
  <1>5. /\ effective' = Patch(c, w, effective) /\ Formed(effective)
        /\ Fresh(c, h, s, effective)
    BY <1>2, <1>3, <1>4, BesideTakes
  <1>6. Atomic!StartAssignment(t, c)
    BY <1>1, <1>5, TakesStart DEF h, s, w
  <1> QED
    BY <1>6 DEF Atomic!Next, Atomic!TesterStep

\* When the time passes, nothing is decided that is not in the tables.
LEMMA TickTakes ==
    ASSUME AtomInv, AtomInv', TxTick, UNCHANGED tx
    PROVE  Atomic!Next
  <1>1. Tables' = Tables
    BY DEF TxTick, Tick, Tables, campaignVars, creditVars, workVars
  <1>2. effective' = effective
    BY <1>1 DEF AtomInv
  <1>3. Atomic!Tick
    BY <1>2 DEF TxTick, Tick, Atomic!Tick, Atomic!campaignVars, Atomic!creditVars, Atomic!workVars
  <1> QED
    BY <1>3 DEF Atomic!Next

\* The effective tables are the tables with what is ahead of them.
LEMMA EffectiveNow == Effective = Merged(Tables, Ahead)
  <1> DEFINE S == {Merged(Tables, ahead) : ahead \in {Ahead}}
  <1>1. S = {Merged(Tables, Ahead)}
    OBVIOUS
  <1> HIDE DEF S
  <1>2. \A db \in S : db = Merged(Tables, Ahead)
    BY <1>1
  <1>3. (CHOOSE db \in S : TRUE) \in S
    BY <1>1
  <1>4. (CHOOSE db \in S : TRUE) = Merged(Tables, Ahead)
    BY <1>2, <1>3
  <1> QED
    BY <1>4 DEF Effective, S

\* They are so when they are kept.
EffectiveKept == SoundInv /\ effective = Effective

\* Then AtomInv holds.
LEMMA EffectiveInv == EffectiveKept => AtomInv
  BY EffectiveNow, PromisingHere DEF EffectiveKept, AtomInv, SoundInv, AheadPromised

\* And after a step.
LEMMA EffectiveNext == EffectiveKept' => AtomInv'
  BY EffectiveInv, PTL

\* The invariant holds at the start,
LEMMA AtomicStart == AtomicInit => EffectiveKept
  BY SoundInit DEF AtomicInit, EffectiveKept

\* and every step keeps it.
LEMMA AtomicKeeps == EffectiveKept /\ [AtomicNext]_<<txVars, effective>> => EffectiveKept'
  <1> SUFFICES ASSUME EffectiveKept, [AtomicNext]_<<txVars, effective>>
               PROVE  EffectiveKept'
    OBVIOUS
  <1>1. SoundInv'
    <2>1. [TxNext]_txVars
      BY DEF AtomicNext
    <2> QED
      BY <2>1, SoundStep DEF EffectiveKept
  <1>2. CASE AtomicNext
    BY <1>1, <1>2 DEF AtomicNext, EffectiveKept
  <1>3. CASE UNCHANGED <<txVars, effective>>
    <2>1. Tables' = Tables /\ Busy' = Busy /\ tx' = tx
      BY <1>3 DEF txVars, vars, campaignVars, creditVars, workVars, Tables, Busy
    <2>2. Ahead' = Ahead
      <3>1. AheadPromised /\ AheadPromised'
        BY <1>1, PromisingHere, PromisingNext DEF EffectiveKept, SoundInv
      <3> QED
        BY <2>1, <3>1 DEF AheadPromised
    <2> QED
      BY <1>1, <1>3, <2>1, <2>2 DEF EffectiveKept, Effective
  <1> QED
    BY <1>2, <1>3

\* Nothing is ahead of the tables while nothing is decided.
LEMMA MergedNone ==
    ASSUME NEW db, Formed(db), NEW ahead, ahead = [c \in Campaigns |-> NoWrites],
           NEW m, m = Merged(db, ahead)
    PROVE  /\ m.campaign = db.campaign /\ m.contract = db.contract
           /\ m.assignment = db.assignment /\ m.submissions = db.submissions
           /\ m.sessions = db.sessions /\ m.dispute = db.dispute /\ m.balance = db.balance
           /\ m.ledger = db.ledger /\ m.audit = db.audit /\ m.notifications = db.notifications
  <1>1. Pledges(ahead)
    BY NoneKeyed DEF Pledges
  <1>2. /\ OwnFamilies(CampaignsAhead(ahead)) /\ OwnFamilies(ContractsAhead(ahead))
        /\ Families(RowsAhead(ahead)) /\ Families(SubsAhead(ahead))
        /\ Families(DaysAhead(ahead)) /\ Families(DisputesAhead(ahead))
    BY <1>1, PledgeFamilies
  <1>3. \A c \in Campaigns :
           /\ CampaignsAhead(ahead)[c] = <<>> /\ ContractsAhead(ahead)[c] = <<>>
           /\ RowsAhead(ahead)[c] = <<>> /\ SubsAhead(ahead)[c] = <<>>
           /\ DaysAhead(ahead)[c] = <<>> /\ DisputesAhead(ahead)[c] = <<>>
    BY NoneKeyed DEF CampaignsAhead, ContractsAhead, RowsAhead, SubsAhead, DaysAhead, DisputesAhead
  <1>4. EntriesAhead(ahead) = {} /\ AuditAhead(ahead) = {} /\ NotesAhead(ahead) = {}
    BY NoneKeyed DEF EntriesAhead, AuditAhead, NotesAhead
  <1>5. ASSUME NEW table, table = [c \in Campaigns |-> table[c]], NEW family, OwnFamilies(family),
               \A c \in Campaigns : family[c] = <<>>
        PROVE  OwnLaid(family, table) = table
    <2>1. DOMAIN <<>> = {}
      OBVIOUS
    <2>2. DOMAIN table = Campaigns
      BY <1>5
    <2>3. OwnLaid(family, table) = [c \in Campaigns |-> OwnLaid(family, table)[c]]
      BY <1>5, <2>2, OwnCells
    <2>4. \A c \in Campaigns : OwnLaid(family, table)[c] = table[c]
      BY <1>5, <2>1, <2>2, OwnCells
    <2> HIDE DEF OwnLaid
    <2> QED
      BY <1>5, <2>3, <2>4
  <1>6. ASSUME NEW table, ByWorker(table), NEW family, Families(family),
               \A c \in Campaigns : family[c] = <<>>
        PROVE  Laid(family, table) = table
    <2> DEFINE laid == Laid(family, table)
    <2>1. /\ ByWorker(laid) /\ \A c \in Campaigns : laid[c] = Over(family[c], table[c])
      BY <1>6, LaidCells
    <2> HIDE DEF laid
    <2>2. /\ laid = [c \in Campaigns |-> laid[c]] /\ table = [c \in Campaigns |-> table[c]]
          /\ \A c \in Campaigns : table[c] = [t \in Users |-> table[c][t]]
      BY <1>6, <2>1, WorkerTable
    <2>3. \A c \in Campaigns : Over(<<>>, table[c]) = table[c]
      BY <2>2, OverNone
    <2>4. \A c \in Campaigns : laid[c] = table[c]
      BY <1>6, <2>1, <2>3
    <2>5. laid = table
      BY <2>2, <2>4
    <2> QED
      BY <2>5 DEF laid
  <1>7. /\ m.campaign = OwnLaid(CampaignsAhead(ahead), db.campaign)
        /\ m.contract = OwnLaid(ContractsAhead(ahead), db.contract)
        /\ m.assignment = Laid(RowsAhead(ahead), db.assignment)
        /\ m.submissions = Laid(SubsAhead(ahead), db.submissions)
        /\ m.sessions = Laid(DaysAhead(ahead), db.sessions)
        /\ m.dispute = Laid(DisputesAhead(ahead), db.dispute)
        /\ m.balance = Paid(EntriesAhead(ahead), db.balance)
        /\ m.ledger = db.ledger \cup EntriesAhead(ahead)
        /\ m.audit = db.audit \cup AuditAhead(ahead)
        /\ m.notifications = db.notifications \cup NotesAhead(ahead)
    BY MergedTables
  <1>8. Paid({}, db.balance) = db.balance
    <2>1. OncePerUser({})
      BY DEF OncePerUser
    <2>2. /\ Paid({}, db.balance) = [u \in Users |-> Paid({}, db.balance)[u]]
          /\ \A u \in Users : Paid({}, db.balance)[u] = db.balance[u]
      BY <2>1, PaidCells
    <2> HIDE DEF Paid
    <2> QED
      BY <2>2 DEF Formed
  <1> HIDE DEF Formed
  <1>9. /\ db.campaign = [c \in Campaigns |-> db.campaign[c]]
        /\ db.contract = [c \in Campaigns |-> db.contract[c]]
        /\ ByWorker(db.assignment) /\ ByWorker(db.submissions) /\ ByWorker(db.sessions)
        /\ ByWorker(db.dispute)
    BY DEF Formed
  <1>10. m.campaign = db.campaign /\ m.contract = db.contract
    BY <1>2, <1>3, <1>5, <1>7, <1>9
  <1>11. m.assignment = db.assignment /\ m.submissions = db.submissions
    BY <1>2, <1>3, <1>6, <1>7, <1>9
  <1>12. m.sessions = db.sessions /\ m.dispute = db.dispute
    BY <1>2, <1>3, <1>6, <1>7, <1>9
  <1>13. m.ledger = db.ledger /\ m.audit = db.audit /\ m.notifications = db.notifications
    BY <1>4, <1>7
  <1>14. m.balance = db.balance
    BY <1>4, <1>7, <1>8
  <1> QED
    BY <1>10, <1>11, <1>12, <1>13, <1>14

\* At the start Exchange starts.
LEMMA AtomicBegins == AtomicInit => Atomic!Init
  <1> SUFFICES ASSUME AtomicInit
               PROVE  Atomic!Init
    OBVIOUS
  <1>1. TxInit /\ SoundInv /\ AtomInv
    BY AtomicStart, EffectiveInv DEF AtomicInit, EffectiveKept
  <1>2. Promising(tx) = [c \in Campaigns |-> NoWrites]
    <2>1. \A th \in Threads : ~Ripe(tx[th])
      BY <1>1 DEF TxInit, Ripe
    <2>2. \A c \in Campaigns : RipeFor(tx, c) = {}
      BY <2>1 DEF RipeFor
    <2>3. \A c \in Campaigns : Promising(tx)[c] = NoWrites
      BY <1>1, <2>2, ThreadsHere, PromisedBy
    <2> QED
      BY <2>3, PromisingCells
  <1>3. Formed(Tables)
    BY <1>1 DEF SoundInv
  <1>4. effective = Merged(Tables, Promising(tx))
    BY <1>1 DEF AtomInv
  <1>5. /\ effective.campaign = campaign /\ effective.contract = contract
        /\ effective.assignment = assignment /\ effective.submissions = submissions
        /\ effective.sessions = sessions /\ effective.dispute = dispute
        /\ effective.balance = balance /\ effective.ledger = ledger /\ effective.audit = audit
        /\ effective.notifications = notifications
    <2> DEFINE db == Tables
    <2>1. /\ db.campaign = campaign /\ db.contract = contract
          /\ db.assignment = assignment /\ db.submissions = submissions
          /\ db.sessions = sessions /\ db.dispute = dispute
          /\ db.balance = balance /\ db.ledger = ledger /\ db.audit = audit
          /\ db.notifications = notifications
      BY DEF Tables
    <2> HIDE DEF db
    <2> QED
      BY <1>2, <1>3, <1>4, <2>1, MergedNone DEF db
  <1>6. /\ NoCampaign = Atomic!NoCampaign /\ NoContract = Atomic!NoContract
        /\ NoAssignment = Atomic!NoAssignment /\ NoDispute = Atomic!NoDispute
    BY DEF NoCampaign, Atomic!NoCampaign, NoContract, Atomic!NoContract,
           NoAssignment, Atomic!NoAssignment, NoDispute, Atomic!NoDispute, Null, Atomic!Null,
           NoTerms, Atomic!NoTerms
  <1>7. SignupEntries = Atomic!SignupEntries
    BY DEF SignupEntries, Atomic!SignupEntries
  <1>8. Init
    BY <1>1 DEF TxInit
  <1> QED
    BY <1>5, <1>6, <1>7, <1>8 DEF Init, Atomic!Init

\* Every step is one of Exchange or none.
LEMMA AtomicSteps ==
    ASSUME AtomInv, AtomInv', [AtomicNext]_<<txVars, effective>>
    PROVE  [Atomic!Next]_(Atomic!vars)
  <1>0. Still => [Atomic!Next]_(Atomic!vars)
    BY StillStutters
  <1>1. ASSUME NEW th \in Threads, NEW r, NEW d, NEW t, Advances(th, r, d, t)
        PROVE  [Atomic!Next]_(Atomic!vars)
    <2>1. CASE Ripe(t)
      BY <1>1, <2>1, RipeTakes
    <2>2. CASE ~Ripe(t)
      <3>1. UNCHANGED vars => UNCHANGED <<suspended, now>>
        BY DEF vars
      <3>2. Goes(th, t) /\ ~Ripe(tx[th]) /\ UNCHANGED vars
        BY <1>1, <3>1 DEF Advances, Goes, Ripe
      <3>3. Tables' = Tables
        BY <3>2, SoundSame DEF AtomInv
      <3> QED
        BY <1>0, <2>2, <3>2, <3>3, AsideStill
    <2> QED
      BY <2>1, <2>2
  <1>2. ASSUME NEW th \in Threads, Selecting(th), Release(th), UNCHANGED vars
        PROVE  [Atomic!Next]_(Atomic!vars)
    <2>1. ~Ripe(tx[th]) /\ ~Ripe(Idle)
      <3>1. Serving(tx[th])
        BY <1>2 DEF Selecting, AtomInv, SoundInv, ReadInv, LockInv
      <3>2. Len(Plan(tx[th].request)) = Len(Order(tx[th].request))
              /\ Len(Order(tx[th].request)) \in Nat
        BY <3>1, PlanOrder DEF Serving
      <3> QED
        BY <1>2, <3>1, <3>2 DEF Ripe, Selecting, Serving
    <2>2. Goes(th, Idle) /\ Tables' = Tables
      <3>1. UNCHANGED vars => UNCHANGED <<suspended, now>>
        BY DEF vars
      <3> QED
        BY <1>2, <3>1, SoundSame DEF AtomInv, Goes, Release
    <2> QED
      BY <1>0, <2>1, <2>2, AsideStill
  <1>3. ASSUME NEW th \in Threads, NEW r \in Requests, Begin(th, r)
        PROVE  [Atomic!Next]_(Atomic!vars)
    BY <1>1, <1>3, BeginAdvances DEF AtomInv
  <1>4. ASSUME NEW th \in Threads, Select(th)
        PROVE  [Atomic!Next]_(Atomic!vars)
    <2>1. CASE NextSelect(th).ok
      BY <1>1, <1>4, <2>1, SelectAdvances DEF AtomInv
    <2>2. CASE ~NextSelect(th).ok
      <3>1. Selecting(th) /\ Release(th) /\ UNCHANGED vars
        BY <1>4, <2>2 DEF Select
      <3> QED
        BY <1>2, <3>1
    <2> QED
      BY <2>1, <2>2
  <1>5. ASSUME NEW th \in Threads, RollBack(th)
        PROVE  [Atomic!Next]_(Atomic!vars)
    <2>1. Selecting(th)
      BY <1>5 DEF RollBack, Deadlocked, Waits
    <2>2. Release(th) /\ UNCHANGED vars
      BY <1>5 DEF RollBack
    <2> QED
      BY <1>2, <2>1, <2>2
  <1>6. ASSUME NEW th \in Threads, Commit(th)
        PROVE  [Atomic!Next]_(Atomic!vars)
    <2>1. CASE Ripe(tx[th])
      BY <1>0, <1>6, <2>1, RipeCommits
    <2>2. CASE ~Ripe(tx[th])
      BY <1>6, <2>2, OtherTakes
    <2> QED
      BY <2>1, <2>2
  <1>7. ASSUME UNCHANGED <<txVars, effective>>
        PROVE  [Atomic!Next]_(Atomic!vars)
    <2>1. Still
      BY <1>7 DEF Still, txVars, vars
    <2> QED
      BY <1>0, <2>1
  <1>8. ASSUME TxTick \/ \E t \in Users, c \in Campaigns : TxStart(t, c), UNCHANGED tx
        PROVE  [Atomic!Next]_(Atomic!vars)
    BY <1>8, TickTakes, StartTakes
  <1> QED
    BY <1>3, <1>4, <1>5, <1>6, <1>7, <1>8 DEF AtomicNext, TxNext

\* The requests take effect one by one, as in Exchange.
THEOREM AtomicityTheorem == AtomicSpec => RequestsAreAtomic
  <1>1. AtomicInit => EffectiveKept
    BY AtomicStart
  <1>2. EffectiveKept /\ [AtomicNext]_<<txVars, effective>> => EffectiveKept'
    BY AtomicKeeps
  <1>3. EffectiveKept /\ EffectiveKept' /\ [AtomicNext]_<<txVars, effective>> =>
          [Atomic!Next]_(Atomic!vars)
    BY AtomicSteps, EffectiveInv, EffectiveNext
  <1>4. AtomicInit => Atomic!Init
    BY AtomicBegins
  <1> QED
    BY <1>1, <1>2, <1>3, <1>4, PTL DEF AtomicSpec, RequestsAreAtomic, Atomic!Spec
=============================================================================
