------------------------------ MODULE Exchange ------------------------------
(***************************************************************************)
(* The exchange: the services composed over one database, every request an *)
(* atomic step, and what must hold between its tables.                     *)
(*                                                                         *)
(* The requests that take a row lock before they check are atomic for the  *)
(* rows they read; ExchangeRaces adds the ones that check without a lock.  *)
(***************************************************************************)
EXTENDS Moderation, Folds

Tick ==
    /\ now < MaxTime
    /\ now' = now + 1
    /\ UNCHANGED <<campaignVars, creditVars, workVars, dispute, notifications, audit, suspended>>

OwnerStep(u, c) ==
    \/ \E target \in Targets, reward \in Rewards :
          \/ CreateCampaign(u, c, target, reward)
          \/ UpdateCampaign(u, c, target, reward)
          \/ \E terms \in Terms : LaunchCampaign(u, c, target, reward, terms)
    \/ \E terms \in Terms : UpsertContract(u, c, terms)
    \/ PublishCampaign(u, c)
    \/ PauseCampaign(u, c)
    \/ ResumeCampaign(u, c)
    \/ CloseCampaign(u, c)
    \/ \E t \in Users :
          \/ AcceptAssignment(u, c, t)
          \/ DeclineAssignment(u, c, t)
          \/ \E v \in DOMAIN submissions[c][t] :
                \/ ApproveSubmission(u, c, t, v)
                \/ RequestChanges(u, c, t, v)
                \/ RejectSubmission(u, c, t, v)

TesterStep(t, c) ==
    \/ ApplyToCampaign(t, c)
    \/ WithdrawAssignment(t, c)
    \/ StartAssignment(t, c)
    \/ RecordTestingSession(t, c)
    \/ CreateSubmission(t, c)
    \/ \E v \in DOMAIN submissions[c][t] : OpenDispute(t, c, v)

ModeratorStep(m, c, t) ==
    \/ ClaimDispute(m, c, t)
    \/ RejectOverdueWork(m, c, t)
    \/ \E outcome \in {"resolved", "rejected"} : CloseWithoutAward(m, c, t, outcome)
    \/ AwardTester(m, c, t)

Next ==
    \/ Tick
    \/ \E u \in Users, c \in Campaigns : OwnerStep(u, c) \/ TesterStep(u, c)
    \/ \E m \in Moderators, c \in Campaigns, t \in Users : ModeratorStep(m, c, t)
    \/ \E m \in Moderators, u \in Users : SuspendParticipant(m, u) \/ RestoreParticipant(m, u)

Spec == Init /\ [][Next]_vars

\* The parties who keep an escalation moving: time passes, the tester asks for a moderator as
\* soon as the review window has ended, and the moderators work off their queue.
Fairness ==
    /\ WF_vars(Tick)
    /\ \A c \in Campaigns, t \in Users :
         /\ WF_vars(\E v \in DOMAIN submissions[c][t] : OpenDispute(t, c, v))
         /\ WF_vars(\E m \in Moderators : ClaimDispute(m, c, t))
         /\ \A m \in Moderators :
              WF_vars(RejectOverdueWork(m, c, t) \/ AwardTester(m, c, t)
                        \/ \E outcome \in {"resolved", "rejected"} : CloseWithoutAward(m, c, t, outcome))

FairSpec == Spec /\ Fairness

-----------------------------------------------------------------------------
(* References between the tables *)

\* A campaign has an owner, an assignment belongs to a campaign that was published, and a dispute
\* to an assignment: no request writes a row before the one it refers to.
References ==
    /\ \A c \in Campaigns : campaign[c].status # "none" => campaign[c].owner \in Users
    /\ \A c \in Campaigns, t \in Users :
         Row(c, t).status # "none" => campaign[c].status \notin {"none", "draft"}
    /\ \A c \in Campaigns, t \in Users :
         dispute[c][t].status # "none" => Row(c, t).status # "none"

-----------------------------------------------------------------------------
(* Seats and completion *)

\* Testers whose rejected work a moderator has approved on appeal.
AppealWins(c) ==
    {t \in Users : /\ submissions[c][t] # <<>>
                   /\ Latest(c, t).status = "approved"
                   /\ Latest(c, t).review = "rejected"}

\* A campaign never seats more testers than its target, apart from those whose rejection was
\* overturned after their seat was free for another tester.
Capacity ==
    \A c \in Campaigns :
        Cardinality(Occupied(assignment[c]) \ AppealWins(c)) <= campaign[c].target

\* A campaign that still recruits, or may again, has not got its target of approved tests:
\* whichever request approves the last one also completes the campaign.
RecruitsOnlyBelowTarget ==
    \A c \in Campaigns :
        campaign[c].status \in {"published", "paused"} =>
            Cardinality(Approved(assignment[c])) < campaign[c].target

\* Completion is earned: the target was reached, or recruitment was closed and nobody who had
\* been accepted is still at work.
CompletionEarned ==
    \A c \in Campaigns :
        campaign[c].status = "completed" =>
            \/ Cardinality(Approved(assignment[c])) >= campaign[c].target
            \/ Audited(campaign[c].owner, "campaign.closed", c) \in audit
                 /\ ActiveTesters(assignment[c]) = {}
                 /\ EverAccepted(assignment[c]) # {}

\* Closing leaves no application pending, and a closed campaign whose accepted work is all
\* settled has completed, unless some of that work was rejected.
ClosedCampaignSettles ==
    \A c \in Campaigns :
        campaign[c].status = "cancelled" =>
            /\ Pending(assignment[c]) = {}
            /\ \/ ~ClosedWorkSettled(campaign[c], assignment[c])
               \/ \E t \in Users : Row(c, t).status = "rejected"

-----------------------------------------------------------------------------
(* Credits *)

\* A tester is paid the reward of the campaign exactly when the assignment is approved,
\* whether the owner or a moderator approved it, and no key is posted twice.
RewardIffApproved ==
    /\ \A e, f \in ledger : e.key = f.key => e = f
    /\ \A c \in Campaigns, t \in Users :
         IF Row(c, t).status = "approved"
         THEN [key |-> RewardKey(c, t), user |-> t, delta |-> campaign[c].reward] \in ledger
         ELSE ~Posted(RewardKey(c, t))

\* A campaign is out of its draft exactly when its owner has paid for every seat it promises,
\* at the price it still shows, and its contract is locked.
PromiseFunded ==
    \A c \in Campaigns :
        IF campaign[c].status \in {"none", "draft"}
        THEN ~Posted(PostingKey(c)) /\ contract[c].status # "locked"
        ELSE /\ [key |-> PostingKey(c), user |-> campaign[c].owner,
                 delta |-> -(campaign[c].target * campaign[c].reward)] \in ledger
             /\ contract[c].status = "locked"

\* What a set of ledger entries amounts to.
DeltaSum(entries) == MapThenFoldSet(LAMBDA x, y : x + y, 0, LAMBDA e : e.delta,
                                    LAMBDA S : CHOOSE x \in S : TRUE, entries)

\* An account's balance is the sum of its ledger entries (docs/backend-guide.md, on the two
\* credit tables), although every request updates the two separately.
BalanceIsLedgerSum ==
    \A u \in Users : balance[u] = DeltaSum({e \in ledger : e.user = u})

\* The rewards of a campaign are covered by what its owner paid to publish it ("permanent spend
\* for N tester rewards", publish_campaign), but for the rejections overturned on appeal.
RewardsCovered ==
    \A c \in Campaigns :
        DeltaSum({e \in ledger : \E t \in Users : e.key = RewardKey(c, t)})
            <= campaign[c].reward * (campaign[c].target + Cardinality(AppealWins(c)))

-----------------------------------------------------------------------------
(* Evidence, reviews and disputes *)

\* An assignment and its latest submission agree, and only a version whose changes were
\* requested is ever followed by another.
LatestSubmissionDecides ==
    \A c \in Campaigns, t \in Users :
        /\ \A v \in 1 .. Versions(c, t) - 1 : submissions[c][t][v].status = "changes_requested"
        /\ Row(c, t).status \in {"submitted", "approved", "rejected"} =>
             Versions(c, t) > 0 /\ Latest(c, t).status = Row(c, t).status
        /\ Versions(c, t) > 0 /\ Row(c, t).status \notin {"submitted", "approved", "rejected"} =>
             Latest(c, t).status = "changes_requested"

\* A dispute under way concerns the latest submission, still undecided or rejected; a closed one
\* has left the tester with the award it granted, or rejected for good.
DisputeMatchesWork ==
    \A c \in Campaigns, t \in Users :
        LET d == dispute[c][t]
        IN  /\ d.status # "none" => d.version = Versions(c, t)
            /\ d.status \in ActiveDispute => Row(c, t).status \in {"submitted", "rejected"}
            /\ d.status \in {"resolved", "rejected"} =>
                 Row(c, t).status = IF d.remedy = "award_tester" THEN "approved" ELSE "rejected"

\* Approved work has an audit event of the one who may approve it: the owner, or the moderator
\* to whom the dispute with the award was assigned.
ApprovalAudited ==
    \A c \in Campaigns, t \in Users :
        Row(c, t).status = "approved" =>
            IF dispute[c][t].remedy = "award_tester"
            THEN Audited(dispute[c][t].assigned_to, "dispute.resolved", <<c, t>>) \in audit
            ELSE Audited(campaign[c].owner, "submission.approved", <<c, t>>) \in audit

\* Work pending beyond the review window can be decided by every party who is not suspended: by
\* its owner, by the tester's escalation, by whichever moderator is left to claim it, by the one
\* who has claimed it.
OverdueWorkHasDecider ==
    \A c \in Campaigns, t \in Users :
        LET v == Versions(c, t)
            d == dispute[c][t]
        IN  Row(c, t).status = "submitted" /\ Overdue(c, t, v) =>
              /\ d.status = "none" =>
                   /\ Authenticated(campaign[c].owner) =>
                        ENABLED RejectSubmission(campaign[c].owner, c, t, v)
                   /\ Authenticated(t) => ENABLED OpenDispute(t, c, v)
              /\ d.status = "open" => \E m \in Moderators : ENABLED ClaimDispute(m, c, t)
              /\ d.status = "under_review" /\ Authenticated(d.assigned_to) =>
                   ENABLED AwardTester(d.assigned_to, c, t)

\* The moderators can never all be suspended, for none suspends itself: one is left to restore
\* the others.
ModeratorRemains == Moderators # {} => Moderators \ suspended # {}

\* What is submitted has met the contract: enough days after the start, on enough days of testing.
ContractHonoured ==
    \A c \in Campaigns, t \in Users : \A v \in 1 .. Versions(c, t) :
        LET at == submissions[c][t][v].submitted_at
            terms == contract[c].terms
        IN  /\ at >= Row(c, t).started_at + terms.minimum_days * TicksPerDay
            /\ Cardinality({d \in sessions[c][t] : d * TicksPerDay <= at}) >= terms.required_sessions

-----------------------------------------------------------------------------
(* What no step does *)

\* Once published, neither the price nor the seats nor the contract of a campaign change.
PromiseKept ==
    [][\A c \in Campaigns :
          campaign[c].status \notin {"none", "draft"} =>
              /\ campaign'[c] = [campaign[c] EXCEPT !.status = campaign'[c].status]
              /\ contract'[c] = contract[c]]_vars

\* Evidence is kept: versions are only appended, an owner's review is written once, and a
\* decided version changes only from rejected to approved, by its dispute.
EvidenceKept ==
    [][\A c \in Campaigns, t \in Users : \A v \in 1 .. Versions(c, t) :
          LET old == submissions[c][t][v]
              new == submissions'[c][t][v]
          IN  /\ Len(submissions'[c][t]) >= Versions(c, t)
              /\ new.submitted_at = old.submitted_at
              /\ old.review # "none" => new.review = old.review
              /\ new.status # old.status =>
                   \/ old.status = "submitted"
                   \/ /\ old.status = "rejected"
                      /\ new.status = "approved"
                      /\ dispute[c][t].status = "under_review"]_vars

\* While a moderator handles an escalation, neither party changes the work it is about.
EscalationFreezesWork ==
    [][\A c \in Campaigns, t \in Users :
          dispute[c][t].status \in ActiveDispute /\ dispute'[c][t].status \in ActiveDispute =>
              UNCHANGED <<assignment[c][t], submissions[c][t], sessions[c][t]>>]_vars

-----------------------------------------------------------------------------
(* The abstract lifecycle, and progress *)

Lifecycle(c, t) == INSTANCE AssignmentLifecycle
                     WITH status <- assignment[c][t].status, paid <- Posted(RewardKey(c, t))

\* Every assignment follows the documented lifecycle and is paid once.
LifecycleImplemented ==
    /\ \A c \in Campaigns, t \in Users : Lifecycle(c, t)!LifecycleInit
    /\ [][\A c \in Campaigns, t \in Users :
             [Lifecycle(c, t)!LifecycleNext]_<<Row(c, t).status, Posted(RewardKey(c, t))>>]_vars

\* Submitted work does not wait for ever on its owner: when the clock's bound leaves room for the
\* review window to end, the work is decided.
OverdueWorkDecided ==
    \A c \in Campaigns, t \in Users : \A v \in 1 .. MaxVersions :
        (/\ Versions(c, t) = v
         /\ Row(c, t).status = "submitted"
         /\ Latest(c, t).submitted_at + contract[c].terms.review_window <= MaxTime)
        ~> (Versions(c, t) >= v /\ submissions[c][t][v].status # "submitted")

\* A closed campaign completes once its accepted assignments are settled
\* (docs/backend-guide.md, Testing workflow).
ClosedCampaignCompletes ==
    \A c \in Campaigns :
        (/\ campaign[c].status = "cancelled"
         /\ ClosedWorkSettled(campaign[c], assignment[c])
         /\ \A t \in Users : Row(c, t).status = "rejected" =>
              dispute[c][t].status \in {"resolved", "rejected"})
        ~> campaign[c].status = "completed"
=============================================================================
