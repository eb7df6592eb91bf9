--------------------------- MODULE ExchangeProofs ---------------------------
(*****************************************************************************)
(* Theorems about Exchange, for every set of users, campaigns, offers and    *)
(* contracts and every bound.  Every table stays well typed and no row       *)
(* refers to a missing one; a published campaign keeps its promise, which    *)
(* its posting funds; an approval earns its reward once; an assignment       *)
(* follows the lifecycle of docs/backend-guide.md.                           *)
(*                                                                           *)
(* The work of one tester (the assignment, the versions submitted, the       *)
(* owner's reviews and the dispute) agrees with itself, and recruitment      *)
(* stops with the last approval: no more testers than the target are ever    *)
(* seated, apart from those whose rejection a moderator has overturned.      *)
(*                                                                           *)
(* Every approval has the audit event of the one who may give it, a          *)
(* campaign completes only when it has earned it, a closed one whose         *)
(* accepted work is settled has completed, what is submitted has met the     *)
(* contract, the accounts hold what the ledger says, and the rewards of a    *)
(* campaign are paid for.                                                    *)
(*****************************************************************************)
EXTENDS Exchange, TLAPS, SequenceTheorems, FiniteSetTheorems, WellFoundedInduction

-----------------------------------------------------------------------------
(* Rows that are written *)

\* A message about an assignment is a well-typed row of the inbox.
LEMMA NotifiedType ==
    ASSUME NEW u \in Users, NEW kind \in Kind, NEW c \in Campaigns, NEW t \in Users,
           NEW version \in Nat
    PROVE  Notified(u, kind, c, t, version) \in Notification
BY DEF Notified, Notification

\* Writing a row of its type leaves the table well typed.
LEMMA PutType ==
    ASSUME NEW S, NEW table \in [Campaigns -> [Users -> S]],
           NEW c \in Campaigns, NEW t \in Users, NEW row \in S
    PROVE  Put(table, c, t, row) \in [Campaigns -> [Users -> S]]
BY DEF Put

\* Every assignment is well typed.
LEMMA RowType ==
    ASSUME TypeOK, NEW c \in Campaigns, NEW t \in Users
    PROVE  Row(c, t) \in Assignment
BY DEF TypeOK, Row

\* Writing the status of an assignment leaves its row well typed.
LEMMA StatusType ==
    ASSUME NEW row \in Assignment, NEW status \in AssignmentStatus
    PROVE  [row EXCEPT !.status = status] \in Assignment
BY DEF Assignment

\* Writing the status of one assignment leaves the table well typed.
LEMMA SetStatusType ==
    ASSUME TypeOK, NEW c \in Campaigns, NEW t \in Users, NEW status \in AssignmentStatus
    PROVE  SetStatus(c, t, status) \in [Campaigns -> [Users -> Assignment]]
<1>1. [Row(c, t) EXCEPT !.status = status] \in Assignment
  BY RowType, StatusType
<1> QED BY <1>1, PutType DEF TypeOK, SetStatus

\* record_credit_entry never overdraws an account, and appends a well-typed entry.
LEMMA CreditType ==
    ASSUME TypeOK, NEW u \in Users, NEW delta \in Int, NEW key \in LedgerKey,
           RecordCreditEntry(u, delta, key)
    PROVE  balance' \in [Users -> Nat] /\ ledger' \subseteq LedgerEntry
<1>1. CASE UNCHANGED creditVars
  BY <1>1 DEF TypeOK, creditVars
<1>2. CASE Covered(u, delta) /\ Booked(u, delta, key)
  <2>1. [key |-> key, user |-> u, delta |-> delta] \in LedgerEntry
    BY DEF LedgerEntry
  <2>2. ledger' \subseteq LedgerEntry
    BY <1>2, <2>1 DEF TypeOK, Booked
  <2>3. balance \in [Users -> Nat] /\ balance[u] + delta \in Nat
    BY <1>2 DEF TypeOK, Covered
  <2>4. balance' \in [Users -> Nat]
    BY <1>2, <2>3 DEF Booked
  <2> QED BY <2>2, <2>4
<1> QED BY <1>1, <1>2 DEF RecordCreditEntry

\* maybe_complete_campaign leaves a well-typed campaign.
LEMMA MaybeCompletedType ==
    ASSUME NEW camp \in Campaign, NEW rows
    PROVE  MaybeCompleted(camp, rows) \in Campaign
BY DEF MaybeCompleted, Campaign, CampaignStatus

\* The audit of a completion is well typed.
LEMMA CompletionAuditType ==
    ASSUME NEW u \in Users, NEW c \in Campaigns, NEW camp, NEW rows
    PROVE  CompletionAudit(u, c, camp, rows) \subseteq AuditEvent
<1>1. Audited(u, "campaign.completed", c) \in AuditEvent
  BY DEF Audited, AuditEvent, Action
<1> QED BY <1>1 DEF CompletionAudit

\* A cancelled assignment is well typed.
LEMMA CancelledType ==
    ASSUME NEW row \in Assignment
    PROVE  Cancelled(row) \in Assignment
BY DEF Cancelled, Assignment, AssignmentStatus

\* An approved assignment is well typed.
LEMMA ApprovedRowType ==
    ASSUME NEW row \in Assignment
    PROVE  ApprovedRow(row) \in Assignment
BY DEF ApprovedRow, Assignment, AssignmentStatus

\* Writing one version of the evidence leaves the sequence of versions well typed.
LEMMA SubmissionWritten ==
    ASSUME NEW s \in Seq(Submission), NEW v \in DOMAIN s, NEW e \in Submission
    PROVE  [s EXCEPT ![v] = e] \in Seq(Submission)
<1>1. v \in 1 .. Len(s)
  OBVIOUS
<1> QED BY <1>1, ExceptSeq

-----------------------------------------------------------------------------
(* Type correctness, one lemma per service *)

\* Writing the status of one campaign leaves the table well typed.
LEMMA CampaignStatusType ==
    ASSUME TypeOK, NEW c \in Campaigns, NEW status \in CampaignStatus
    PROVE  [campaign EXCEPT ![c].status = status] \in [Campaigns -> Campaign]
<1> DEFINE row == campaign[c]
<1>1. row \in Campaign
  BY DEF TypeOK
<1>2. [row EXCEPT !.status = status] \in Campaign
  <2> HIDE DEF row
  <2> QED BY <1>1 DEF Campaign
<1> QED BY <1>2 DEF TypeOK

\* The table of campaigns stays well typed when one of them is completed.
LEMMA MaybeCompletedTableType ==
    ASSUME TypeOK, NEW c \in Campaigns, NEW rows
    PROVE  [campaign EXCEPT ![c] = MaybeCompleted(@, rows)] \in [Campaigns -> Campaign]
<1>1. MaybeCompleted(campaign[c], rows) \in Campaign
  BY MaybeCompletedType DEF TypeOK
<1> QED BY <1>1 DEF TypeOK

\* Creating or editing a draft preserves the types.
LEMMA DraftType ==
    ASSUME TypeOK, NEW u \in Users, NEW c \in Campaigns,
           NEW target \in Targets, NEW reward \in Rewards
    PROVE  /\ CreateCampaign(u, c, target, reward) => TypeOK'
           /\ UpdateCampaign(u, c, target, reward) => TypeOK'
<1>1. target \in Nat /\ reward \in Nat
  BY OfferAssumption
<1>2. ASSUME CreateCampaign(u, c, target, reward) PROVE TypeOK'
  <2>1. DraftRow(u, target, reward) \in Campaign
    BY <1>1 DEF DraftRow, Campaign, CampaignStatus
  <2>2. campaign' \in [Campaigns -> Campaign]
    BY <1>2, <2>1 DEF CreateCampaign, TypeOK
  <2>3. Audited(u, "campaign.created", c) \in AuditEvent
    BY DEF Audited, AuditEvent, Action
  <2>4. audit' \subseteq AuditEvent
    BY <1>2, <2>3 DEF CreateCampaign, AddAuditEvents, TypeOK
  <2> QED BY <1>2, <2>2, <2>4 DEF CreateCampaign, TypeOK, creditVars, unchangedByOwner
<1>3. ASSUME UpdateCampaign(u, c, target, reward) PROVE TypeOK'
  <2>1. ASSUME NEW row \in Campaign PROVE [row EXCEPT !.target = target, !.reward = reward] \in Campaign
    BY <1>1 DEF Campaign
  <2>2. campaign' \in [Campaigns -> Campaign]
    BY <1>3, <2>1 DEF UpdateCampaign, TypeOK
  <2>3. Audited(u, "campaign.updated", c) \in AuditEvent
    BY DEF Audited, AuditEvent, Action
  <2>4. audit' \subseteq AuditEvent
    BY <1>3, <2>3 DEF UpdateCampaign, AddAuditEvents, TypeOK
  <2> QED BY <1>3, <2>2, <2>4 DEF UpdateCampaign, TypeOK, creditVars, unchangedByOwner
<1> QED BY <1>2, <1>3

\* Saving the contract, pausing and resuming preserve the types.
LEMMA OwnerRowType ==
    ASSUME TypeOK, NEW u \in Users, NEW c \in Campaigns
    PROVE  /\ \A terms \in Terms : UpsertContract(u, c, terms) => TypeOK'
           /\ PauseCampaign(u, c) => TypeOK'
           /\ ResumeCampaign(u, c) => TypeOK'
<1>1. ASSUME NEW terms \in Terms, UpsertContract(u, c, terms) PROVE TypeOK'
  <2>1. [status |-> "draft", terms |-> terms] \in Contract
    BY TermsAssumption DEF Contract, ContractStatus
  <2>2. contract' \in [Campaigns -> Contract]
    BY <1>1, <2>1 DEF UpsertContract, TypeOK
  <2>3. Audited(u, "contract.saved", c) \in AuditEvent
    BY DEF Audited, AuditEvent, Action
  <2>4. audit' \subseteq AuditEvent
    BY <1>1, <2>3 DEF UpsertContract, AddAuditEvents, TypeOK
  <2> QED BY <1>1, <2>2, <2>4 DEF UpsertContract, TypeOK, creditVars, unchangedByOwner
<1>2. ASSUME PauseCampaign(u, c) PROVE TypeOK'
  <2>1. campaign' \in [Campaigns -> Campaign]
    BY <1>2, CampaignStatusType DEF PauseCampaign, CampaignStatus
  <2>2. Audited(u, "campaign.paused", c) \in AuditEvent
    BY DEF Audited, AuditEvent, Action
  <2>3. audit' \subseteq AuditEvent
    BY <1>2, <2>2 DEF PauseCampaign, AddAuditEvents, TypeOK
  <2> QED BY <1>2, <2>1, <2>3 DEF PauseCampaign, TypeOK, creditVars, unchangedByOwner
<1>3. ASSUME ResumeCampaign(u, c) PROVE TypeOK'
  <2>1. campaign' \in [Campaigns -> Campaign]
    BY <1>3, CampaignStatusType DEF ResumeCampaign, CampaignStatus
  <2>2. Audited(u, "campaign.resumed", c) \in AuditEvent
    BY DEF Audited, AuditEvent, Action
  <2>3. audit' \subseteq AuditEvent
    BY <1>3, <2>2 DEF ResumeCampaign, AddAuditEvents, TypeOK
  <2> QED BY <1>3, <2>1, <2>3 DEF ResumeCampaign, TypeOK, creditVars, unchangedByOwner
<1> QED BY <1>1, <1>2, <1>3

\* The cost of a posting is an integer.
LEMMA PostingCostType ==
    ASSUME NEW target \in Nat, NEW reward \in Nat
    PROVE  -PostingCost(target, reward) \in Int
BY DEF PostingCost

\* Publishing a draft preserves the types.
LEMMA PublishType ==
    ASSUME TypeOK, NEW u \in Users, NEW c \in Campaigns, PublishCampaign(u, c)
    PROVE  TypeOK'
<1>1. campaign[c].target \in Nat /\ campaign[c].reward \in Nat
  BY DEF TypeOK, Campaign
<1>2. PostingKey(c) \in LedgerKey
  BY DEF PostingKey, LedgerKey
<1>3. balance' \in [Users -> Nat] /\ ledger' \subseteq LedgerEntry
  BY <1>1, <1>2, PostingCostType, CreditType DEF PublishCampaign
<1>4. campaign' \in [Campaigns -> Campaign]
  BY CampaignStatusType DEF PublishCampaign, CampaignStatus
<1>5. contract' \in [Campaigns -> Contract]
  <2>1. ASSUME NEW row \in Contract PROVE [row EXCEPT !.status = "locked"] \in Contract
    BY DEF Contract, ContractStatus
  <2> QED BY <2>1 DEF PublishCampaign, TypeOK
<1>6. audit' \subseteq AuditEvent
  <2>1. Audited(u, "campaign.published", c) \in AuditEvent
    BY DEF Audited, AuditEvent, Action
  <2> QED BY <2>1 DEF PublishCampaign, AddAuditEvents, TypeOK
<1> QED BY <1>3, <1>4, <1>5, <1>6 DEF PublishCampaign, TypeOK, unchangedByOwner

\* Launching a campaign in one request preserves the types.
LEMMA LaunchType ==
    ASSUME TypeOK, NEW u \in Users, NEW c \in Campaigns, NEW target \in Targets,
           NEW reward \in Rewards, NEW terms \in Terms,
           LaunchCampaign(u, c, target, reward, terms)
    PROVE  TypeOK'
<1>1. target \in Nat /\ reward \in Nat
  BY OfferAssumption
<1>2. PostingKey(c) \in LedgerKey
  BY DEF PostingKey, LedgerKey
<1>3. balance' \in [Users -> Nat] /\ ledger' \subseteq LedgerEntry
  BY <1>1, <1>2, PostingCostType, CreditType DEF LaunchCampaign
<1>4. campaign' \in [Campaigns -> Campaign]
  <2>1. [DraftRow(u, target, reward) EXCEPT !.status = "published"] \in Campaign
    BY <1>1 DEF DraftRow, Campaign, CampaignStatus
  <2> QED BY <2>1 DEF LaunchCampaign, TypeOK
<1>5. contract' \in [Campaigns -> Contract]
  <2>1. [status |-> "locked", terms |-> terms] \in Contract
    BY TermsAssumption DEF Contract, ContractStatus
  <2> QED BY <2>1 DEF LaunchCampaign, TypeOK
<1>6. audit' \subseteq AuditEvent
  <2>1. ASSUME NEW action \in {"campaign.created", "contract.saved", "campaign.published"}
        PROVE  Audited(u, action, c) \in AuditEvent
    BY DEF Audited, AuditEvent, Action
  <2> QED BY <2>1 DEF LaunchCampaign, AddAuditEvents, TypeOK
<1> QED BY <1>3, <1>4, <1>5, <1>6 DEF LaunchCampaign, TypeOK, unchangedByOwner

\* Closing a campaign preserves the types, of the applications it cancels too.
LEMMA CloseType ==
    ASSUME TypeOK, NEW u \in Users, NEW c \in Campaigns, CloseCampaign(u, c)
    PROVE  TypeOK'
<1> DEFINE closed == [campaign[c] EXCEPT !.status = "cancelled"]
           rows == Closing(assignment[c])
           pending == Pending(assignment[c])
<1>1. pending \subseteq Users
  BY DEF Pending
<1>2. assignment' \in [Campaigns -> [Users -> Assignment]]
  <2>1. assignment[c] \in [Users -> Assignment]
    BY DEF TypeOK
  <2>2. rows \in [Users -> Assignment]
    BY <2>1, CancelledType DEF Closing
  <2> QED BY <2>2 DEF CloseCampaign, TypeOK
<1>3. campaign' \in [Campaigns -> Campaign]
  <2>1. ASSUME NEW row \in Campaign PROVE [row EXCEPT !.status = "cancelled"] \in Campaign
    BY DEF Campaign, CampaignStatus
  <2>2. closed \in Campaign
    BY <2>1 DEF TypeOK
  <2>3. MaybeCompleted(closed, rows) \in Campaign
    BY <2>2, MaybeCompletedType
  <2> QED BY <2>3 DEF CloseCampaign, TypeOK
<1>4. audit' \subseteq AuditEvent
  <2>1. ASSUME NEW t \in Users PROVE Audited(u, "assignment.declined", <<c, t>>) \in AuditEvent
    BY DEF Audited, AuditEvent, Action
  <2>2. Audited(u, "campaign.closed", c) \in AuditEvent
    BY DEF Audited, AuditEvent, Action
  <2>3. CompletionAudit(u, c, closed, rows) \subseteq AuditEvent
    BY CompletionAuditType
  <2> QED BY <1>1, <2>1, <2>2, <2>3 DEF CloseCampaign, AddAuditEvents, TypeOK
<1>5. notifications' \subseteq Notification
  <2>1. ASSUME NEW t \in Users PROVE Notified(t, "application_closed", c, t, 0) \in Notification
    BY NotifiedType DEF Kind
  <2> QED BY <1>1, <2>1 DEF CloseCampaign, AddNotifications, TypeOK
<1> QED BY <1>2, <1>3, <1>4, <1>5 DEF CloseCampaign, TypeOK, creditVars, unchangedByOwner

\* The audit event and the message that a request about an assignment leaves behind.
LEMMA EventType ==
    ASSUME TypeOK, NEW u \in Users, NEW c \in Campaigns, NEW t \in Users, NEW action \in Action,
           NEW completion \in SUBSET AuditEvent,
           AddAuditEvents({Audited(u, action, <<c, t>>)} \cup completion)
    PROVE  audit' \subseteq AuditEvent
<1>1. Audited(u, action, <<c, t>>) \in AuditEvent
  BY DEF Audited, AuditEvent
<1> QED BY <1>1 DEF AddAuditEvents, TypeOK

\* The same for a request that leaves one audit event.
LEMMA SingleEventType ==
    ASSUME TypeOK, NEW u \in Users, NEW c \in Campaigns, NEW t \in Users, NEW action \in Action,
           AddAuditEvents({Audited(u, action, <<c, t>>)})
    PROVE  audit' \subseteq AuditEvent
<1>1. Audited(u, action, <<c, t>>) \in AuditEvent
  BY DEF Audited, AuditEvent
<1> QED BY <1>1 DEF AddAuditEvents, TypeOK

\* A message to the owner of a campaign is well typed, for the owner exists.
LEMMA ToOwnerType ==
    ASSUME TypeOK, NEW c \in Campaigns, NEW t \in Users, NEW kind \in Kind,
           NEW version \in Nat, campaign[c].owner \in Users,
           AddNotifications({ToOwner(kind, c, t, version)})
    PROVE  notifications' \subseteq Notification
<1>1. ToOwner(kind, c, t, version) \in Notification
  BY NotifiedType DEF ToOwner
<1> QED BY <1>1 DEF AddNotifications, TypeOK

\* A message to the tester is well typed.
LEMMA ToTesterType ==
    ASSUME TypeOK, NEW c \in Campaigns, NEW t \in Users, NEW kind \in Kind, NEW version \in Nat,
           AddNotifications({ToTester(kind, c, t, version)})
    PROVE  notifications' \subseteq Notification
<1>1. ToTester(kind, c, t, version) \in Notification
  BY NotifiedType DEF ToTester
<1> QED BY <1>1 DEF AddNotifications, TypeOK

\* Applying, accepting, declining and withdrawing preserve the types.
LEMMA RecruitmentType ==
    ASSUME TypeOK, References, NEW u \in Users, NEW c \in Campaigns, NEW t \in Users
    PROVE  /\ ApplyToCampaign(t, c) => TypeOK'
           /\ AcceptAssignment(u, c, t) => TypeOK'
           /\ DeclineAssignment(u, c, t) => TypeOK'
           /\ WithdrawAssignment(t, c) => TypeOK'
<1>1. ASSUME ApplyToCampaign(t, c) PROVE TypeOK'
  <2>1. campaign[c].owner \in Users
    BY <1>1 DEF ApplyToCampaign, References
  <2>2. assignment' \in [Campaigns -> [Users -> Assignment]]
    BY <1>1, SetStatusType DEF ApplyToCampaign, AssignmentStatus
  <2>3. audit' \subseteq AuditEvent
    BY <1>1, SingleEventType DEF ApplyToCampaign, Action
  <2>4. notifications' \subseteq Notification
    BY <1>1, <2>1, ToOwnerType DEF ApplyToCampaign, Kind
  <2> QED BY <1>1, <2>2, <2>3, <2>4
          DEF ApplyToCampaign, TypeOK, campaignVars, creditVars, unchangedByOwner
<1>2. ASSUME AcceptAssignment(u, c, t) PROVE TypeOK'
  <2>1. ASSUME NEW row \in Assignment
        PROVE  [row EXCEPT !.status = "accepted", !.accepted_at = TRUE] \in Assignment
    BY DEF Assignment, AssignmentStatus
  <2>2. assignment' \in [Campaigns -> [Users -> Assignment]]
    BY <1>2, <2>1, RowType, PutType DEF AcceptAssignment, TypeOK
  <2>3. audit' \subseteq AuditEvent
    BY <1>2, SingleEventType DEF AcceptAssignment, Action
  <2>4. notifications' \subseteq Notification
    BY <1>2, ToTesterType DEF AcceptAssignment, Kind
  <2> QED BY <1>2, <2>2, <2>3, <2>4
          DEF AcceptAssignment, TypeOK, campaignVars, creditVars, unchangedByOwner
<1>3. ASSUME DeclineAssignment(u, c, t) PROVE TypeOK'
  <2>1. assignment' \in [Campaigns -> [Users -> Assignment]]
    BY <1>3, RowType, CancelledType, PutType DEF DeclineAssignment, TypeOK
  <2>2. audit' \subseteq AuditEvent
    BY <1>3, SingleEventType DEF DeclineAssignment, Action
  <2>3. notifications' \subseteq Notification
    BY <1>3, ToTesterType DEF DeclineAssignment, Kind
  <2> QED BY <1>3, <2>1, <2>2, <2>3
          DEF DeclineAssignment, TypeOK, campaignVars, creditVars, unchangedByOwner
<1>4. ASSUME WithdrawAssignment(t, c) PROVE TypeOK'
  <2>1. campaign[c].owner \in Users
    BY <1>4 DEF WithdrawAssignment, Withdrawable, References
  <2>2. assignment' \in [Campaigns -> [Users -> Assignment]]
    BY <1>4, RowType, CancelledType, PutType DEF WithdrawAssignment, TypeOK
  <2>3. campaign' \in [Campaigns -> Campaign]
    BY <1>4, MaybeCompletedTableType DEF WithdrawAssignment
  <2>4. audit' \subseteq AuditEvent
    <3> DEFINE seen == Flushed(ToOwner("tester_withdrew", c, t, 0), c)
    <3>1. CompletionAudit(t, c, campaign[c], seen) \in SUBSET AuditEvent
      BY CompletionAuditType
    <3>2. "assignment.withdrawn" \in Action
      BY DEF Action
    <3> QED BY <1>4, <3>1, <3>2, EventType DEF WithdrawAssignment
  <2>5. notifications' \subseteq Notification
    BY <1>4, <2>1, ToOwnerType DEF WithdrawAssignment, Kind
  <2> QED BY <1>4, <2>2, <2>3, <2>4, <2>5
          DEF WithdrawAssignment, TypeOK, creditVars, unchangedByOwner
<1> QED BY <1>1, <1>2, <1>3, <1>4

\* The day of the clock is a natural number.
LEMMA TodayType == ASSUME TypeOK PROVE Today \in Nat
<1>1. now \in Nat
  BY DEF TypeOK
<1>2. TicksPerDay \in Nat \ {0}
  BY ClockAssumption
<1> QED BY <1>1, <1>2 DEF Today

\* Starting, recording a session and submitting preserve the types.
LEMMA TestingType ==
    ASSUME TypeOK, References, NEW c \in Campaigns, NEW t \in Users
    PROVE  /\ StartAssignment(t, c) => TypeOK'
           /\ RecordTestingSession(t, c) => TypeOK'
           /\ CreateSubmission(t, c) => TypeOK'
<1>1. sessions[c][t] \cup {Today} \in SUBSET Nat
  BY TodayType DEF TypeOK
<1>2. Put(sessions, c, t, sessions[c][t] \cup {Today}) \in [Campaigns -> [Users -> SUBSET Nat]]
  BY <1>1, PutType DEF TypeOK
<1>3. ASSUME StartAssignment(t, c) PROVE TypeOK'
  <2>1. ASSUME NEW row \in Assignment
        PROVE  [row EXCEPT !.status = "in_progress", !.started_at = now] \in Assignment
    BY DEF Assignment, AssignmentStatus, TypeOK
  <2>2. assignment' \in [Campaigns -> [Users -> Assignment]]
    BY <1>3, <2>1, RowType, PutType DEF StartAssignment, TypeOK
  <2>3. audit' \subseteq AuditEvent
    BY <1>3, SingleEventType DEF StartAssignment, Action
  <2> QED BY <1>2, <1>3, <2>2, <2>3 DEF StartAssignment, TypeOK, campaignVars, creditVars
<1>4. ASSUME RecordTestingSession(t, c) PROVE TypeOK'
  <2>1. audit' \subseteq AuditEvent
    BY <1>4, SingleEventType DEF RecordTestingSession, Action
  <2> QED BY <1>2, <1>4, <2>1 DEF RecordTestingSession, TypeOK, campaignVars, creditVars
<1>5. ASSUME CreateSubmission(t, c) PROVE TypeOK'
  <2> DEFINE new == [status |-> "submitted", submitted_at |-> now, review |-> "none"]
  <2>1. campaign[c].owner \in Users
    BY <1>5 DEF CreateSubmission, Testing, References
  <2>2. new \in Submission
    BY DEF Submission, SubmissionStatus, TypeOK
  <2>3. submissions[c][t] \in Seq(Submission)
    BY DEF TypeOK
  <2>4. Append(submissions[c][t], new) \in Seq(Submission)
    BY <2>2, <2>3, AppendProperties
  <2>5. submissions' \in [Campaigns -> [Users -> Seq(Submission)]]
    BY <1>5, <2>4, PutType DEF CreateSubmission, TypeOK
  <2>6. assignment' \in [Campaigns -> [Users -> Assignment]]
    BY <1>5, SetStatusType DEF CreateSubmission, AssignmentStatus
  <2>7. audit' \subseteq AuditEvent
    BY <1>5, SingleEventType DEF CreateSubmission, Action
  <2>8. Versions(c, t) + 1 \in Nat
    BY <2>3, LenProperties DEF Versions
  <2>9. notifications' \subseteq Notification
    BY <1>5, <2>1, <2>8, ToOwnerType DEF CreateSubmission, Kind
  <2> QED BY <1>5, <2>5, <2>6, <2>7, <2>9
          DEF CreateSubmission, TypeOK, campaignVars, creditVars
<1> QED BY <1>3, <1>4, <1>5

\* Writing one version of one assignment leaves the table of evidence well typed.
LEMMA WriteVersionType ==
    ASSUME TypeOK, NEW c \in Campaigns, NEW t \in Users, NEW v \in DOMAIN submissions[c][t],
           NEW row \in Submission
    PROVE  WriteVersion(c, t, v, row) \in [Campaigns -> [Users -> Seq(Submission)]]
<1>1. submissions[c][t] \in Seq(Submission)
  BY DEF TypeOK
<1>2. [submissions[c][t] EXCEPT ![v] = row] \in Seq(Submission)
  BY <1>1, SubmissionWritten
<1> QED BY <1>2, PutType DEF WriteVersion, TypeOK

\* A version that exists is well typed.
LEMMA VersionType ==
    ASSUME TypeOK, NEW c \in Campaigns, NEW t \in Users, NEW v \in DOMAIN submissions[c][t]
    PROVE  v \in Nat /\ submissions[c][t][v] \in Submission
<1>1. submissions[c][t] \in Seq(Submission)
  BY DEF TypeOK
<1> QED BY <1>1, ElementOfSeq

\* Paying a reward preserves the types of the accounts and of the ledger.
LEMMA RewardType ==
    ASSUME TypeOK, NEW c \in Campaigns, NEW t \in Users, PayReward(c, t)
    PROVE  balance' \in [Users -> Nat] /\ ledger' \subseteq LedgerEntry
<1>1. campaign[c].reward \in Int
  BY DEF TypeOK, Campaign
<1>2. RewardKey(c, t) \in LedgerKey
  BY DEF RewardKey, LedgerKey
<1> QED BY <1>1, <1>2, CreditType DEF PayReward

\* What every review writes is well typed.
LEMMA ReviewedType ==
    ASSUME TypeOK, NEW u \in Users, NEW c \in Campaigns, NEW t \in Users,
           NEW v \in DOMAIN submissions[c][t], NEW decision \in Decision,
           Reviewed(u, c, t, v, decision)
    PROVE  /\ submissions' \in [Campaigns -> [Users -> Seq(Submission)]]
           /\ notifications' \subseteq Notification
<1>1. v \in Nat /\ submissions[c][t][v] \in Submission
  BY VersionType
<1>2. ASSUME NEW row \in Submission
      PROVE  [row EXCEPT !.status = decision, !.review = decision] \in Submission
  BY DEF Submission, SubmissionStatus, Decision
<1>3. submissions' \in [Campaigns -> [Users -> Seq(Submission)]]
  BY <1>1, <1>2, WriteVersionType DEF Reviewed
<1>4. notifications' \subseteq Notification
  BY <1>1, ToTesterType DEF Reviewed, Kind
<1> QED BY <1>3, <1>4

\* Approving, requesting changes and rejecting preserve the types.
LEMMA ReviewType ==
    ASSUME TypeOK, NEW u \in Users, NEW c \in Campaigns, NEW t \in Users,
           NEW v \in DOMAIN submissions[c][t]
    PROVE  /\ ApproveSubmission(u, c, t, v) => TypeOK'
           /\ RequestChanges(u, c, t, v) => TypeOK'
           /\ RejectSubmission(u, c, t, v) => TypeOK'
<1>1. ASSUME ApproveSubmission(u, c, t, v) PROVE TypeOK'
  <2>1. /\ submissions' \in [Campaigns -> [Users -> Seq(Submission)]]
        /\ notifications' \subseteq Notification
    BY <1>1, ReviewedType DEF ApproveSubmission, Decision
  <2>2. assignment' \in [Campaigns -> [Users -> Assignment]]
    BY <1>1, RowType, ApprovedRowType, PutType DEF ApproveSubmission, TypeOK
  <2>3. balance' \in [Users -> Nat] /\ ledger' \subseteq LedgerEntry
    BY <1>1, RewardType DEF ApproveSubmission
  <2>4. campaign' \in [Campaigns -> Campaign]
    BY <1>1, MaybeCompletedTableType DEF ApproveSubmission
  <2>5. audit' \subseteq AuditEvent
    <3>1. CompletionAudit(u, c, campaign[c], assignment'[c]) \in SUBSET AuditEvent
      BY CompletionAuditType
    <3>2. "submission.approved" \in Action
      BY DEF Action
    <3> QED BY <1>1, <3>1, <3>2, EventType DEF ApproveSubmission
  <2> QED BY <1>1, <2>1, <2>2, <2>3, <2>4, <2>5 DEF ApproveSubmission, Reviewed, TypeOK
<1>2. ASSUME RequestChanges(u, c, t, v) PROVE TypeOK'
  <2>1. /\ submissions' \in [Campaigns -> [Users -> Seq(Submission)]]
        /\ notifications' \subseteq Notification
    BY <1>2, ReviewedType DEF RequestChanges, Decision
  <2>2. assignment' \in [Campaigns -> [Users -> Assignment]]
    BY <1>2, SetStatusType DEF RequestChanges, AssignmentStatus
  <2>3. audit' \subseteq AuditEvent
    BY <1>2, SingleEventType DEF RequestChanges, Action
  <2> QED BY <1>2, <2>1, <2>2, <2>3 DEF RequestChanges, Reviewed, TypeOK, creditVars
<1>3. ASSUME RejectSubmission(u, c, t, v) PROVE TypeOK'
  <2>1. /\ submissions' \in [Campaigns -> [Users -> Seq(Submission)]]
        /\ notifications' \subseteq Notification
    BY <1>3, ReviewedType DEF RejectSubmission, Decision
  <2>2. assignment' \in [Campaigns -> [Users -> Assignment]]
    BY <1>3, SetStatusType DEF RejectSubmission, AssignmentStatus
  <2>3. audit' \subseteq AuditEvent
    BY <1>3, SingleEventType DEF RejectSubmission, Action
  <2> QED BY <1>3, <2>1, <2>2, <2>3 DEF RejectSubmission, Reviewed, TypeOK, creditVars
<1> QED BY <1>1, <1>2, <1>3

\* Escalating preserves the types.
LEMMA OpenDisputeType ==
    ASSUME TypeOK, References, NEW c \in Campaigns, NEW t \in Users,
           NEW v \in DOMAIN submissions[c][t], OpenDispute(t, c, v)
    PROVE  TypeOK'
<1>1. campaign[c].owner \in Users
  BY DEF OpenDispute, Escalatable, References
<1>2. dispute' \in [Campaigns -> [Users -> Dispute]]
  <2>1. v \in Nat
    BY VersionType
  <2>2. ASSUME NEW row \in Dispute
        PROVE  [row EXCEPT !.status = "open", !.version = v] \in Dispute
    BY <2>1 DEF Dispute, DisputeStatus
  <2>3. dispute[c][t] \in Dispute
    BY DEF TypeOK
  <2> QED BY <2>2, <2>3, PutType DEF OpenDispute, TypeOK
<1>3. audit' \subseteq AuditEvent
  BY SingleEventType DEF OpenDispute, Action
<1>4. notifications' \subseteq Notification
  BY <1>1, ToOwnerType DEF OpenDispute, Kind
<1> QED BY <1>2, <1>3, <1>4 DEF OpenDispute, TypeOK, campaignVars, creditVars, workVars

\* What every verdict on a dispute writes is well typed.
LEMMA ResolvedType ==
    ASSUME TypeOK, NEW m \in Users, NEW c \in Campaigns, NEW t \in Users,
           campaign[c].owner \in Users, NEW outcome \in {"resolved", "rejected"},
           NEW remedy \in Remedy, NEW completion \in SUBSET AuditEvent,
           Resolved(m, c, t, outcome, remedy, completion)
    PROVE  /\ dispute' \in [Campaigns -> [Users -> Dispute]]
           /\ audit' \subseteq AuditEvent
           /\ notifications' \subseteq Notification
<1>1. dispute' \in [Campaigns -> [Users -> Dispute]]
  <2>1. ASSUME NEW row \in Dispute
        PROVE  [row EXCEPT !.status = outcome, !.remedy = remedy] \in Dispute
    BY DEF Dispute, DisputeStatus
  <2>2. dispute[c][t] \in Dispute
    BY DEF TypeOK
  <2> QED BY <2>1, <2>2, PutType DEF Resolved, TypeOK
<1>2. audit' \subseteq AuditEvent
  <2>1. Verdict[outcome] \in Action
    BY DEF Verdict, Action
  <2> QED BY <2>1, EventType DEF Resolved
<1>3. notifications' \subseteq Notification
  <2>1. /\ ToTester("dispute_resolved", c, t, 0) \in Notification
        /\ ToOwner("dispute_resolved", c, t, 0) \in Notification
    BY NotifiedType DEF ToTester, ToOwner, Kind
  <2> QED BY <2>1 DEF Resolved, AddNotifications, TypeOK
<1> QED BY <1>1, <1>2, <1>3

\* The verdict on the disputed submission is well typed.
LEMMA DecideType ==
    ASSUME TypeOK, NEW c \in Campaigns, NEW t \in Users, NEW verdict \in {"approved", "rejected"},
           Decide(c, t, verdict)
    PROVE  submissions' \in [Campaigns -> [Users -> Seq(Submission)]]
<1> DEFINE v == dispute[c][t].version
<1>1. v \in DOMAIN submissions[c][t]
  BY DEF Decide
<1>2. submissions[c][t][v] \in Submission
  BY <1>1, VersionType
<1>3. ASSUME NEW row \in Submission PROVE [row EXCEPT !.status = verdict] \in Submission
  BY DEF Submission, SubmissionStatus
<1>4. submissions' = WriteVersion(c, t, v, [submissions[c][t][v] EXCEPT !.status = verdict])
  BY DEF Decide
<1> QED BY <1>1, <1>2, <1>3, <1>4, WriteVersionType

\* A moderator's step on the queue preserves the types.
LEMMA ModeratorStepType ==
    ASSUME TypeOK, References, NEW m \in Moderators, NEW c \in Campaigns, NEW t \in Users,
           ModeratorStep(m, c, t)
    PROVE  TypeOK'
<1>1. m \in Users
  BY UsersAssumption
<1>2. ASSUME ClaimDispute(m, c, t) PROVE TypeOK'
  <2>1. ASSUME NEW row \in Dispute
        PROVE  [row EXCEPT !.status = "under_review", !.assigned_to = m] \in Dispute
    BY <1>1 DEF Dispute, DisputeStatus
  <2>2. dispute[c][t] \in Dispute
    BY DEF TypeOK
  <2>3. dispute' \in [Campaigns -> [Users -> Dispute]]
    BY <1>2, <2>1, <2>2, PutType DEF ClaimDispute, TypeOK
  <2>4. audit' \subseteq AuditEvent
    BY <1>1, <1>2, SingleEventType DEF ClaimDispute, Action
  <2> QED BY <1>2, <2>3, <2>4 DEF ClaimDispute, TypeOK, campaignVars, creditVars, workVars
<1>3. Resolvable(m, c, t) => campaign[c].owner \in Users
  BY DEF Resolvable, References
<1>4. ASSUME RejectOverdueWork(m, c, t) PROVE TypeOK'
  <2>1. Resolved(m, c, t, "rejected", "none", {}) /\ Resolvable(m, c, t)
    BY <1>4 DEF RejectOverdueWork
  <2>2. /\ dispute' \in [Campaigns -> [Users -> Dispute]]
        /\ audit' \subseteq AuditEvent
        /\ notifications' \subseteq Notification
    BY <1>1, <1>3, <2>1, ResolvedType DEF Remedy
  <2>3. submissions' \in [Campaigns -> [Users -> Seq(Submission)]]
    BY <1>4, DecideType DEF RejectOverdueWork
  <2>4. ASSUME NEW row \in Assignment
        PROVE  [row EXCEPT !.status = "rejected", !.completed_at = TRUE] \in Assignment
    BY DEF Assignment, AssignmentStatus
  <2>5. assignment' \in [Campaigns -> [Users -> Assignment]]
    BY <1>4, <2>4, RowType, PutType DEF RejectOverdueWork, TypeOK
  <2> QED BY <1>4, <2>2, <2>3, <2>5 DEF RejectOverdueWork, Resolved, TypeOK, creditVars
<1>5. ASSUME NEW outcome \in {"resolved", "rejected"}, CloseWithoutAward(m, c, t, outcome)
      PROVE  TypeOK'
  <2>1. Resolved(m, c, t, outcome, "none", {}) /\ Resolvable(m, c, t)
    BY <1>5 DEF CloseWithoutAward
  <2>2. /\ dispute' \in [Campaigns -> [Users -> Dispute]]
        /\ audit' \subseteq AuditEvent
        /\ notifications' \subseteq Notification
    BY <1>1, <1>3, <2>1, ResolvedType DEF Remedy
  <2> QED BY <1>5, <2>2 DEF CloseWithoutAward, Resolved, TypeOK, creditVars
<1>6. ASSUME AwardTester(m, c, t) PROVE TypeOK'
  <2>1. CompletionAudit(m, c, campaign[c], assignment'[c]) \in SUBSET AuditEvent
    BY <1>1, CompletionAuditType
  <2>2. /\ Resolvable(m, c, t)
        /\ Resolved(m, c, t, "resolved", "award_tester",
                    CompletionAudit(m, c, campaign[c], assignment'[c]))
    BY <1>6 DEF AwardTester
  <2>3. /\ dispute' \in [Campaigns -> [Users -> Dispute]]
        /\ audit' \subseteq AuditEvent
        /\ notifications' \subseteq Notification
    BY <1>1, <1>3, <2>1, <2>2, ResolvedType DEF Remedy
  <2>4. submissions' \in [Campaigns -> [Users -> Seq(Submission)]]
    BY <1>6, DecideType DEF AwardTester
  <2>5. assignment' \in [Campaigns -> [Users -> Assignment]]
    BY <1>6, RowType, ApprovedRowType, PutType DEF AwardTester, TypeOK
  <2>6. balance' \in [Users -> Nat] /\ ledger' \subseteq LedgerEntry
    BY <1>6, RewardType DEF AwardTester
  <2>7. campaign' \in [Campaigns -> Campaign]
    BY <1>6, MaybeCompletedTableType DEF AwardTester
  <2> QED BY <1>6, <2>3, <2>4, <2>5, <2>6, <2>7 DEF AwardTester, Resolved, TypeOK
<1> QED BY <1>2, <1>4, <1>5, <1>6 DEF ModeratorStep

\* Suspending and restoring a participant preserve the types.
LEMMA ParticipantType ==
    ASSUME TypeOK, NEW m \in Moderators, NEW u \in Users
    PROVE  /\ SuspendParticipant(m, u) => TypeOK'
           /\ RestoreParticipant(m, u) => TypeOK'
<1>1. m \in Users
  BY UsersAssumption
<1>2. /\ Audited(m, "profile.suspended", u) \in AuditEvent
      /\ Audited(m, "profile.restored", u) \in AuditEvent
  BY <1>1 DEF Audited, AuditEvent, Action
<1>3. ASSUME SuspendParticipant(m, u) PROVE TypeOK'
  <2>1. audit' \subseteq AuditEvent /\ suspended' \subseteq Users
    BY <1>2, <1>3 DEF SuspendParticipant, AddAuditEvents, TypeOK
  <2> QED BY <1>3, <2>1 DEF SuspendParticipant, TypeOK, campaignVars, creditVars, workVars
<1>4. ASSUME RestoreParticipant(m, u) PROVE TypeOK'
  <2>1. audit' \subseteq AuditEvent /\ suspended' \subseteq Users
    BY <1>2, <1>4 DEF RestoreParticipant, AddAuditEvents, TypeOK
  <2> QED BY <1>4, <2>1 DEF RestoreParticipant, TypeOK, campaignVars, creditVars, workVars
<1> QED BY <1>3, <1>4

\* An owner's step preserves the types.
LEMMA OwnerStepType ==
    ASSUME TypeOK, NEW u \in Users, NEW c \in Campaigns, OwnerStep(u, c), References
    PROVE  TypeOK'
<1>1. ASSUME NEW t \in Users, NEW v \in DOMAIN submissions[c][t],
             ApproveSubmission(u, c, t, v) \/ RequestChanges(u, c, t, v)
               \/ RejectSubmission(u, c, t, v)
      PROVE  TypeOK'
  BY <1>1, ReviewType
<1>2. ASSUME NEW target \in Targets, NEW reward \in Rewards, NEW terms \in Terms,
             LaunchCampaign(u, c, target, reward, terms)
      PROVE  TypeOK'
  BY <1>2, LaunchType
<1> QED BY <1>1, <1>2, DraftType, OwnerRowType, PublishType, CloseType, RecruitmentType
        DEF OwnerStep

\* A tester's step preserves the types.
LEMMA TesterStepType ==
    ASSUME TypeOK, References, NEW t \in Users, NEW c \in Campaigns, TesterStep(t, c)
    PROVE  TypeOK'
BY RecruitmentType, TestingType, OpenDisputeType DEF TesterStep

\* Every step preserves the types, given that rows refer to rows that exist.
LEMMA TypeStep ==
    ASSUME TypeOK, References, [Next]_vars
    PROVE  TypeOK'
<1>1. CASE Tick
  BY <1>1 DEF Tick, TypeOK, campaignVars, creditVars, workVars
<1>2. CASE UNCHANGED vars
  BY <1>2 DEF vars, TypeOK
<1> QED BY <1>1, <1>2, OwnerStepType, TesterStepType, ModeratorStepType, ParticipantType DEF Next

-----------------------------------------------------------------------------
(* How a step moves the rows that others refer to *)

\* A campaign is created, edited as a draft, or moved on to another status and nothing else.
CampaignMove(d) ==
    \/ campaign'[d] = campaign[d]
    \/ /\ campaign[d].status = "none"
       /\ campaign'[d].owner \in Users
    \/ /\ campaign[d].status = "draft"
       /\ campaign'[d].owner = campaign[d].owner
    \/ /\ campaign[d].status \notin {"none", "draft"}
       /\ \E status \in CampaignStatus \ {"none", "draft"} :
             campaign'[d] = [campaign[d] EXCEPT !.status = status]

\* maybe_complete_campaign moves a campaign that is out of its draft, or leaves it alone.
LEMMA MaybeCompletedMove ==
    ASSUME TypeOK, NEW c \in Campaigns, NEW rows,
           campaign' = [campaign EXCEPT ![c] = MaybeCompleted(@, rows)]
    PROVE  \A d \in Campaigns : CampaignMove(d)
<1>1. campaign \in [Campaigns -> Campaign]
  BY DEF TypeOK
<1>2. CASE CompletionDue(campaign[c], rows)
  <2>1. campaign[c].status \notin {"none", "draft"}
    BY <1>2 DEF CompletionDue, TargetReached, ClosedWorkSettled
  <2>2. campaign'[c] = [campaign[c] EXCEPT !.status = "completed"]
    BY <1>1, <1>2 DEF MaybeCompleted
  <2>3. ASSUME NEW d \in Campaigns, d # c PROVE campaign'[d] = campaign[d]
    BY <1>1, <2>3
  <2> QED BY <2>1, <2>2, <2>3 DEF CampaignMove, CampaignStatus
<1>3. CASE ~CompletionDue(campaign[c], rows)
  BY <1>1, <1>3 DEF MaybeCompleted, CampaignMove
<1> QED BY <1>2, <1>3

\* Pausing, resuming and publishing write the status of one campaign.
LEMMA StatusMove ==
    ASSUME TypeOK, NEW c \in Campaigns, NEW status \in CampaignStatus \ {"none", "draft"},
           campaign[c].status # "none",
           campaign' = [campaign EXCEPT ![c].status = status]
    PROVE  \A d \in Campaigns : CampaignMove(d)
<1>1. campaign \in [Campaigns -> Campaign]
  BY DEF TypeOK
<1>2. campaign'[c] = [campaign[c] EXCEPT !.status = status]
  BY <1>1
<1>3. campaign[c] \in Campaign
  BY <1>1
<1>4. campaign'[c].owner = campaign[c].owner
  BY <1>2, <1>3 DEF Campaign
<1>5. ASSUME NEW d \in Campaigns, d # c PROVE campaign'[d] = campaign[d]
  BY <1>1, <1>5
<1> QED BY <1>2, <1>4, <1>5 DEF CampaignMove

\* A closed campaign may be completed by the same request.
LEMMA CloseMove ==
    ASSUME TypeOK, NEW u \in Users, NEW c \in Campaigns, CloseCampaign(u, c)
    PROVE  \A d \in Campaigns : CampaignMove(d)
<1> DEFINE closed == [campaign[c] EXCEPT !.status = "cancelled"]
           rows == Closing(assignment[c])
<1>1. campaign \in [Campaigns -> Campaign] /\ campaign[c] \in Campaign
  BY DEF TypeOK
<1>2. campaign' = [campaign EXCEPT ![c] = MaybeCompleted(closed, rows)]
  BY DEF CloseCampaign
<1>3. \/ campaign'[c] = [campaign[c] EXCEPT !.status = "cancelled"]
      \/ campaign'[c] = [campaign[c] EXCEPT !.status = "completed"]
  BY <1>1, <1>2 DEF MaybeCompleted, Campaign
<1>4. ASSUME NEW d \in Campaigns, d # c PROVE campaign'[d] = campaign[d]
  BY <1>1, <1>2, <1>4
<1>5. campaign[c].status \notin {"none", "draft"}
  BY DEF CloseCampaign
<1> QED BY <1>3, <1>4, <1>5 DEF CampaignMove, CampaignStatus

\* A draft is created with its owner, and edited under it.
LEMMA DraftMove ==
    ASSUME TypeOK, NEW u \in Users, NEW c \in Campaigns, NEW target \in Targets,
           NEW reward \in Rewards,
           \/ CreateCampaign(u, c, target, reward)
           \/ UpdateCampaign(u, c, target, reward)
           \/ \E terms \in Terms : LaunchCampaign(u, c, target, reward, terms)
    PROVE  \A d \in Campaigns : CampaignMove(d)
<1>1. campaign \in [Campaigns -> Campaign] /\ campaign[c] \in Campaign
  BY DEF TypeOK
<1>2. CASE CreateCampaign(u, c, target, reward)
  BY <1>1, <1>2 DEF CreateCampaign, DraftRow, CampaignMove
<1>3. CASE UpdateCampaign(u, c, target, reward)
  <2>1. campaign'[c] = [campaign[c] EXCEPT !.target = target, !.reward = reward]
    BY <1>1, <1>3 DEF UpdateCampaign
  <2>2. campaign'[c].owner = campaign[c].owner
    BY <1>1, <2>1 DEF Campaign
  <2>3. ASSUME NEW d \in Campaigns, d # c PROVE campaign'[d] = campaign[d]
    BY <1>1, <1>3, <2>3 DEF UpdateCampaign
  <2> QED BY <1>3, <2>2, <2>3 DEF CampaignMove, UpdateCampaign
<1>4. CASE \E terms \in Terms : LaunchCampaign(u, c, target, reward, terms)
  BY <1>1, <1>4 DEF LaunchCampaign, DraftRow, CampaignMove
<1> QED BY <1>2, <1>3, <1>4

\* Every step moves every campaign in one of those ways.
LEMMA CampaignStep ==
    ASSUME TypeOK, [Next]_vars
    PROVE  \A d \in Campaigns : CampaignMove(d)
<1>1. ASSUME UNCHANGED campaign PROVE \A d \in Campaigns : CampaignMove(d)
  BY <1>1 DEF CampaignMove
<1>2. ASSUME NEW u \in Users, NEW c \in Campaigns, OwnerStep(u, c)
      PROVE  \A d \in Campaigns : CampaignMove(d)
  <2>1. ASSUME PublishCampaign(u, c) \/ PauseCampaign(u, c) \/ ResumeCampaign(u, c)
        PROVE  \A d \in Campaigns : CampaignMove(d)
    <3>1. campaign[c].status # "none"
      BY <2>1 DEF PublishCampaign, PauseCampaign, ResumeCampaign
    <3>2. \E status \in {"published", "paused"} :
             campaign' = [campaign EXCEPT ![c].status = status]
      BY <2>1 DEF PublishCampaign, PauseCampaign, ResumeCampaign
    <3> QED BY <3>1, <3>2, StatusMove DEF CampaignStatus
  <2>2. ASSUME NEW t \in Users, NEW v \in DOMAIN submissions[c][t],
               ApproveSubmission(u, c, t, v) \/ RequestChanges(u, c, t, v)
                 \/ RejectSubmission(u, c, t, v)
        PROVE  \A d \in Campaigns : CampaignMove(d)
    BY <1>1, <2>2, MaybeCompletedMove DEF ApproveSubmission, RequestChanges, RejectSubmission
  <2>3. ASSUME NEW t \in Users, AcceptAssignment(u, c, t) \/ DeclineAssignment(u, c, t)
        PROVE  \A d \in Campaigns : CampaignMove(d)
    BY <1>1, <2>3 DEF AcceptAssignment, DeclineAssignment, campaignVars
  <2>4. ASSUME NEW terms \in Terms, UpsertContract(u, c, terms)
        PROVE  \A d \in Campaigns : CampaignMove(d)
    BY <1>1, <2>4 DEF UpsertContract
  <2> QED BY <1>2, <2>1, <2>2, <2>3, <2>4, DraftMove, CloseMove DEF OwnerStep
<1>3. ASSUME NEW t \in Users, NEW c \in Campaigns, TesterStep(t, c)
      PROVE  \A d \in Campaigns : CampaignMove(d)
  <2>1. CASE WithdrawAssignment(t, c)
    BY <2>1, MaybeCompletedMove DEF WithdrawAssignment
  <2>2. CASE ~WithdrawAssignment(t, c)
    BY <1>1, <1>3, <2>2 DEF TesterStep, ApplyToCampaign, StartAssignment, RecordTestingSession,
                            CreateSubmission, OpenDispute, campaignVars
  <2> QED BY <2>1, <2>2
<1>4. ASSUME NEW m \in Moderators, NEW c \in Campaigns, NEW t \in Users, ModeratorStep(m, c, t)
      PROVE  \A d \in Campaigns : CampaignMove(d)
  BY <1>1, <1>4, MaybeCompletedMove
     DEF ModeratorStep, ClaimDispute, RejectOverdueWork, CloseWithoutAward, AwardTester, campaignVars
<1>5. ASSUME NEW m \in Moderators, NEW u \in Users,
             SuspendParticipant(m, u) \/ RestoreParticipant(m, u)
      PROVE  \A d \in Campaigns : CampaignMove(d)
  BY <1>1, <1>5 DEF SuspendParticipant, RestoreParticipant, campaignVars
<1>6. CASE Tick \/ UNCHANGED vars
  BY <1>1, <1>6 DEF Tick, vars, campaignVars
<1> QED BY <1>2, <1>3, <1>4, <1>5, <1>6 DEF Next

\* An assignment is applied for in a published campaign, and never disappears; a dispute is about
\* an assignment that exists.
RowMove(d, t) ==
    /\ Row(d, t).status = "none" /\ assignment'[d][t].status # "none" =>
         campaign[d].status = "published"
    /\ Row(d, t).status # "none" => assignment'[d][t].status # "none"
    /\ dispute[d][t].status = "none" /\ dispute'[d][t].status # "none" =>
         Row(d, t).status # "none"

\* A request that writes one existing assignment and leaves the disputes alone.
LEMMA PutMove ==
    ASSUME TypeOK, NEW c \in Campaigns, NEW t \in Users, NEW row \in Assignment,
           assignment' = Put(assignment, c, t, row), UNCHANGED dispute,
           row.status # "none",
           Row(c, t).status # "none" \/ campaign[c].status = "published"
    PROVE  \A d \in Campaigns, w \in Users : RowMove(d, w)
<1>1. assignment \in [Campaigns -> [Users -> Assignment]]
  BY DEF TypeOK
<1>2. ASSUME NEW d \in Campaigns, NEW w \in Users
      PROVE  assignment'[d][w] = IF d = c /\ w = t THEN row ELSE assignment[d][w]
  BY <1>1 DEF Put
<1> QED BY <1>2 DEF RowMove, Row

\* A request that writes one dispute and, with it or not, its assignment.
LEMMA DisputeMove ==
    ASSUME TypeOK, NEW c \in Campaigns, NEW t \in Users, NEW row \in Dispute,
           dispute' = Put(dispute, c, t, row), Row(c, t).status # "none",
           \/ UNCHANGED assignment
           \/ \E a \in Assignment : a.status # "none" /\ assignment' = Put(assignment, c, t, a)
    PROVE  \A d \in Campaigns, w \in Users : RowMove(d, w)
<1>1. /\ assignment \in [Campaigns -> [Users -> Assignment]]
      /\ dispute \in [Campaigns -> [Users -> Dispute]]
  BY DEF TypeOK
<1>2. ASSUME NEW d \in Campaigns, NEW w \in Users
      PROVE  dispute'[d][w] = IF d = c /\ w = t THEN row ELSE dispute[d][w]
  BY <1>1 DEF Put
<1>3. ASSUME NEW a \in Assignment, a.status # "none", assignment' = Put(assignment, c, t, a),
             NEW d \in Campaigns, NEW w \in Users
      PROVE  assignment'[d][w].status # "none" \/ assignment'[d][w] = assignment[d][w]
  <2>1. assignment'[d][w] = IF d = c /\ w = t THEN a ELSE assignment[d][w]
    BY <1>1, <1>3 DEF Put
  <2> QED BY <1>3, <2>1
<1>4. ASSUME NEW d \in Campaigns, NEW w \in Users
      PROVE  /\ Row(d, w).status # "none" => assignment'[d][w].status # "none"
             /\ Row(d, w).status = "none" => d # c \/ w # t
  BY <1>3 DEF Row
<1>5. ASSUME NEW d \in Campaigns, NEW w \in Users, d # c \/ w # t
      PROVE  assignment'[d][w] = assignment[d][w] /\ dispute'[d][w] = dispute[d][w]
  <2>1. ASSUME NEW a \in Assignment, assignment' = Put(assignment, c, t, a)
        PROVE  assignment'[d][w] = assignment[d][w]
    BY <1>1, <1>5, <2>1 DEF Put
  <2> QED BY <1>2, <1>5, <2>1
<1> QED BY <1>4, <1>5 DEF RowMove, Row

\* Closing cancels applications, and touches no other assignment.
LEMMA CloseRowMove ==
    ASSUME TypeOK, NEW u \in Users, NEW c \in Campaigns, CloseCampaign(u, c)
    PROVE  \A d \in Campaigns, w \in Users : RowMove(d, w)
<1>1. /\ assignment \in [Campaigns -> [Users -> Assignment]]
      /\ assignment' = [assignment EXCEPT ![c] = Closing(assignment[c])]
      /\ UNCHANGED dispute
  BY DEF TypeOK, CloseCampaign, unchangedByOwner
<1>2. ASSUME NEW d \in Campaigns, NEW w \in Users, d # c
      PROVE  assignment'[d][w] = assignment[d][w]
  <2>1. assignment'[d] = assignment[d]
    BY <1>1, <1>2
  <2> QED BY <2>1
<1>3. ASSUME NEW w \in Users
      PROVE  \/ assignment'[c][w] = assignment[c][w]
             \/ assignment[c][w].status = "applied" /\ assignment'[c][w].status = "cancelled"
  <2>1. assignment'[c][w] = Closing(assignment[c])[w]
    BY <1>1
  <2>2. assignment[c][w] \in Assignment
    BY <1>1
  <2>3. Cancelled(assignment[c][w]).status = "cancelled"
    BY <2>2 DEF Cancelled, Assignment
  <2> QED BY <2>1, <2>3 DEF Closing, Pending
<1> QED BY <1>1, <1>2, <1>3 DEF RowMove, Row

\* The rows that requests write: their status is never "none".
LEMMA WrittenRows ==
    ASSUME NEW row \in Assignment
    PROVE  /\ \A status \in AssignmentStatus :
                 /\ [row EXCEPT !.status = status] \in Assignment
                 /\ [row EXCEPT !.status = status].status = status
           /\ Cancelled(row) \in Assignment /\ Cancelled(row).status = "cancelled"
           /\ ApprovedRow(row) \in Assignment /\ ApprovedRow(row).status = "approved"
           /\ LET new == [row EXCEPT !.status = "accepted", !.accepted_at = TRUE]
              IN  new \in Assignment /\ new.status = "accepted"
           /\ LET new == [row EXCEPT !.status = "rejected", !.completed_at = TRUE]
              IN  new \in Assignment /\ new.status = "rejected"
           /\ \A at \in Nat :
                 LET new == [row EXCEPT !.status = "in_progress", !.started_at = at]
                 IN  new \in Assignment /\ new.status = "in_progress"
BY DEF Assignment, AssignmentStatus, Cancelled, ApprovedRow

\* Every step moves every assignment and its dispute in that way.
LEMMA RowStep ==
    ASSUME TypeOK, References, [Next]_vars
    PROVE  \A d \in Campaigns, w \in Users : RowMove(d, w)
<1>1. ASSUME UNCHANGED <<assignment, dispute>>
      PROVE  \A d \in Campaigns, w \in Users : RowMove(d, w)
  BY <1>1 DEF RowMove, Row
<1>2. ASSUME NEW c \in Campaigns, NEW t \in Users
      PROVE  Row(c, t) \in Assignment /\ dispute[c][t] \in Dispute /\ now \in Nat
  BY DEF TypeOK, Row
<1>3. ASSUME NEW u \in Users, NEW c \in Campaigns, OwnerStep(u, c)
      PROVE  \A d \in Campaigns, w \in Users : RowMove(d, w)
  <2>1. ASSUME NEW t \in Users, NEW v \in DOMAIN submissions[c][t],
               ApproveSubmission(u, c, t, v) \/ RequestChanges(u, c, t, v)
                 \/ RejectSubmission(u, c, t, v)
        PROVE  \A d \in Campaigns, w \in Users : RowMove(d, w)
    <3>1. Row(c, t).status = "submitted" /\ UNCHANGED dispute
      BY <2>1 DEF ApproveSubmission, RequestChanges, RejectSubmission, Reviewable, Reviewed
    <3>2. \E row \in Assignment : row.status # "none" /\ assignment' = Put(assignment, c, t, row)
      BY <1>2, <2>1, WrittenRows
         DEF ApproveSubmission, RequestChanges, RejectSubmission, SetStatus, AssignmentStatus
    <3> QED BY <3>1, <3>2, PutMove
  <2>2. ASSUME NEW t \in Users, AcceptAssignment(u, c, t) \/ DeclineAssignment(u, c, t)
        PROVE  \A d \in Campaigns, w \in Users : RowMove(d, w)
    <3>1. Row(c, t).status = "applied" /\ UNCHANGED dispute
      BY <2>2 DEF AcceptAssignment, DeclineAssignment, unchangedByOwner
    <3>2. \E row \in Assignment : row.status # "none" /\ assignment' = Put(assignment, c, t, row)
      BY <1>2, <2>2, WrittenRows DEF AcceptAssignment, DeclineAssignment
    <3> QED BY <3>1, <3>2, PutMove
  <2>3. ASSUME \/ PublishCampaign(u, c) \/ PauseCampaign(u, c) \/ ResumeCampaign(u, c)
               \/ \E terms \in Terms : UpsertContract(u, c, terms)
        PROVE  UNCHANGED <<assignment, dispute>>
    BY <2>3 DEF PublishCampaign, PauseCampaign, ResumeCampaign, UpsertContract, unchangedByOwner
  <2>4. ASSUME NEW target \in Targets, NEW reward \in Rewards,
               \/ CreateCampaign(u, c, target, reward)
               \/ UpdateCampaign(u, c, target, reward)
               \/ \E terms \in Terms : LaunchCampaign(u, c, target, reward, terms)
        PROVE  UNCHANGED <<assignment, dispute>>
    BY <2>4 DEF CreateCampaign, UpdateCampaign, LaunchCampaign, unchangedByOwner
  <2> QED BY <1>1, <1>3, <2>1, <2>2, <2>3, <2>4, CloseRowMove DEF OwnerStep
<1>4. ASSUME NEW t \in Users, NEW c \in Campaigns, TesterStep(t, c)
      PROVE  \A d \in Campaigns, w \in Users : RowMove(d, w)
  <2>1. ASSUME ApplyToCampaign(t, c) \/ WithdrawAssignment(t, c) \/ StartAssignment(t, c)
                 \/ CreateSubmission(t, c)
        PROVE  \A d \in Campaigns, w \in Users : RowMove(d, w)
    <3>1. /\ Row(c, t).status # "none" \/ campaign[c].status = "published"
          /\ UNCHANGED dispute
      BY <2>1 DEF ApplyToCampaign, WithdrawAssignment, StartAssignment, CreateSubmission, Testing,
                  Withdrawable, unchangedByOwner
    <3>2. \E row \in Assignment : row.status # "none" /\ assignment' = Put(assignment, c, t, row)
      BY <1>2, <2>1, WrittenRows DEF ApplyToCampaign, WithdrawAssignment, StartAssignment,
                                     CreateSubmission, SetStatus, AssignmentStatus
    <3> QED BY <3>1, <3>2, PutMove
  <2>2. ASSUME RecordTestingSession(t, c) PROVE UNCHANGED <<assignment, dispute>>
    BY <2>2 DEF RecordTestingSession
  <2>3. ASSUME NEW v \in DOMAIN submissions[c][t], OpenDispute(t, c, v)
        PROVE  \A d \in Campaigns, w \in Users : RowMove(d, w)
    <3>1. ASSUME NEW row \in Dispute
          PROVE  [row EXCEPT !.status = "open", !.version = v] \in Dispute
      BY VersionType DEF Dispute, DisputeStatus
    <3>2. Row(c, t).status # "none" /\ UNCHANGED assignment
      BY <2>3 DEF OpenDispute, Escalatable, workVars
    <3> QED BY <1>2, <2>3, <3>1, <3>2, DisputeMove DEF OpenDispute
  <2> QED BY <1>1, <1>4, <2>1, <2>2, <2>3 DEF TesterStep
<1>5. ASSUME NEW m \in Moderators, NEW c \in Campaigns, NEW t \in Users, ModeratorStep(m, c, t)
      PROVE  \A d \in Campaigns, w \in Users : RowMove(d, w)
  <2>1. dispute[c][t].status # "none"
    BY <1>5 DEF ModeratorStep, ClaimDispute, RejectOverdueWork, CloseWithoutAward, AwardTester,
                Resolvable
  <2>2. Row(c, t).status # "none"
    BY <2>1 DEF References
  <2>3. \E row \in Dispute : dispute' = Put(dispute, c, t, row)
    <3>1. ASSUME NEW row \in Dispute, NEW outcome \in {"resolved", "rejected"},
                 NEW remedy \in {"none", "award_tester"}
          PROVE  /\ [row EXCEPT !.status = "under_review", !.assigned_to = m] \in Dispute
                 /\ [row EXCEPT !.status = outcome, !.remedy = remedy] \in Dispute
      BY UsersAssumption DEF Dispute, DisputeStatus, Remedy
    <3> QED BY <1>2, <1>5, <3>1 DEF ModeratorStep, ClaimDispute, RejectOverdueWork,
                                    CloseWithoutAward, AwardTester, Resolved
  <2>4. \/ UNCHANGED assignment
        \/ \E a \in Assignment : a.status # "none" /\ assignment' = Put(assignment, c, t, a)
    BY <1>2, <1>5, WrittenRows DEF ModeratorStep, ClaimDispute, RejectOverdueWork,
                                   CloseWithoutAward, AwardTester, workVars
  <2> QED BY <2>2, <2>3, <2>4, DisputeMove
<1>6. ASSUME \/ Tick \/ UNCHANGED vars
             \/ \E m \in Moderators, u \in Users : SuspendParticipant(m, u) \/ RestoreParticipant(m, u)
      PROVE  UNCHANGED <<assignment, dispute>>
  BY <1>6 DEF Tick, vars, SuspendParticipant, RestoreParticipant, workVars
<1> QED BY <1>1, <1>3, <1>4, <1>5, <1>6 DEF Next

\* Every step preserves the references between the tables.
LEMMA ReferencesStep ==
    ASSUME TypeOK, References, [Next]_vars
    PROVE  References'
<1>1. ASSUME NEW d \in Campaigns
      PROVE  /\ campaign'[d].status # "none" => campaign'[d].owner \in Users
             /\ campaign[d].status \notin {"none", "draft"} =>
                  campaign'[d].status \notin {"none", "draft"}
  <2>1. CampaignMove(d)
    BY CampaignStep
  <2>2. campaign[d] \in Campaign
    BY DEF TypeOK
  <2> QED BY <2>1, <2>2 DEF CampaignMove, References, Campaign
<1>2. ASSUME NEW d \in Campaigns, NEW t \in Users PROVE RowMove(d, t)
  BY RowStep
<1> QED BY <1>1, <1>2 DEF RowMove, References, Row

-----------------------------------------------------------------------------
\* The signup grants are ledger entries of their accounts.
LEMMA SignupEntriesType == SignupEntries \subseteq LedgerEntry
<1>1. ASSUME NEW u \in Users
      PROVE  [key |-> <<"signup_grant", u>>, user |-> u, delta |-> SignupGrant] \in LedgerEntry
  BY BoundAssumption DEF LedgerEntry, LedgerKey
<1> QED BY <1>1 DEF SignupEntries

\* The initial database is well typed, and empty but for the signup grants.
LEMMA InitType == Init => TypeOK /\ References
<1> SUFFICES ASSUME Init PROVE TypeOK /\ References
  OBVIOUS
<1>1. /\ NoCampaign \in Campaign
      /\ NoContract \in Contract
      /\ NoAssignment \in Assignment
      /\ NoDispute \in Dispute
  BY DEF NoCampaign, Campaign, CampaignStatus, NoContract, Contract, ContractStatus, NoTerms, AnyTerms,
         NoAssignment, Assignment, AssignmentStatus, NoDispute, Dispute, DisputeStatus, Remedy
<1>2. << >> \in Seq(Submission)
  OBVIOUS
<1>3. TypeOK
  BY <1>1, <1>2, SignupEntriesType, BoundAssumption DEF Init, TypeOK
<1>4. References
  BY DEF Init, References, Row, NoCampaign, NoAssignment, NoDispute
<1> QED BY <1>3, <1>4

\* Every row of the database stays well typed, no balance is ever negative, and no row refers to
\* one that does not exist: whatever requests are served, in whatever order.
THEOREM TypeCorrect == Spec => [](TypeOK /\ References)
<1>1. TypeOK /\ References /\ [Next]_vars => (TypeOK /\ References)'
  BY TypeStep, ReferencesStep
<1> QED BY InitType, <1>1, PTL DEF Spec

\* The references alone, as the runs check them: no request writes a row before the one it refers
\* to (apply_to_campaign, open_dispute).
THEOREM ReferencesTheorem == Spec => []References
<1>1. TypeOK /\ References => References
  OBVIOUS
<1> QED BY <1>1, TypeCorrect, PTL

-----------------------------------------------------------------------------
(* What is promised is kept *)

Drafted(c) == campaign[c].status \in {"none", "draft"}

\* The contract of a campaign that is out of its draft is not written.
LEMMA ContractStep ==
    ASSUME TypeOK, [Next]_vars, NEW d \in Campaigns, ~Drafted(d)
    PROVE  contract'[d] = contract[d]
<1>1. contract \in [Campaigns -> Contract]
  BY DEF TypeOK
<1>2. ASSUME NEW u \in Users, NEW c \in Campaigns, OwnerStep(u, c)
      PROVE  contract'[d] = contract[d]
  <2>1. ASSUME NEW target \in Targets, NEW reward \in Rewards,
               \/ CreateCampaign(u, c, target, reward)
               \/ UpdateCampaign(u, c, target, reward)
               \/ \E terms \in Terms : LaunchCampaign(u, c, target, reward, terms)
        PROVE  contract'[d] = contract[d]
    BY <1>1, <2>1 DEF CreateCampaign, UpdateCampaign, LaunchCampaign, Drafted
  <2>2. ASSUME PublishCampaign(u, c) \/ \E terms \in Terms : UpsertContract(u, c, terms)
        PROVE  contract'[d] = contract[d]
    BY <1>1, <2>2 DEF PublishCampaign, UpsertContract, Drafted
  <2>3. ASSUME PauseCampaign(u, c) \/ ResumeCampaign(u, c) \/ CloseCampaign(u, c)
        PROVE  contract'[d] = contract[d]
    BY <2>3 DEF PauseCampaign, ResumeCampaign, CloseCampaign
  <2>4. ASSUME NEW t \in Users, AcceptAssignment(u, c, t) \/ DeclineAssignment(u, c, t)
        PROVE  contract'[d] = contract[d]
    BY <2>4 DEF AcceptAssignment, DeclineAssignment, campaignVars
  <2>5. ASSUME NEW t \in Users, NEW v \in DOMAIN submissions[c][t],
               ApproveSubmission(u, c, t, v) \/ RequestChanges(u, c, t, v)
                 \/ RejectSubmission(u, c, t, v)
        PROVE  contract'[d] = contract[d]
    BY <2>5 DEF ApproveSubmission, RequestChanges, RejectSubmission, Reviewed
  <2> QED BY <1>2, <2>1, <2>2, <2>3, <2>4, <2>5 DEF OwnerStep
<1>3. ASSUME NEW t \in Users, NEW c \in Campaigns, TesterStep(t, c)
      PROVE  UNCHANGED contract
  BY <1>3 DEF TesterStep, ApplyToCampaign, WithdrawAssignment, StartAssignment,
              RecordTestingSession, CreateSubmission, OpenDispute, campaignVars
<1>4. ASSUME NEW m \in Moderators, NEW c \in Campaigns, NEW t \in Users, ModeratorStep(m, c, t)
      PROVE  UNCHANGED contract
  BY <1>4 DEF ModeratorStep, ClaimDispute, RejectOverdueWork, CloseWithoutAward, AwardTester,
              Resolved, campaignVars
<1>5. ASSUME \/ Tick \/ UNCHANGED vars
             \/ \E m \in Moderators, u \in Users : SuspendParticipant(m, u) \/ RestoreParticipant(m, u)
      PROVE  UNCHANGED contract
  BY <1>5 DEF Tick, vars, SuspendParticipant, RestoreParticipant, campaignVars
<1> QED BY <1>2, <1>3, <1>4, <1>5 DEF Next

\* A campaign that is out of its draft keeps everything but its status.
LEMMA OfferStep ==
    ASSUME TypeOK, [Next]_vars, NEW d \in Campaigns, ~Drafted(d)
    PROVE  /\ campaign'[d] = [campaign[d] EXCEPT !.status = campaign'[d].status]
           /\ campaign'[d].status \notin {"none", "draft"}
<1>1. campaign[d] \in Campaign
  BY DEF TypeOK
<1>2. CampaignMove(d)
  BY CampaignStep
<1>3. CASE campaign'[d] = campaign[d]
  BY <1>1, <1>3 DEF Campaign, Drafted
<1>4. ASSUME NEW status \in CampaignStatus \ {"none", "draft"},
             campaign'[d] = [campaign[d] EXCEPT !.status = status]
      PROVE  campaign'[d] = [campaign[d] EXCEPT !.status = campaign'[d].status]
               /\ campaign'[d].status \notin {"none", "draft"}
  <2>1. campaign'[d].status = status
    BY <1>1, <1>4 DEF Campaign
  <2> QED BY <1>4, <2>1
<1> QED BY <1>2, <1>3, <1>4 DEF CampaignMove, Drafted

\* Once published, neither the price nor the seats nor the contract of a campaign change
\* (update_campaign and upsert_contract refuse it), provided each request is atomic.
THEOREM PromiseTheorem == Spec => PromiseKept
<1>1. TypeOK /\ [Next]_vars =>
        [\A c \in Campaigns :
           campaign[c].status \notin {"none", "draft"} =>
              /\ campaign'[c] = [campaign[c] EXCEPT !.status = campaign'[c].status]
              /\ contract'[c] = contract[c]]_vars
  BY ContractStep, OfferStep DEF Drafted
<1>2. Spec => []TypeOK
  BY TypeCorrect, PTL
<1> QED BY <1>1, <1>2, PTL DEF Spec, PromiseKept

-----------------------------------------------------------------------------
(* Every step is a move of the lifecycle, or an approval that pays *)

\* The moves that the backend guide documents, the approval apart.
MovesTo(from, to) ==
    \/ to = from
    \/ from = "none" /\ to = "applied"
    \/ from = "applied" /\ to \in {"accepted", "cancelled"}
    \/ from = "accepted" /\ to \in {"in_progress", "cancelled"}
    \/ from \in {"in_progress", "changes_requested"} /\ to \in {"submitted", "cancelled"}
    \/ from = "submitted" /\ to \in {"changes_requested", "rejected"}

Moved(d, w) == MovesTo(Row(d, w).status, assignment'[d][w].status)

\* The request posts the cost of a campaign: publish_campaign or launch_campaign.
Publishes(u, c) ==
    \/ PublishCampaign(u, c)
    \/ \E target \in Targets, reward \in Rewards, terms \in Terms :
          LaunchCampaign(u, c, target, reward, terms)

\* The request approves an assignment: create_review or resolve_dispute.
Approves(c, t) ==
    /\ Row(c, t).status \in {"submitted", "rejected"}
    /\ PayReward(c, t)
    /\ assignment' = Put(assignment, c, t, ApprovedRow(Row(c, t)))
    /\ campaign' = [campaign EXCEPT ![c] = MaybeCompleted(@, assignment'[c])]
    /\ UNCHANGED contract

\* A request that writes one assignment moves it alone.
LEMMA PutMoved ==
    ASSUME TypeOK, NEW c \in Campaigns, NEW t \in Users, NEW row \in Assignment,
           assignment' = Put(assignment, c, t, row), MovesTo(Row(c, t).status, row.status)
    PROVE  \A d \in Campaigns, w \in Users : Moved(d, w)
<1>1. assignment \in [Campaigns -> [Users -> Assignment]]
  BY DEF TypeOK
<1>2. ASSUME NEW d \in Campaigns, NEW w \in Users
      PROVE  assignment'[d][w] = IF d = c /\ w = t THEN row ELSE assignment[d][w]
  BY <1>1 DEF Put
<1> QED BY <1>2 DEF Moved, MovesTo, Row

\* Closing a campaign cancels the applications, and moves no other assignment.
LEMMA CloseMoved ==
    ASSUME TypeOK, NEW u \in Users, NEW c \in Campaigns, CloseCampaign(u, c)
    PROVE  \A d \in Campaigns, w \in Users : Moved(d, w)
<1>1. /\ assignment \in [Campaigns -> [Users -> Assignment]]
      /\ assignment' = [assignment EXCEPT ![c] = Closing(assignment[c])]
  BY DEF TypeOK, CloseCampaign
<1>2. ASSUME NEW d \in Campaigns, NEW w \in Users, d # c
      PROVE  assignment'[d][w] = assignment[d][w]
  <2>1. assignment'[d] = assignment[d]
    BY <1>1, <1>2
  <2> QED BY <2>1
<1>3. ASSUME NEW w \in Users
      PROVE  \/ assignment'[c][w] = assignment[c][w]
             \/ assignment[c][w].status = "applied" /\ assignment'[c][w].status = "cancelled"
  <2>1. assignment'[c][w] = Closing(assignment[c])[w]
    BY <1>1
  <2>2. assignment[c][w] \in Assignment
    BY <1>1
  <2>3. Cancelled(assignment[c][w]).status = "cancelled"
    BY <2>2 DEF Cancelled, Assignment
  <2> QED BY <2>1, <2>3 DEF Closing, Pending
<1> QED BY <1>2, <1>3 DEF Moved, MovesTo, Row

\* What an owner's request does to the ledger and to the assignments.
LEMMA OwnerWork ==
    ASSUME TypeOK, NEW u \in Users, NEW c \in Campaigns, OwnerStep(u, c)
    PROVE  \/ Publishes(u, c) /\ UNCHANGED assignment
           \/ UNCHANGED ledger /\ \A d \in Campaigns, w \in Users : Moved(d, w)
           \/ \E t \in Users : Approves(c, t)
<1> DEFINE Quiet == UNCHANGED ledger /\ \A d \in Campaigns, w \in Users : Moved(d, w)
<1>1. ASSUME UNCHANGED <<ledger, assignment>> PROVE Quiet
  BY <1>1 DEF Moved, MovesTo, Row
<1>2. ASSUME NEW t \in Users PROVE Row(c, t) \in Assignment
  BY RowType
<1>3. ASSUME Publishes(u, c) PROVE UNCHANGED assignment
  BY <1>3 DEF Publishes, PublishCampaign, LaunchCampaign
<1>4. ASSUME \/ PauseCampaign(u, c) \/ ResumeCampaign(u, c)
             \/ \E terms \in Terms : UpsertContract(u, c, terms)
      PROVE  Quiet
  BY <1>1, <1>4 DEF PauseCampaign, ResumeCampaign, UpsertContract, creditVars
<1>5. ASSUME NEW target \in Targets, NEW reward \in Rewards,
             CreateCampaign(u, c, target, reward) \/ UpdateCampaign(u, c, target, reward)
      PROVE  Quiet
  BY <1>1, <1>5 DEF CreateCampaign, UpdateCampaign, creditVars
<1>6. ASSUME CloseCampaign(u, c) PROVE Quiet
  BY <1>6, CloseMoved DEF CloseCampaign, creditVars
<1>7. ASSUME NEW t \in Users, AcceptAssignment(u, c, t) \/ DeclineAssignment(u, c, t)
      PROVE  Quiet
  <2>1. UNCHANGED ledger /\ Row(c, t).status = "applied"
    BY <1>7 DEF AcceptAssignment, DeclineAssignment, creditVars
  <2>2. \E row \in Assignment : /\ row.status \in {"accepted", "cancelled"}
                                /\ assignment' = Put(assignment, c, t, row)
    BY <1>2, <1>7, WrittenRows DEF AcceptAssignment, DeclineAssignment
  <2> QED BY <2>1, <2>2, PutMoved DEF MovesTo
<1>8. ASSUME NEW t \in Users, NEW v \in DOMAIN submissions[c][t],
             RequestChanges(u, c, t, v) \/ RejectSubmission(u, c, t, v)
      PROVE  Quiet
  <2>1. UNCHANGED ledger /\ Row(c, t).status = "submitted"
    BY <1>8 DEF RequestChanges, RejectSubmission, Reviewable, creditVars
  <2>2. \E row \in Assignment : /\ row.status \in {"changes_requested", "rejected"}
                                /\ assignment' = Put(assignment, c, t, row)
    <3>1. PICK status \in {"changes_requested", "rejected"} : assignment' = SetStatus(c, t, status)
      BY <1>8 DEF RequestChanges, RejectSubmission
    <3> DEFINE row == [Row(c, t) EXCEPT !.status = status]
    <3>2. row \in Assignment /\ row.status = status
      BY <1>2 DEF Assignment, AssignmentStatus
    <3>3. assignment' = Put(assignment, c, t, row)
      BY <3>1 DEF SetStatus
    <3> HIDE DEF row
    <3> QED BY <3>2, <3>3
  <2> QED BY <2>1, <2>2, PutMoved DEF MovesTo
<1>9. ASSUME NEW t \in Users, NEW v \in DOMAIN submissions[c][t], ApproveSubmission(u, c, t, v)
      PROVE  Approves(c, t)
  BY <1>9 DEF ApproveSubmission, Reviewable, Reviewed, Approves
<1> QED BY <1>3, <1>4, <1>5, <1>6, <1>7, <1>8, <1>9 DEF OwnerStep, Publishes

\* A tester's request posts nothing and moves at most the tester's own assignment.
LEMMA TesterWork ==
    ASSUME TypeOK, NEW t \in Users, NEW c \in Campaigns, TesterStep(t, c)
    PROVE  UNCHANGED ledger /\ \A d \in Campaigns, w \in Users : Moved(d, w)
<1>1. UNCHANGED ledger
  BY DEF TesterStep, ApplyToCampaign, WithdrawAssignment, StartAssignment, RecordTestingSession,
         CreateSubmission, OpenDispute, creditVars
<1>2. Row(c, t) \in Assignment /\ now \in Nat
  BY RowType DEF TypeOK
<1>3. CASE ApplyToCampaign(t, c)
  <2>1. Row(c, t).status = "none"
    BY <1>3 DEF ApplyToCampaign
  <2>2. \E row \in Assignment : row.status = "applied" /\ assignment' = Put(assignment, c, t, row)
    BY <1>2, <1>3, WrittenRows DEF ApplyToCampaign, SetStatus, AssignmentStatus
  <2> QED BY <1>1, <2>1, <2>2, PutMoved DEF MovesTo
<1>4. CASE WithdrawAssignment(t, c)
  <2>1. Row(c, t).status \in {"applied", "accepted", "in_progress", "changes_requested"}
    BY <1>4 DEF WithdrawAssignment, Withdrawable
  <2>2. \E row \in Assignment : row.status = "cancelled" /\ assignment' = Put(assignment, c, t, row)
    BY <1>2, <1>4, WrittenRows DEF WithdrawAssignment
  <2> QED BY <1>1, <2>1, <2>2, PutMoved DEF MovesTo
<1>5. CASE StartAssignment(t, c)
  <2>1. Row(c, t).status = "accepted"
    BY <1>5 DEF StartAssignment
  <2>2. \E row \in Assignment : row.status = "in_progress" /\ assignment' = Put(assignment, c, t, row)
    BY <1>2, <1>5, WrittenRows DEF StartAssignment
  <2> QED BY <1>1, <2>1, <2>2, PutMoved DEF MovesTo
<1>6. CASE CreateSubmission(t, c)
  <2>1. Row(c, t).status \in {"in_progress", "changes_requested"}
    BY <1>6 DEF CreateSubmission, Testing
  <2>2. \E row \in Assignment : row.status = "submitted" /\ assignment' = Put(assignment, c, t, row)
    BY <1>2, <1>6, WrittenRows DEF CreateSubmission, SetStatus, AssignmentStatus
  <2> QED BY <1>1, <2>1, <2>2, PutMoved DEF MovesTo
<1>7. CASE RecordTestingSession(t, c) \/ \E v \in DOMAIN submissions[c][t] : OpenDispute(t, c, v)
  <2>1. UNCHANGED assignment
    BY <1>7 DEF RecordTestingSession, OpenDispute, workVars
  <2> QED BY <1>1, <2>1 DEF Moved, MovesTo, Row
<1> QED BY <1>3, <1>4, <1>5, <1>6, <1>7 DEF TesterStep

\* A moderator's decision approves the work, or posts nothing and moves at most that work.
LEMMA ModeratorWork ==
    ASSUME TypeOK, NEW m \in Moderators, NEW c \in Campaigns, NEW t \in Users,
           ModeratorStep(m, c, t)
    PROVE  \/ UNCHANGED ledger /\ \A d \in Campaigns, w \in Users : Moved(d, w)
           \/ Approves(c, t)
<1>1. CASE AwardTester(m, c, t)
  BY <1>1 DEF AwardTester, Resolved, Approves
<1>2. CASE RejectOverdueWork(m, c, t)
  <2>1. UNCHANGED ledger /\ Row(c, t).status = "submitted"
    BY <1>2 DEF RejectOverdueWork, creditVars
  <2>2. \E row \in Assignment : row.status = "rejected" /\ assignment' = Put(assignment, c, t, row)
    BY <1>2, RowType, WrittenRows DEF RejectOverdueWork
  <2> QED BY <2>1, <2>2, PutMoved DEF MovesTo
<1>3. CASE \/ ClaimDispute(m, c, t)
           \/ \E outcome \in {"resolved", "rejected"} : CloseWithoutAward(m, c, t, outcome)
  <2>1. UNCHANGED <<ledger, assignment>>
    BY <1>3 DEF ClaimDispute, CloseWithoutAward, creditVars, workVars
  <2> QED BY <2>1 DEF Moved, MovesTo, Row
<1> QED BY <1>1, <1>2, <1>3 DEF ModeratorStep

\* The three kinds of step, whoever takes it.
LEMMA WorkStep ==
    ASSUME TypeOK, [Next]_vars
    PROVE  \/ UNCHANGED assignment /\ \E u \in Users, c \in Campaigns : Publishes(u, c)
           \/ UNCHANGED ledger /\ \A d \in Campaigns, w \in Users : Moved(d, w)
           \/ \E c \in Campaigns, t \in Users : Approves(c, t)
<1>1. ASSUME \/ Tick \/ UNCHANGED vars
             \/ \E m \in Moderators, u \in Users : SuspendParticipant(m, u) \/ RestoreParticipant(m, u)
      PROVE  UNCHANGED <<ledger, assignment>>
  BY <1>1 DEF Tick, vars, SuspendParticipant, RestoreParticipant, workVars, creditVars
<1>2. ASSUME UNCHANGED <<ledger, assignment>>
      PROVE  UNCHANGED ledger /\ \A d \in Campaigns, w \in Users : Moved(d, w)
  BY <1>2 DEF Moved, MovesTo, Row
<1> QED BY <1>1, <1>2, OwnerWork, TesterWork, ModeratorWork DEF Next

-----------------------------------------------------------------------------
(* The reward *)

\* One entry more in the ledger, under a key that had none.
Enters(key, user, delta) ==
    /\ ~Posted(key)
    /\ ledger' = ledger \cup {[key |-> key, user |-> user, delta |-> delta]}

\* A posting enters the ledger or, posted already, leaves it as it is.
LEMMA PublishesEnters ==
    ASSUME NEW u \in Users, NEW c \in Campaigns, Publishes(u, c)
    PROVE  \/ UNCHANGED ledger
           \/ \E x \in Campaigns, w \in Users : \E delta : Enters(PostingKey(x), w, delta)
<1>1. ASSUME NEW delta, RecordCreditEntry(u, delta, PostingKey(c))
      PROVE  UNCHANGED ledger \/ Enters(PostingKey(c), u, delta)
  BY <1>1 DEF RecordCreditEntry, Booked, Enters, creditVars
<1> QED BY <1>1 DEF Publishes, PublishCampaign, LaunchCampaign

\* What is approved is paid, and no key posted twice, whatever the amounts.
PaidOnce ==
    /\ \A e, f \in ledger : e.key = f.key => e = f
    /\ \A c \in Campaigns, t \in Users :
         Row(c, t).status = "approved" <=> Posted(RewardKey(c, t))

\* It follows from the tie between approvals and rewards.
LEMMA RewardIsPaid == RewardIffApproved => PaidOnce
BY DEF RewardIffApproved, PaidOnce, Posted

\* An approval enters the reward of an assignment that has none.
LEMMA ApprovesEnters ==
    ASSUME PaidOnce, NEW c \in Campaigns, NEW t \in Users, Approves(c, t)
    PROVE  Enters(RewardKey(c, t), t, campaign[c].reward)
<1>1. ~Posted(RewardKey(c, t))
  BY DEF PaidOnce, Approves
<1> QED BY <1>1 DEF Approves, PayReward, RecordCreditEntry, Booked, Enters

\* A new key keeps the keys of the ledger unique, and leaves the other entries as they are.
LEMMA EntersUnique ==
    ASSUME PaidOnce, NEW key, NEW user, NEW delta, Enters(key, user, delta)
    PROVE  /\ \A e, f \in ledger' : e.key = f.key => e = f
           /\ \A k : k # key => (Posted(k) <=> Posted(k)')
           /\ Posted(key)'
           /\ [key |-> key, user |-> user, delta |-> delta] \in ledger'
           /\ ledger \subseteq ledger'
<1> DEFINE new == [key |-> key, user |-> user, delta |-> delta]
<1>1. new.key = key
  OBVIOUS
<1>2. ledger' = ledger \cup {new} /\ \A e \in ledger : e.key # key
  BY DEF Enters, Posted
<1>3. \A e, f \in ledger : e.key = f.key => e = f
  BY DEF PaidOnce
<1> HIDE DEF new
<1>4. /\ \A e, f \in ledger' : e.key = f.key => e = f
      /\ new \in ledger' /\ ledger \subseteq ledger'
  BY <1>1, <1>2, <1>3
<1>5. ASSUME NEW k, k # key PROVE Posted(k) <=> Posted(k)'
  BY <1>1, <1>2, <1>5 DEF Posted
<1>6. Posted(key)'
  BY <1>1, <1>4 DEF Posted
<1> QED BY <1>4, <1>5, <1>6 DEF new

\* The keys of postings and rewards are different, and each names its row.
LEMMA KeysDiffer ==
    ASSUME NEW c \in Campaigns, NEW t \in Users, NEW d \in Campaigns, NEW w \in Users
    PROVE  /\ PostingKey(c) # RewardKey(d, w)
           /\ RewardKey(c, t) = RewardKey(d, w) => c = d /\ t = w
           /\ PostingKey(c) = PostingKey(d) => c = d
BY DEF PostingKey, RewardKey

\* The reward shown by a campaign with assignments does not change.
LEMMA RewardKept ==
    ASSUME TypeOK, References, [Next]_vars, NEW d \in Campaigns, NEW w \in Users,
           Row(d, w).status # "none"
    PROVE  campaign'[d].reward = campaign[d].reward
<1>1. ~Drafted(d)
  BY DEF References, Drafted
<1>2. campaign[d] \in Campaign
  BY DEF TypeOK
<1>3. campaign'[d] = [campaign[d] EXCEPT !.status = campaign'[d].status]
  BY <1>1, OfferStep
<1> QED BY <1>2, <1>3 DEF Campaign

\* Every step preserves the tie between approvals and rewards.
LEMMA RewardStep ==
    ASSUME TypeOK, References, RewardIffApproved, [Next]_vars
    PROVE  RewardIffApproved'
<1> DEFINE Reward(d, w) == [key |-> RewardKey(d, w), user |-> w, delta |-> campaign[d].reward]
           Right(d, w) == IF assignment'[d][w].status = "approved"
                          THEN Reward(d, w) \in ledger'
                          ELSE ~Posted(RewardKey(d, w))'
<1>1. SUFFICES /\ \A e, f \in ledger' : e.key = f.key => e = f
               /\ \A d \in Campaigns, w \in Users : Right(d, w)
  <2>1. ASSUME NEW d \in Campaigns, NEW w \in Users, assignment'[d][w].status = "approved"
        PROVE  campaign'[d].reward = campaign[d].reward
    <3>1. Row(d, w).status # "none"
      <4>1. Row(d, w).status \in {"submitted", "rejected", "approved"}
               \/ UNCHANGED <<assignment[d][w]>> \/ Moved(d, w)
        <5>1. ASSUME NEW c \in Campaigns, NEW t \in Users, Approves(c, t), d # c \/ w # t
              PROVE  assignment'[d][w] = assignment[d][w]
          BY <5>1 DEF Approves, Put, TypeOK
        <5> QED BY <5>1, WorkStep DEF Approves
      <4> QED BY <2>1, <4>1 DEF Moved, MovesTo, Row
    <3> QED BY <3>1, RewardKept
  <2> QED BY <2>1 DEF RewardIffApproved, Row, RewardKey
<1>2. ASSUME NEW d \in Campaigns, NEW w \in Users
      PROVE  IF Row(d, w).status = "approved" THEN Reward(d, w) \in ledger
                                              ELSE ~Posted(RewardKey(d, w))
  BY DEF RewardIffApproved
<1>3. \A e, f \in ledger : e.key = f.key => e = f
  BY DEF RewardIffApproved
<1>4. CASE UNCHANGED ledger /\ \A d \in Campaigns, w \in Users : Moved(d, w)
  BY <1>2, <1>3, <1>4 DEF Moved, MovesTo, Posted, RewardKey
<1>5. ASSUME NEW u \in Users, NEW c \in Campaigns, Publishes(u, c), UNCHANGED assignment
      PROVE  /\ \A e, f \in ledger' : e.key = f.key => e = f
             /\ \A d \in Campaigns, w \in Users : Right(d, w)
  <2>1. CASE UNCHANGED ledger
    BY <1>2, <1>3, <1>5, <2>1 DEF Posted, Row, RewardKey
  <2>2. ASSUME NEW x \in Campaigns, NEW y \in Users, NEW delta, Enters(PostingKey(x), y, delta)
        PROVE  /\ \A e, f \in ledger' : e.key = f.key => e = f
               /\ \A d \in Campaigns, w \in Users : Right(d, w)
    <3>1. /\ \A e, f \in ledger' : e.key = f.key => e = f
          /\ \A k : k # PostingKey(x) => (Posted(k) <=> Posted(k)')
          /\ ledger \subseteq ledger'
      BY <2>2, EntersUnique, RewardIsPaid
    <3>2. ASSUME NEW d \in Campaigns, NEW w \in Users PROVE Right(d, w)
      <4>1. Posted(RewardKey(d, w)) <=> Posted(RewardKey(d, w))'
        BY <3>1, KeysDiffer DEF RewardKey
      <4> QED BY <1>2, <1>5, <3>1, <4>1 DEF Row
    <3> QED BY <3>1, <3>2
  <2> QED BY <1>5, <2>1, <2>2, PublishesEnters
<1>6. ASSUME NEW c \in Campaigns, NEW t \in Users, Approves(c, t)
      PROVE  /\ \A e, f \in ledger' : e.key = f.key => e = f
             /\ \A d \in Campaigns, w \in Users : Right(d, w)
  <2>1. Enters(RewardKey(c, t), t, campaign[c].reward)
    BY <1>6, ApprovesEnters, RewardIsPaid
  <2>2. /\ \A e, f \in ledger' : e.key = f.key => e = f
        /\ \A k : k # RewardKey(c, t) => (Posted(k) <=> Posted(k)')
        /\ Reward(c, t) \in ledger'
        /\ ledger \subseteq ledger'
    BY <2>1, EntersUnique, RewardIsPaid
  <2>3. ASSUME NEW d \in Campaigns, NEW w \in Users PROVE Right(d, w)
    <3>1. CASE d = c /\ w = t
      <4>1. assignment'[c][t] = ApprovedRow(Row(c, t))
        BY <1>6 DEF Approves, Put, TypeOK
      <4>2. assignment'[c][t].status = "approved"
        BY <4>1, RowType DEF ApprovedRow, Assignment
      <4> QED BY <2>2, <3>1, <4>2
    <3>2. CASE d # c \/ w # t
      <4>1. assignment'[d][w] = assignment[d][w]
        BY <1>6, <3>2 DEF Approves, Put, TypeOK
      <4>2. RewardKey(d, w) # RewardKey(c, t)
        BY <3>2, KeysDiffer
      <4>3. Posted(RewardKey(d, w)) <=> Posted(RewardKey(d, w))'
        BY <2>2, <4>2 DEF RewardKey
      <4> QED BY <1>2, <2>2, <4>1, <4>3 DEF Row
    <3> QED BY <3>1, <3>2
  <2> QED BY <2>2, <2>3
<1> QED BY <1>4, <1>5, <1>6, WorkStep

\* Nothing is approved at first, and the ledger holds signup grants alone.
LEMMA RewardInit == Init => RewardIffApproved
<1> SUFFICES ASSUME Init PROVE RewardIffApproved
  OBVIOUS
<1>1. ASSUME NEW e \in ledger
      PROVE  \E u \in Users : e = [key |-> <<"signup_grant", u>>, user |-> u, delta |-> SignupGrant]
  BY DEF Init, SignupEntries
<1>2. ASSUME NEW e \in ledger, NEW f \in ledger, e.key = f.key PROVE e = f
  BY <1>1, <1>2
<1>3. ASSUME NEW c \in Campaigns, NEW t \in Users
      PROVE  Row(c, t).status # "approved" /\ ~Posted(RewardKey(c, t))
  BY <1>1 DEF Init, NoAssignment, Row, Posted, RewardKey
<1> QED BY <1>2, <1>3 DEF RewardIffApproved

\* A tester is paid the campaign's reward exactly when the assignment is approved, by whichever
\* of create_review and resolve_dispute, and no idempotency key is ever posted twice.
THEOREM RewardTheorem == Spec => []RewardIffApproved
<1>1. TypeOK /\ References /\ RewardIffApproved /\ [Next]_vars => RewardIffApproved'
  BY RewardStep
<1> QED BY RewardInit, TypeCorrect, <1>1, PTL DEF Spec

-----------------------------------------------------------------------------
(* The posting *)

\* maybe_complete_campaign leaves a draft alone.
LEMMA DraftNotCompleted ==
    ASSUME TypeOK, NEW c \in Campaigns, NEW rows, NEW d \in Campaigns, Drafted(d),
           campaign' = [campaign EXCEPT ![c] = MaybeCompleted(@, rows)]
    PROVE  campaign'[d] = campaign[d]
<1>1. campaign \in [Campaigns -> Campaign]
  BY DEF TypeOK
<1>2. MaybeCompleted(campaign[d], rows) = campaign[d]
  BY DEF MaybeCompleted, CompletionDue, TargetReached, ClosedWorkSettled, Drafted
<1> QED BY <1>1, <1>2

\* Only publishing takes a campaign out of its draft, or locks its contract.
LEMMA DraftStep ==
    ASSUME TypeOK, [Next]_vars, NEW d \in Campaigns, Drafted(d), contract[d].status # "locked",
           \A u \in Users, c \in Campaigns : ~Publishes(u, c)
    PROVE  campaign'[d].status \in {"none", "draft"} /\ contract'[d].status # "locked"
<1> DEFINE Still == campaign'[d].status \in {"none", "draft"} /\ contract'[d].status # "locked"
<1>1. /\ campaign \in [Campaigns -> Campaign] /\ campaign[d] \in Campaign
      /\ contract \in [Campaigns -> Contract]
  BY DEF TypeOK
<1>2. ASSUME campaign'[d] = campaign[d], contract'[d] = contract[d] PROVE Still
  BY <1>2 DEF Drafted
<1>3. ASSUME NEW u \in Users, NEW c \in Campaigns, OwnerStep(u, c) PROVE Still
  <2>1. ASSUME NEW target \in Targets, NEW reward \in Rewards, CreateCampaign(u, c, target, reward)
        PROVE  Still
    BY <1>1, <2>1 DEF CreateCampaign, DraftRow, Drafted
  <2>2. ASSUME NEW target \in Targets, NEW reward \in Rewards, UpdateCampaign(u, c, target, reward)
        PROVE  Still
    <3>1. campaign'[d] = campaign[d]
            \/ campaign'[d] = [campaign[d] EXCEPT !.target = target, !.reward = reward]
      BY <1>1, <2>2 DEF UpdateCampaign
    <3>2. campaign'[d].status = campaign[d].status
      BY <1>1, <3>1 DEF Campaign
    <3> QED BY <2>2, <3>2 DEF UpdateCampaign, Drafted
  <2>3. ASSUME NEW terms \in Terms, UpsertContract(u, c, terms) PROVE Still
    BY <1>1, <2>3 DEF UpsertContract, Drafted
  <2>4. ASSUME PauseCampaign(u, c) \/ ResumeCampaign(u, c) \/ CloseCampaign(u, c) PROVE Still
    <3>1. c # d
      BY <2>4 DEF PauseCampaign, ResumeCampaign, CloseCampaign, Drafted
    <3>2. campaign'[d] = campaign[d] /\ UNCHANGED contract
      BY <1>1, <2>4, <3>1 DEF PauseCampaign, ResumeCampaign, CloseCampaign
    <3> QED BY <1>2, <3>2
  <2>5. ASSUME NEW t \in Users, AcceptAssignment(u, c, t) \/ DeclineAssignment(u, c, t)
        PROVE  Still
    BY <1>2, <2>5 DEF AcceptAssignment, DeclineAssignment, campaignVars
  <2>6. ASSUME NEW t \in Users, NEW v \in DOMAIN submissions[c][t],
               ApproveSubmission(u, c, t, v) \/ RequestChanges(u, c, t, v)
                 \/ RejectSubmission(u, c, t, v)
        PROVE  Still
    BY <1>2, <2>6, DraftNotCompleted
       DEF ApproveSubmission, RequestChanges, RejectSubmission, Reviewed
  <2> QED BY <1>3, <2>1, <2>2, <2>3, <2>4, <2>5, <2>6 DEF OwnerStep, Publishes
<1>4. ASSUME NEW t \in Users, NEW c \in Campaigns, TesterStep(t, c) PROVE Still
  <2>1. CASE WithdrawAssignment(t, c)
    BY <1>2, <2>1, DraftNotCompleted DEF WithdrawAssignment
  <2>2. CASE ~WithdrawAssignment(t, c)
    BY <1>2, <1>4, <2>2 DEF TesterStep, ApplyToCampaign, StartAssignment, RecordTestingSession,
                            CreateSubmission, OpenDispute, campaignVars
  <2> QED BY <2>1, <2>2
<1>5. ASSUME NEW m \in Moderators, NEW c \in Campaigns, NEW t \in Users, ModeratorStep(m, c, t)
      PROVE  Still
  BY <1>2, <1>5, DraftNotCompleted DEF ModeratorStep, ClaimDispute, RejectOverdueWork,
     CloseWithoutAward, AwardTester, Resolved, campaignVars
<1>6. ASSUME \/ Tick \/ UNCHANGED vars
             \/ \E m \in Moderators, u \in Users : SuspendParticipant(m, u) \/ RestoreParticipant(m, u)
      PROVE  Still
  BY <1>2, <1>6 DEF Tick, vars, SuspendParticipant, RestoreParticipant, campaignVars
<1> QED BY <1>3, <1>4, <1>5, <1>6 DEF Next

\* The posting that a published campaign stands on.
Funding(camp, c) == [key |-> PostingKey(c), user |-> camp.owner, delta |-> -(camp.target * camp.reward)]

Funded(c) ==
    IF campaign[c].status \in {"none", "draft"}
    THEN ~Posted(PostingKey(c)) /\ contract[c].status # "locked"
    ELSE Funding(campaign[c], c) \in ledger /\ contract[c].status = "locked"

\* The property, campaign by campaign.
LEMMA FundedDef == PromiseFunded <=> \A c \in Campaigns : Funded(c)
BY DEF PromiseFunded, Funded, Funding

\* Publishing posts the cost of the campaign it publishes, and locks its contract.
LEMMA PublishFunded ==
    ASSUME TypeOK, RewardIffApproved, PromiseFunded,
           NEW u \in Users, NEW c \in Campaigns, Publishes(u, c)
    PROVE  \A d \in Campaigns : Funded(d)'
<1>1. /\ campaign \in [Campaigns -> Campaign] /\ campaign[c] \in Campaign
      /\ contract \in [Campaigns -> Contract] /\ contract[c] \in Contract
  BY DEF TypeOK
<1>2. Drafted(c)
  BY DEF Publishes, PublishCampaign, LaunchCampaign, Drafted
<1>3. ~Posted(PostingKey(c))
  BY <1>2 DEF PromiseFunded, Drafted
<1>4. /\ campaign'[c].status = "published" /\ contract'[c].status = "locked"
      /\ Enters(PostingKey(c), campaign'[c].owner, -(campaign'[c].target * campaign'[c].reward))
  <2>1. CASE PublishCampaign(u, c)
    <3>1. campaign'[c] = [campaign[c] EXCEPT !.status = "published"]
      BY <1>1, <2>1 DEF PublishCampaign
    <3>2. /\ campaign'[c].status = "published" /\ campaign'[c].owner = u
          /\ campaign'[c].target = campaign[c].target /\ campaign'[c].reward = campaign[c].reward
      BY <1>1, <2>1, <3>1 DEF PublishCampaign, Owns, Campaign
    <3>3. contract'[c] = [contract[c] EXCEPT !.status = "locked"]
      BY <1>1, <2>1 DEF PublishCampaign
    <3>4. contract'[c].status = "locked"
      BY <1>1, <3>3 DEF Contract
    <3>5. Enters(PostingKey(c), u, -(campaign[c].target * campaign[c].reward))
      BY <1>3, <2>1 DEF PublishCampaign, PostingCost, RecordCreditEntry, Booked, Enters
    <3> QED BY <3>2, <3>4, <3>5
  <2>2. ASSUME NEW target \in Targets, NEW reward \in Rewards, NEW terms \in Terms,
               LaunchCampaign(u, c, target, reward, terms)
        PROVE  /\ campaign'[c].status = "published" /\ contract'[c].status = "locked"
               /\ Enters(PostingKey(c), campaign'[c].owner,
                         -(campaign'[c].target * campaign'[c].reward))
    <3>1. campaign'[c] = [DraftRow(u, target, reward) EXCEPT !.status = "published"]
      BY <1>1, <2>2 DEF LaunchCampaign
    <3>2. /\ campaign'[c].status = "published" /\ campaign'[c].owner = u
          /\ campaign'[c].target = target /\ campaign'[c].reward = reward
      BY <3>1 DEF DraftRow
    <3>3. contract'[c].status = "locked"
      BY <1>1, <2>2 DEF LaunchCampaign
    <3>4. Enters(PostingKey(c), u, -(target * reward))
      BY <1>3, <2>2 DEF LaunchCampaign, PostingCost, RecordCreditEntry, Booked, Enters
    <3> QED BY <3>2, <3>3, <3>4
  <2> QED BY <2>1, <2>2 DEF Publishes
<1>5. /\ \A k : k # PostingKey(c) => (Posted(k) <=> Posted(k)')
      /\ Funding(campaign'[c], c) \in ledger'
      /\ ledger \subseteq ledger'
  BY <1>4, EntersUnique, RewardIsPaid DEF Funding
<1>6. ASSUME NEW d \in Campaigns, d # c PROVE Funded(d)'
  <2>1. campaign'[d] = campaign[d] /\ contract'[d] = contract[d]
    BY <1>1, <1>6 DEF Publishes, PublishCampaign, LaunchCampaign
  <2>2. Posted(PostingKey(d)) <=> Posted(PostingKey(d))'
    BY <1>5, <1>6, KeysDiffer DEF PostingKey
  <2> QED BY <1>5, <2>1, <2>2, FundedDef DEF Funded, Funding, PostingKey
<1>7. Funded(c)'
  BY <1>4, <1>5 DEF Funded, Funding, PostingKey
<1> QED BY <1>6, <1>7

\* Every step preserves the funding of the published campaigns.
LEMMA FundedStep ==
    ASSUME TypeOK, RewardIffApproved, PromiseFunded, [Next]_vars
    PROVE  PromiseFunded'
<1>1. CASE \E u \in Users, c \in Campaigns : Publishes(u, c)
  BY <1>1, PublishFunded DEF PromiseFunded, Funded, Funding
<1>2. CASE \A u \in Users, c \in Campaigns : ~Publishes(u, c)
  <2>1. \/ UNCHANGED ledger
        \/ \E c \in Campaigns, t \in Users : Enters(RewardKey(c, t), t, campaign[c].reward)
    BY <1>2, WorkStep, ApprovesEnters, RewardIsPaid
  <2>2. ASSUME NEW d \in Campaigns
        PROVE  /\ Posted(PostingKey(d)) <=> Posted(PostingKey(d))'
               /\ ledger \subseteq ledger'
    <3>1. CASE UNCHANGED ledger
      BY <3>1 DEF Posted, PostingKey
    <3>2. ASSUME NEW c \in Campaigns, NEW t \in Users,
                 Enters(RewardKey(c, t), t, campaign[c].reward)
          PROVE  /\ Posted(PostingKey(d)) <=> Posted(PostingKey(d))'
                 /\ ledger \subseteq ledger'
      BY <3>2, EntersUnique, RewardIsPaid, KeysDiffer DEF PostingKey
    <3> QED BY <2>1, <3>1, <3>2
  <2>3. ASSUME NEW d \in Campaigns PROVE Funded(d)'
    <3>1. Funded(d)
      BY FundedDef
    <3>2. CASE Drafted(d)
      <4>1. campaign'[d].status \in {"none", "draft"} /\ contract'[d].status # "locked"
        BY <1>2, <3>1, <3>2, DraftStep DEF Funded, Drafted
      <4> QED BY <2>2, <3>1, <3>2, <4>1 DEF Funded, Drafted, PostingKey
    <3>3. CASE ~Drafted(d)
      <4>1. contract'[d] = contract[d]
        BY <3>3, ContractStep
      <4>2. /\ campaign'[d] = [campaign[d] EXCEPT !.status = campaign'[d].status]
            /\ campaign'[d].status \notin {"none", "draft"}
        BY <3>3, OfferStep
      <4>3. campaign[d] \in Campaign
        BY DEF TypeOK
      <4>4. Funding(campaign'[d], d) = Funding(campaign[d], d)
        BY <4>2, <4>3 DEF Funding, Campaign
      <4> QED BY <2>2, <3>1, <3>3, <4>1, <4>2, <4>4 DEF Funded, Drafted, Funding, PostingKey
    <3> QED BY <3>2, <3>3
  <2> QED BY <2>3 DEF PromiseFunded, Funded, Funding
<1> QED BY <1>1, <1>2

\* Nothing is published at first, and nothing posted.
LEMMA FundedInit == Init => PromiseFunded
<1> SUFFICES ASSUME Init PROVE PromiseFunded
  OBVIOUS
<1>1. ASSUME NEW e \in ledger PROVE \E u \in Users : e.key = <<"signup_grant", u>>
  BY DEF Init, SignupEntries
<1> QED BY <1>1 DEF Init, NoCampaign, NoContract, PromiseFunded, Posted, PostingKey

\* A campaign is out of its draft exactly when its owner has paid for every seat it promises, at
\* the price it still shows, and its contract is locked (publish_campaign, launch_campaign).
THEOREM FundingTheorem == Spec => []PromiseFunded
<1>1. TypeOK /\ RewardIffApproved /\ PromiseFunded /\ [Next]_vars => PromiseFunded'
  BY FundedStep
<1> QED BY FundedInit, TypeCorrect, RewardTheorem, <1>1, PTL DEF Spec

-----------------------------------------------------------------------------
(* The lifecycle *)

\* A step of the exchange is a step of the lifecycle of every assignment, or none.
LEMMA LifecycleStep ==
    ASSUME TypeOK, RewardIffApproved, [Next]_vars, NEW d \in Campaigns, NEW w \in Users
    PROVE  [Lifecycle(d, w)!LifecycleNext]_<<Row(d, w).status, Posted(RewardKey(d, w))>>
<1> DEFINE Follows == [Lifecycle(d, w)!LifecycleNext]_<<Row(d, w).status, Posted(RewardKey(d, w))>>
<1>1. ASSUME Moved(d, w), Posted(RewardKey(d, w)) <=> Posted(RewardKey(d, w))'
      PROVE  Follows
  <2>1. Posted(RewardKey(d, w))' = Posted(RewardKey(d, w))
    BY <1>1 DEF Posted
  <2> QED BY <1>1, <2>1 DEF Moved, MovesTo, Lifecycle!LifecycleNext, Lifecycle!Moves, Row
<1>2. CASE UNCHANGED ledger /\ Moved(d, w)
  BY <1>1, <1>2 DEF Posted, RewardKey
<1>3. ASSUME NEW u \in Users, NEW c \in Campaigns, Publishes(u, c), UNCHANGED assignment
      PROVE  Follows
  <2>1. Moved(d, w)
    BY <1>3 DEF Moved, MovesTo, Row
  <2>2. Posted(RewardKey(d, w)) <=> Posted(RewardKey(d, w))'
    <3>1. CASE UNCHANGED ledger
      BY <3>1 DEF Posted, RewardKey
    <3>2. ASSUME NEW x \in Campaigns, NEW y \in Users, NEW delta, Enters(PostingKey(x), y, delta)
          PROVE  Posted(RewardKey(d, w)) <=> Posted(RewardKey(d, w))'
      <4>1. RewardKey(d, w) # PostingKey(x)
        BY KeysDiffer
      <4>2. \A k : k # PostingKey(x) => (Posted(k) <=> Posted(k)')
        BY <3>2, EntersUnique, RewardIsPaid
      <4> QED BY <4>1, <4>2 DEF RewardKey
    <3> QED BY <1>3, <3>1, <3>2, PublishesEnters
  <2> QED BY <1>1, <2>1, <2>2
<1>4. ASSUME NEW c \in Campaigns, NEW t \in Users, Approves(c, t) PROVE Follows
  <2>1. Enters(RewardKey(c, t), t, campaign[c].reward)
    BY <1>4, ApprovesEnters, RewardIsPaid
  <2>2. CASE d = c /\ w = t
    <3>1. assignment'[d][w] = ApprovedRow(Row(c, t))
      BY <1>4, <2>2 DEF Approves, Put, TypeOK
    <3>2. assignment'[d][w].status = "approved"
      BY <3>1, RowType DEF ApprovedRow, Assignment
    <3>3. ~Posted(RewardKey(d, w)) /\ Posted(RewardKey(d, w))'
      BY <2>1, <2>2, EntersUnique, RewardIsPaid DEF Enters, RewardKey
    <3>4. Posted(RewardKey(d, w))' = TRUE
      BY <3>3
    <3> QED BY <1>4, <2>2, <3>2, <3>3, <3>4
            DEF Approves, Lifecycle!LifecycleNext, Lifecycle!Approve, Row
  <2>3. CASE d # c \/ w # t
    <3>1. assignment'[d][w] = assignment[d][w]
      BY <1>4, <2>3 DEF Approves, Put, TypeOK
    <3>2. Posted(RewardKey(d, w)) <=> Posted(RewardKey(d, w))'
      <4>1. RewardKey(d, w) # RewardKey(c, t)
        BY <2>3, KeysDiffer
      <4>2. \A k : k # RewardKey(c, t) => (Posted(k) <=> Posted(k)')
        BY <2>1, EntersUnique, RewardIsPaid
      <4> QED BY <4>1, <4>2 DEF RewardKey
    <3> QED BY <1>1, <3>1, <3>2 DEF Moved, MovesTo, Row
  <2> QED BY <2>2, <2>3
<1> QED BY <1>2, <1>3, <1>4, WorkStep

\* Every assignment follows the documented lifecycle, and is paid once, by the step that approves
\* it: the exchange implements AssignmentLifecycle for every campaign and tester.
THEOREM LifecycleTheorem == Spec => LifecycleImplemented
<1>1. Init => \A c \in Campaigns, t \in Users : Lifecycle(c, t)!LifecycleInit
  <2> SUFFICES ASSUME Init, NEW c \in Campaigns, NEW t \in Users
               PROVE  Lifecycle(c, t)!LifecycleInit
    OBVIOUS
  <2>1. RewardIffApproved
    BY RewardInit
  <2>2. Row(c, t).status = "none"
    BY DEF Init, NoAssignment, Row
  <2>3. ~Posted(RewardKey(c, t))
    BY <2>1, <2>2 DEF RewardIffApproved
  <2> QED BY <2>2, <2>3 DEF Lifecycle!LifecycleInit, Row
<1>2. TypeOK /\ RewardIffApproved /\ [Next]_vars =>
        [\A c \in Campaigns, t \in Users :
           [Lifecycle(c, t)!LifecycleNext]_<<Row(c, t).status, Posted(RewardKey(c, t))>>]_vars
  BY LifecycleStep
<1> QED BY <1>1, <1>2, TypeCorrect, RewardTheorem, PTL DEF Spec, LifecycleImplemented

-----------------------------------------------------------------------------
(* Participants *)

\* A moderator is left to restore the others: none suspends itself (suspend_participant).
THEOREM ModeratorTheorem == Spec => []ModeratorRemains
<1>1. Init => ModeratorRemains
  BY DEF Init, ModeratorRemains
<1>2. ASSUME ModeratorRemains, [Next]_vars PROVE ModeratorRemains'
  <2>1. ASSUME NEW m \in Moderators, NEW u \in Users,
               SuspendParticipant(m, u) \/ RestoreParticipant(m, u)
        PROVE  m \notin suspended'
    BY <2>1 DEF SuspendParticipant, RestoreParticipant, Moderating, Authenticated
  <2>2. ASSUME NEW u \in Users, NEW c \in Campaigns, OwnerStep(u, c)
        PROVE  UNCHANGED suspended
    BY <2>2 DEF OwnerStep, CreateCampaign, UpdateCampaign, LaunchCampaign, UpsertContract,
                PublishCampaign, PauseCampaign, ResumeCampaign, CloseCampaign, AcceptAssignment,
                DeclineAssignment, ApproveSubmission, RequestChanges, RejectSubmission, Reviewed,
                unchangedByOwner
  <2>3. ASSUME NEW t \in Users, NEW c \in Campaigns, TesterStep(t, c)
        PROVE  UNCHANGED suspended
    BY <2>3 DEF TesterStep, ApplyToCampaign, WithdrawAssignment, StartAssignment,
                RecordTestingSession, CreateSubmission, OpenDispute, unchangedByOwner
  <2>4. ASSUME NEW m \in Moderators, NEW c \in Campaigns, NEW t \in Users, ModeratorStep(m, c, t)
        PROVE  UNCHANGED suspended
    BY <2>4 DEF ModeratorStep, ClaimDispute, RejectOverdueWork, CloseWithoutAward, AwardTester,
                Resolved
  <2>5. ASSUME Tick \/ UNCHANGED vars PROVE UNCHANGED suspended
    BY <2>5 DEF Tick, vars
  <2>6. UNCHANGED suspended \/ \E m \in Moderators : m \notin suspended'
    BY <1>2, <2>1, <2>2, <2>3, <2>4, <2>5 DEF Next
  <2> QED BY <1>2, <2>6 DEF ModeratorRemains
<1> QED BY <1>1, <1>2, PTL DEF Spec

-----------------------------------------------------------------------------
(* What a request does to the work of one tester *)

Settled == {"submitted", "approved", "rejected"}

\* The tester, or the owner who recruits, is not concerned with a submission yet, or no longer.
Prepares(c, t) ==
    /\ Row(c, t).status \notin Settled
    /\ assignment'[c][t].status \notin Settled
    /\ UNCHANGED <<submissions[c][t], dispute[c][t]>>

Submits(c, t) ==
    /\ Testing(c, t)
    /\ assignment'[c][t].status = "submitted"
    /\ submissions'[c][t] = Append(submissions[c][t], [status |-> "submitted", submitted_at |-> now,
                                                       review |-> "none"])
    /\ UNCHANGED dispute[c][t]

Reviews(c, t, v, decision) ==
    /\ dispute[c][t].status \notin ActiveDispute
    /\ Row(c, t).status = "submitted"
    /\ submissions[c][t][v].status = "submitted"
    /\ assignment'[c][t].status = decision
    /\ submissions'[c][t] = [submissions[c][t] EXCEPT
                               ![v] = [submissions[c][t][v] EXCEPT !.status = decision,
                                                                   !.review = decision]]
    /\ UNCHANGED dispute[c][t]

Escalates(c, t, v) ==
    /\ dispute[c][t].status = "none"
    /\ Row(c, t).status \in {"submitted", "rejected"}
    /\ submissions[c][t][v].status = Row(c, t).status
    /\ dispute'[c][t] = [dispute[c][t] EXCEPT !.status = "open", !.version = v]
    /\ UNCHANGED <<assignment[c][t], submissions[c][t]>>

Claims(c, t, m) ==
    /\ dispute[c][t].status = "open"
    /\ dispute'[c][t] = [dispute[c][t] EXCEPT !.status = "under_review", !.assigned_to = m]
    /\ UNCHANGED <<assignment[c][t], submissions[c][t]>>

Dismisses(c, t, outcome) ==
    /\ dispute[c][t].status = "under_review"
    /\ Row(c, t).status # "submitted"
    /\ dispute'[c][t] = [dispute[c][t] EXCEPT !.status = outcome, !.remedy = "none"]
    /\ UNCHANGED <<assignment[c][t], submissions[c][t]>>

\* A verdict on the disputed version v.
Decides(c, t, v, verdict, outcome, remedy) ==
    /\ dispute[c][t].status = "under_review"
    /\ v = dispute[c][t].version
    /\ v \in DOMAIN submissions[c][t]
    /\ submissions'[c][t] = [submissions[c][t] EXCEPT
                               ![v] = [submissions[c][t][v] EXCEPT !.status = verdict]]
    /\ assignment'[c][t].status = verdict
    /\ dispute'[c][t] = [dispute[c][t] EXCEPT !.status = outcome, !.remedy = remedy]

Awards(c, t) ==
    /\ Row(c, t).status \in {"submitted", "rejected"}
    /\ Decides(c, t, dispute[c][t].version, "approved", "resolved", "award_tester")

Overrules(c, t) ==
    /\ Row(c, t).status = "submitted"
    /\ Decides(c, t, dispute[c][t].version, "rejected", "rejected", "none")

Untouched(c, t) == UNCHANGED <<assignment[c][t], submissions[c][t], dispute[c][t]>>

WorkMove(c, t) ==
    \/ Untouched(c, t)
    \/ Prepares(c, t)
    \/ Submits(c, t)
    \/ \E v \in DOMAIN submissions[c][t] :
          Escalates(c, t, v) \/ \E decision \in Decision : Reviews(c, t, v, decision)
    \/ \E m \in Moderators : Claims(c, t, m)
    \/ \E outcome \in {"resolved", "rejected"} : Dismisses(c, t, outcome)
    \/ Awards(c, t)
    \/ Overrules(c, t)

\* The tables that the work of a tester is kept in.
LEMMA WorkTables ==
    ASSUME TypeOK
    PROVE  /\ assignment \in [Campaigns -> [Users -> Assignment]]
           /\ submissions \in [Campaigns -> [Users -> Seq(Submission)]]
           /\ sessions \in [Campaigns -> [Users -> SUBSET Nat]]
           /\ dispute \in [Campaigns -> [Users -> Dispute]]
BY DEF TypeOK

\* A row that is put in a table is found there, and the others are as before.
LEMMA PutAt ==
    ASSUME TypeOK, NEW c \in Campaigns, NEW t \in Users, NEW row,
           NEW d \in Campaigns, NEW w \in Users
    PROVE  /\ Put(assignment, c, t, row)[d][w] = IF d = c /\ w = t THEN row ELSE assignment[d][w]
           /\ Put(submissions, c, t, row)[d][w] = IF d = c /\ w = t THEN row ELSE submissions[d][w]
           /\ Put(dispute, c, t, row)[d][w] = IF d = c /\ w = t THEN row ELSE dispute[d][w]
BY WorkTables DEF Put

\* The requests of recruitment and of testing up to the submission.
LEMMA PreparesStep ==
    ASSUME TypeOK, NEW c \in Campaigns, NEW t \in Users, NEW row \in Assignment,
           assignment' = Put(assignment, c, t, row), UNCHANGED <<submissions, dispute>>,
           Row(c, t).status \notin Settled, row.status \notin Settled,
           NEW d \in Campaigns, NEW w \in Users
    PROVE  WorkMove(d, w)
<1>1. assignment'[d][w] = IF d = c /\ w = t THEN row ELSE assignment[d][w]
  BY PutAt
<1> QED BY <1>1 DEF WorkMove, Prepares, Untouched, Row

\* Closing a campaign moves its rows as WorkMove says.
LEMMA CloseWork ==
    ASSUME TypeOK, NEW u \in Users, NEW c \in Campaigns, CloseCampaign(u, c),
           NEW d \in Campaigns, NEW w \in Users
    PROVE  WorkMove(d, w)
<1>1. /\ assignment \in [Campaigns -> [Users -> Assignment]]
      /\ assignment' = [assignment EXCEPT ![c] = Closing(assignment[c])]
      /\ UNCHANGED <<submissions, dispute>>
  BY WorkTables DEF CloseCampaign, unchangedByOwner
<1>2. CASE d # c
  <2>1. assignment'[d] = assignment[d]
    BY <1>1, <1>2
  <2> QED BY <1>1, <2>1 DEF WorkMove, Untouched
<1>3. CASE d = c
  <2>1. assignment'[c] = Closing(assignment[c])
    BY <1>1
  <2>2. assignment'[c][w] = IF w \in Pending(assignment[c]) THEN Cancelled(assignment[c][w])
                            ELSE assignment[c][w]
    BY <2>1 DEF Closing
  <2>3. Cancelled(assignment[c][w]).status = "cancelled"
    <3>1. assignment[c][w] \in Assignment
      BY <1>1
    <3> QED BY <3>1 DEF Cancelled, Assignment
  <2>4. CASE w \in Pending(assignment[c])
    BY <1>1, <1>3, <2>2, <2>3, <2>4 DEF WorkMove, Prepares, Settled, Pending, Row
  <2>5. CASE w \notin Pending(assignment[c])
    BY <1>1, <1>3, <2>2, <2>5 DEF WorkMove, Untouched
  <2> QED BY <2>4, <2>5
<1> QED BY <1>2, <1>3

\* A review writes the version it is about, with the status of its assignment.
LEMMA ReviewWork ==
    ASSUME TypeOK, NEW u \in Users, NEW c \in Campaigns, NEW t \in Users,
           NEW v \in DOMAIN submissions[c][t], NEW decision \in Decision, NEW row \in Assignment,
           Reviewable(u, c, t, v), Reviewed(u, c, t, v, decision),
           assignment' = Put(assignment, c, t, row), row.status = decision,
           NEW d \in Campaigns, NEW w \in Users
    PROVE  WorkMove(d, w)
<1> DEFINE version == [submissions[c][t][v] EXCEPT !.status = decision, !.review = decision]
<1>1. assignment'[d][w] = IF d = c /\ w = t THEN row ELSE assignment[d][w]
  BY PutAt
<1>2. submissions' = Put(submissions, c, t, [submissions[c][t] EXCEPT ![v] = version])
  BY DEF Reviewed, WriteVersion
<1>3. submissions'[d][w] = IF d = c /\ w = t THEN [submissions[c][t] EXCEPT ![v] = version]
                           ELSE submissions[d][w]
  BY <1>2, PutAt
<1>4. CASE d = c /\ w = t
  <2>1. Reviews(c, t, v, decision)
    BY <1>1, <1>3, <1>4 DEF Reviews, Reviewable, Reviewed, NoActiveDispute
  <2> QED BY <1>4, <2>1 DEF WorkMove
<1>5. CASE ~(d = c /\ w = t)
  BY <1>1, <1>3, <1>5 DEF WorkMove, Untouched, Reviewed
<1> QED BY <1>4, <1>5

\* So does every other request of an owner.
LEMMA OwnerMoves ==
    ASSUME TypeOK, NEW u \in Users, NEW c \in Campaigns, OwnerStep(u, c),
           NEW d \in Campaigns, NEW w \in Users
    PROVE  WorkMove(d, w)
<1>1. ASSUME NEW t \in Users PROVE Row(c, t) \in Assignment
  BY WorkTables DEF Row
<1>2. ASSUME UNCHANGED <<assignment, submissions, dispute>> PROVE WorkMove(d, w)
  BY <1>2 DEF WorkMove, Untouched
<1>3. ASSUME NEW t \in Users, NEW v \in DOMAIN submissions[c][t],
             ApproveSubmission(u, c, t, v) \/ RequestChanges(u, c, t, v)
               \/ RejectSubmission(u, c, t, v)
      PROVE  WorkMove(d, w)
  <2>1. PICK decision \in Decision :
          /\ Reviewable(u, c, t, v) /\ Reviewed(u, c, t, v, decision)
          /\ \/ assignment' = Put(assignment, c, t, ApprovedRow(Row(c, t))) /\ decision = "approved"
             \/ assignment' = SetStatus(c, t, decision)
    BY <1>3 DEF ApproveSubmission, RequestChanges, RejectSubmission, Decision
  <2>2. PICK row \in Assignment : row.status = decision /\ assignment' = Put(assignment, c, t, row)
    <3>1. CASE assignment' = Put(assignment, c, t, ApprovedRow(Row(c, t))) /\ decision = "approved"
      BY <1>1, <3>1, WrittenRows
    <3>2. CASE assignment' = SetStatus(c, t, decision)
      <4>1. decision \in AssignmentStatus
        BY DEF Decision, AssignmentStatus
      <4>2. /\ [Row(c, t) EXCEPT !.status = decision] \in Assignment
            /\ [Row(c, t) EXCEPT !.status = decision].status = decision
        BY <1>1, <4>1 DEF Assignment
      <4> QED BY <3>2, <4>2 DEF SetStatus
    <3> QED BY <2>1, <3>1, <3>2
  <2> QED BY <2>1, <2>2, ReviewWork
<1>4. ASSUME NEW t \in Users, AcceptAssignment(u, c, t) \/ DeclineAssignment(u, c, t)
      PROVE  WorkMove(d, w)
  <2>1. Row(c, t).status \notin Settled /\ UNCHANGED <<submissions, dispute>>
    BY <1>4 DEF AcceptAssignment, DeclineAssignment, unchangedByOwner, Settled
  <2>2. \E row \in Assignment : row.status \notin Settled /\ assignment' = Put(assignment, c, t, row)
    BY <1>1, <1>4, WrittenRows DEF AcceptAssignment, DeclineAssignment, Settled
  <2> QED BY <2>1, <2>2, PreparesStep
<1>5. ASSUME \/ PublishCampaign(u, c) \/ PauseCampaign(u, c) \/ ResumeCampaign(u, c)
             \/ \E terms \in Terms : UpsertContract(u, c, terms)
      PROVE  UNCHANGED <<assignment, submissions, dispute>>
  BY <1>5 DEF PublishCampaign, PauseCampaign, ResumeCampaign, UpsertContract, unchangedByOwner
<1>6. ASSUME NEW target \in Targets, NEW reward \in Rewards,
             \/ CreateCampaign(u, c, target, reward)
             \/ UpdateCampaign(u, c, target, reward)
             \/ \E terms \in Terms : LaunchCampaign(u, c, target, reward, terms)
      PROVE  UNCHANGED <<assignment, submissions, dispute>>
  BY <1>6 DEF CreateCampaign, UpdateCampaign, LaunchCampaign, unchangedByOwner
<1> QED BY <1>2, <1>3, <1>4, <1>5, <1>6, CloseWork DEF OwnerStep

\* So does every request of a tester.
LEMMA TesterMoves ==
    ASSUME TypeOK, NEW t \in Users, NEW c \in Campaigns, TesterStep(t, c),
           NEW d \in Campaigns, NEW w \in Users
    PROVE  WorkMove(d, w)
<1>1. Row(c, t) \in Assignment /\ now \in Nat
  BY DEF TypeOK, Row
<1>2. CASE ApplyToCampaign(t, c) \/ WithdrawAssignment(t, c)
  <2>1. Row(c, t).status \notin Settled /\ UNCHANGED <<submissions, dispute>>
    BY <1>2 DEF ApplyToCampaign, WithdrawAssignment, Withdrawable, unchangedByOwner, Settled
  <2>2. \E row \in Assignment : row.status \notin Settled /\ assignment' = Put(assignment, c, t, row)
    BY <1>1, <1>2, WrittenRows
       DEF ApplyToCampaign, WithdrawAssignment, SetStatus, AssignmentStatus, Settled
  <2> QED BY <2>1, <2>2, PreparesStep
<1>3. CASE StartAssignment(t, c)
  BY <1>1, <1>3, PreparesStep, WrittenRows DEF StartAssignment, Settled
<1>4. CASE RecordTestingSession(t, c)
  BY <1>4 DEF RecordTestingSession, WorkMove, Untouched
<1>5. CASE CreateSubmission(t, c)
  <2> DEFINE row == [Row(c, t) EXCEPT !.status = "submitted"]
             version == [status |-> "submitted", submitted_at |-> now, review |-> "none"]
  <2>1. assignment' = Put(assignment, c, t, row) /\ row.status = "submitted"
    BY <1>1, <1>5, WrittenRows DEF CreateSubmission, SetStatus, AssignmentStatus
  <2>2. assignment'[d][w] = IF d = c /\ w = t THEN row ELSE assignment[d][w]
    BY <2>1, PutAt
  <2>3. submissions' = Put(submissions, c, t, Append(submissions[c][t], version))
    BY <1>5 DEF CreateSubmission
  <2>4. submissions'[d][w] = IF d = c /\ w = t THEN Append(submissions[c][t], version)
                             ELSE submissions[d][w]
    BY <2>3, PutAt
  <2>5. UNCHANGED dispute /\ Testing(c, t)
    BY <1>5 DEF CreateSubmission
  <2>6. CASE d = c /\ w = t
    BY <2>1, <2>2, <2>4, <2>5, <2>6 DEF WorkMove, Submits
  <2>7. CASE ~(d = c /\ w = t)
    BY <2>2, <2>4, <2>5, <2>7 DEF WorkMove, Untouched
  <2> QED BY <2>6, <2>7
<1>6. ASSUME NEW v \in DOMAIN submissions[c][t], OpenDispute(t, c, v) PROVE WorkMove(d, w)
  <2> DEFINE row == [dispute[c][t] EXCEPT !.status = "open", !.version = v]
  <2>1. dispute'[d][w] = IF d = c /\ w = t THEN row ELSE dispute[d][w]
    BY <1>6, PutAt DEF OpenDispute
  <2>2. UNCHANGED <<assignment, submissions>>
    BY <1>6 DEF OpenDispute, workVars
  <2>3. CASE d = c /\ w = t
    <3>1. Escalates(c, t, v)
      BY <1>6, <2>1, <2>2, <2>3 DEF Escalates, OpenDispute, Escalatable
    <3> QED BY <2>3, <3>1 DEF WorkMove
  <2>4. CASE ~(d = c /\ w = t)
    BY <2>1, <2>2, <2>4 DEF WorkMove, Untouched
  <2> QED BY <2>3, <2>4
<1> QED BY <1>2, <1>3, <1>4, <1>5, <1>6 DEF TesterStep

\* A moderator's verdict on the work, or the end of a dispute without one.
LEMMA VerdictWork ==
    ASSUME TypeOK, NEW c \in Campaigns, NEW t \in Users, NEW verdict, NEW outcome, NEW remedy,
           NEW row \in Assignment, row.status = verdict,
           dispute[c][t].status = "under_review",
           Decide(c, t, verdict), assignment' = Put(assignment, c, t, row),
           dispute' = Put(dispute, c, t,
                          [dispute[c][t] EXCEPT !.status = outcome, !.remedy = remedy]),
           NEW d \in Campaigns, NEW w \in Users
    PROVE  IF d = c /\ w = t
           THEN Decides(c, t, dispute[c][t].version, verdict, outcome, remedy)
           ELSE Untouched(d, w)
<1> DEFINE v == dispute[c][t].version
           version == [submissions[c][t][v] EXCEPT !.status = verdict]
<1>1. assignment'[d][w] = IF d = c /\ w = t THEN row ELSE assignment[d][w]
  BY PutAt
<1>2. submissions'[d][w] = IF d = c /\ w = t THEN [submissions[c][t] EXCEPT ![v] = version]
                           ELSE submissions[d][w]
  <2> DEFINE subs == [submissions[c][t] EXCEPT ![v] = version]
  <2>1. submissions' = Put(submissions, c, t, subs)
    BY DEF Decide, WriteVersion
  <2> HIDE DEF subs
  <2>2. submissions'[d][w] = IF d = c /\ w = t THEN subs ELSE submissions[d][w]
    BY <2>1, PutAt
  <2> QED BY <2>2 DEF subs
<1>3. dispute'[d][w] = IF d = c /\ w = t
                       THEN [dispute[c][t] EXCEPT !.status = outcome, !.remedy = remedy]
                       ELSE dispute[d][w]
  BY PutAt
<1>4. v \in DOMAIN submissions[c][t]
  BY DEF Decide
<1> QED BY <1>1, <1>2, <1>3, <1>4 DEF Decides, Untouched

\* So does every request of a moderator.
LEMMA ModeratorMoves ==
    ASSUME TypeOK, NEW m \in Moderators, NEW c \in Campaigns, NEW t \in Users,
           ModeratorStep(m, c, t), NEW d \in Campaigns, NEW w \in Users
    PROVE  WorkMove(d, w)
<1>1. Row(c, t) \in Assignment
  BY WorkTables DEF Row
<1>2. CASE ClaimDispute(m, c, t)
  <2>1. /\ dispute'[d][w] = IF d = c /\ w = t
                            THEN [dispute[c][t] EXCEPT !.status = "under_review", !.assigned_to = m]
                            ELSE dispute[d][w]
        /\ UNCHANGED <<assignment, submissions>>
        /\ dispute[c][t].status = "open"
    BY <1>2, PutAt DEF ClaimDispute, workVars
  <2>2. CASE d = c /\ w = t
    <3>1. Claims(c, t, m)
      BY <2>1, <2>2 DEF Claims
    <3> QED BY <2>2, <3>1 DEF WorkMove
  <2>3. CASE ~(d = c /\ w = t)
    BY <2>1, <2>3 DEF WorkMove, Untouched
  <2> QED BY <2>2, <2>3
<1>3. CASE RejectOverdueWork(m, c, t)
  <2> DEFINE row == [Row(c, t) EXCEPT !.status = "rejected", !.completed_at = TRUE]
  <2>3. row \in Assignment /\ row.status = "rejected"
    BY <1>1, WrittenRows
  <2>4. /\ dispute[c][t].status = "under_review" /\ Decide(c, t, "rejected")
        /\ assignment' = Put(assignment, c, t, row)
        /\ dispute' = Put(dispute, c, t,
                          [dispute[c][t] EXCEPT !.status = "rejected", !.remedy = "none"])
    BY <1>3 DEF RejectOverdueWork, Resolvable, Resolved
  <2>1. IF d = c /\ w = t
        THEN Decides(c, t, dispute[c][t].version, "rejected", "rejected", "none")
        ELSE Untouched(d, w)
    <3> HIDE DEF row
    <3> QED BY <2>3, <2>4, VerdictWork
  <2>2. Row(c, t).status = "submitted"
    BY <1>3 DEF RejectOverdueWork
  <2> QED BY <2>1, <2>2 DEF WorkMove, Overrules
<1>4. ASSUME NEW outcome \in {"resolved", "rejected"}, CloseWithoutAward(m, c, t, outcome)
      PROVE  WorkMove(d, w)
  <2>1. /\ dispute'[d][w] = IF d = c /\ w = t
                            THEN [dispute[c][t] EXCEPT !.status = outcome, !.remedy = "none"]
                            ELSE dispute[d][w]
        /\ UNCHANGED <<assignment, submissions>>
        /\ dispute[c][t].status = "under_review" /\ Row(c, t).status # "submitted"
    BY <1>4, PutAt DEF CloseWithoutAward, Resolved, Resolvable
  <2>2. CASE d = c /\ w = t
    <3>1. Dismisses(c, t, outcome)
      BY <2>1, <2>2 DEF Dismisses
    <3> QED BY <2>2, <3>1 DEF WorkMove
  <2>3. CASE ~(d = c /\ w = t)
    BY <2>1, <2>3 DEF WorkMove, Untouched
  <2> QED BY <2>2, <2>3
<1>5. CASE AwardTester(m, c, t)
  <2> DEFINE row == ApprovedRow(Row(c, t))
  <2>3. row \in Assignment /\ row.status = "approved"
    BY <1>1, WrittenRows
  <2>4. /\ dispute[c][t].status = "under_review" /\ Decide(c, t, "approved")
        /\ assignment' = Put(assignment, c, t, row)
        /\ dispute' = Put(dispute, c, t,
                          [dispute[c][t] EXCEPT !.status = "resolved", !.remedy = "award_tester"])
    BY <1>5 DEF AwardTester, Resolvable, Resolved
  <2>1. IF d = c /\ w = t
        THEN Decides(c, t, dispute[c][t].version, "approved", "resolved", "award_tester")
        ELSE Untouched(d, w)
    <3> HIDE DEF row
    <3> QED BY <2>3, <2>4, VerdictWork
  <2>2. Row(c, t).status \in {"submitted", "rejected"}
    BY <1>5 DEF AwardTester
  <2> QED BY <2>1, <2>2 DEF WorkMove, Awards
<1> QED BY <1>2, <1>3, <1>4, <1>5 DEF ModeratorStep

\* Every step moves the work of every tester in one of these ways.
LEMMA WorkMoves ==
    ASSUME TypeOK, [Next]_vars, NEW d \in Campaigns, NEW w \in Users
    PROVE  WorkMove(d, w)
<1>1. ASSUME \/ Tick \/ UNCHANGED vars
             \/ \E m \in Moderators, u \in Users : SuspendParticipant(m, u) \/ RestoreParticipant(m, u)
      PROVE  WorkMove(d, w)
  BY <1>1 DEF Tick, vars, SuspendParticipant, RestoreParticipant, workVars, WorkMove, Untouched
<1> QED BY <1>1, OwnerMoves, TesterMoves, ModeratorMoves DEF Next

-----------------------------------------------------------------------------
(* Assignment, versions and dispute agree *)

\* Every version but the last was sent back for changes, the last one agrees with the assignment,
\* nothing is submitted before the start, and what is not decided yet has no review.
Agree(status, subs) ==
    LET last == Len(subs)
    IN  /\ \A v \in 1 .. last - 1 : subs[v].status = "changes_requested"
        /\ status \in Settled => last > 0 /\ subs[last].status = status
        /\ last > 0 /\ status \notin Settled => subs[last].status = "changes_requested"
        /\ \A v \in 1 .. last : subs[v].status = "submitted" => subs[v].review = "none"

VersionsAgree(c, t) == Agree(Row(c, t).status, submissions[c][t])

\* A verdict on the last version, which its assignment takes over.
LEMMA WriteAgrees ==
    ASSUME NEW old, NEW subs \in Seq(Submission), NEW status \in Decision, NEW new,
           Agree(old, subs), Len(subs) > 0, Len(new) = Len(subs),
           \A i \in 1 .. Len(subs) - 1 : new[i] = subs[i],
           new[Len(subs)].status = status
    PROVE  Agree(status, new)
<1>1. Len(subs) \in Nat
  OBVIOUS
<1>2. \A i \in 1 .. Len(subs) : i = Len(subs) \/ i \in 1 .. Len(subs) - 1
  BY <1>1
<1> QED BY <1>1, <1>2 DEF Agree, Settled, Decision

\* A version more, when the one before was sent back.
LEMMA AppendAgrees ==
    ASSUME NEW old, NEW subs \in Seq(Submission), NEW new, Agree(old, subs), old \notin Settled,
           Len(new) = Len(subs) + 1, \A i \in 1 .. Len(subs) : new[i] = subs[i],
           new[Len(subs) + 1].status = "submitted", new[Len(subs) + 1].review = "none"
    PROVE  Agree("submitted", new)
<1>1. Len(subs) \in Nat
  OBVIOUS
<1>2. \A i \in 1 .. Len(subs) : i = Len(subs) \/ i \in 1 .. Len(subs) - 1
  BY <1>1
<1>3. \A i \in 1 .. Len(subs) : subs[i].status = "changes_requested"
  BY <1>1, <1>2 DEF Agree
<1>4. \A i \in 1 .. Len(subs) + 1 : i = Len(subs) + 1 \/ i \in 1 .. Len(subs)
  BY <1>1
<1> QED BY <1>1, <1>3, <1>4 DEF Agree, Settled

\* A dispute is about the last version, under way while the work is undecided or rejected, and
\* closed with the verdict that the assignment shows.
DisputeAgrees(c, t) ==
    LET d == dispute[c][t]
    IN  /\ d.status # "none" => d.version = Len(submissions[c][t])
        /\ d.status \in ActiveDispute => Row(c, t).status \in {"submitted", "rejected"}
        /\ d.status \in {"resolved", "rejected"} =>
             Row(c, t).status = IF d.remedy = "award_tester" THEN "approved" ELSE "rejected"

WorkSound == \A c \in Campaigns, t \in Users : VersionsAgree(c, t) /\ DisputeAgrees(c, t)

\* A verdict is about the last version, which is undecided or rejected.
LEMMA DecidesLast ==
    ASSUME TypeOK, WorkSound, NEW c \in Campaigns, NEW t \in Users, NEW v, NEW verdict,
           NEW outcome, NEW remedy, Decides(c, t, v, verdict, outcome, remedy)
    PROVE  /\ v = Len(submissions[c][t]) /\ v \in Nat \ {0}
           /\ Row(c, t).status \in {"submitted", "rejected"}
           /\ submissions[c][t][v].status = Row(c, t).status
<1>1. submissions[c][t] \in Seq(Submission)
  BY WorkTables
<1>2. /\ v = Len(submissions[c][t])
      /\ Row(c, t).status \in {"submitted", "rejected"}
  BY DEF Decides, WorkSound, DisputeAgrees, ActiveDispute
<1>3. VersionsAgree(c, t)
  BY DEF WorkSound
<1> QED BY <1>1, <1>2, <1>3 DEF VersionsAgree, Agree, Settled

\* A version under review is the last one.
LEMMA PendingIsLast ==
    ASSUME TypeOK, WorkSound, NEW c \in Campaigns, NEW t \in Users,
           NEW v \in DOMAIN submissions[c][t], submissions[c][t][v].status # "changes_requested"
    PROVE  v = Len(submissions[c][t]) /\ v \in Nat \ {0}
<1>1. submissions[c][t] \in Seq(Submission)
  BY WorkTables
<1>2. v \in 1 .. Len(submissions[c][t])
  BY <1>1
<1>3. \A i \in 1 .. Len(submissions[c][t]) - 1 : submissions[c][t][i].status = "changes_requested"
  BY DEF WorkSound, VersionsAgree, Agree
<1> QED BY <1>1, <1>2, <1>3

\* One version of a sequence written.
LEMMA VersionWritten ==
    ASSUME NEW subs \in Seq(Submission), NEW v \in DOMAIN subs, NEW row
    PROVE  LET new == [subs EXCEPT ![v] = row]
           IN  /\ Len(new) = Len(subs)
               /\ DOMAIN new = 1 .. Len(subs)
               /\ \A i \in 1 .. Len(subs) : new[i] = IF i = v THEN row ELSE subs[i]
<1>1. subs = [i \in 1 .. Len(subs) |-> subs[i]] /\ Len(subs) \in Nat
  OBVIOUS
<1>2. [subs EXCEPT ![v] = row] = [i \in 1 .. Len(subs) |-> IF i = v THEN row ELSE subs[i]]
  BY <1>1
<1> QED BY <1>1, <1>2

\* A verdict leaves versions and dispute in agreement.
LEMMA VerdictSound ==
    ASSUME TypeOK, WorkSound, NEW c \in Campaigns, NEW t \in Users, Awards(c, t) \/ Overrules(c, t)
    PROVE  (VersionsAgree(c, t) /\ DisputeAgrees(c, t))'
<1> DEFINE subs == submissions[c][t]
           v == dispute[c][t].version
<1>1. /\ subs \in Seq(Submission) /\ dispute[c][t] \in Dispute
      /\ VersionsAgree(c, t)
  BY WorkTables DEF WorkSound
<1>2. PICK verdict \in {"approved", "rejected"}, outcome \in {"resolved", "rejected"},
           remedy \in {"none", "award_tester"} :
        /\ Decides(c, t, v, verdict, outcome, remedy)
        /\ verdict = IF remedy = "award_tester" THEN "approved" ELSE "rejected"
  BY DEF Awards, Overrules
<1>3. v = Len(subs) /\ v \in Nat \ {0} /\ v \in DOMAIN subs
  BY <1>1, <1>2, DecidesLast
<1>4. subs[v] \in Submission
  BY <1>1, <1>3
<1>5. /\ Len(submissions'[c][t]) = Len(subs)
      /\ \A i \in 1 .. Len(subs) :
           submissions'[c][t][i] = IF i = v THEN [subs[v] EXCEPT !.status = verdict] ELSE subs[i]
  BY <1>1, <1>2, <1>3, VersionWritten DEF Decides
<1>6. [subs[v] EXCEPT !.status = verdict].status = verdict
  BY <1>4 DEF Submission
<1>7. assignment'[c][t].status = verdict
  BY <1>2 DEF Decides
<1>8. VersionsAgree(c, t)'
  <2>1. /\ Len(subs) > 0 /\ \A i \in 1 .. Len(subs) - 1 : submissions'[c][t][i] = subs[i]
        /\ submissions'[c][t][Len(subs)].status = verdict
    <3>1. Len(subs) \in 1 .. Len(subs) /\ \A i \in 1 .. Len(subs) - 1 : i \in 1 .. Len(subs) /\ i # v
      BY <1>3
    <3>2. submissions'[c][t][v] = [subs[v] EXCEPT !.status = verdict]
      BY <1>3, <1>5, <3>1
    <3>3. ASSUME NEW i \in 1 .. Len(subs) - 1 PROVE submissions'[c][t][i] = subs[i]
      BY <1>5, <3>1
    <3> QED BY <1>3, <1>6, <3>2, <3>3
  <2>2. Agree(verdict, submissions'[c][t])
    BY <1>1, <1>5, <2>1, WriteAgrees DEF VersionsAgree, Decision
  <2> QED BY <1>7, <2>2 DEF VersionsAgree, Row
<1>9. dispute'[c][t].status = outcome /\ dispute'[c][t].remedy = remedy /\ dispute'[c][t].version = v
  BY <1>1, <1>2 DEF Decides, Dispute
<1>10. DisputeAgrees(c, t)'
  BY <1>2, <1>3, <1>5, <1>7, <1>9 DEF DisputeAgrees, Row, ActiveDispute
<1> QED BY <1>8, <1>10

\* So does a review.
LEMMA ReviewSound ==
    ASSUME TypeOK, WorkSound, NEW c \in Campaigns, NEW t \in Users,
           NEW v \in DOMAIN submissions[c][t], NEW decision \in Decision,
           Reviews(c, t, v, decision)
    PROVE  (VersionsAgree(c, t) /\ DisputeAgrees(c, t))'
<1> DEFINE subs == submissions[c][t]
           version == [subs[v] EXCEPT !.status = decision, !.review = decision]
<1>1. /\ subs \in Seq(Submission) /\ dispute[c][t] \in Dispute
      /\ VersionsAgree(c, t) /\ DisputeAgrees(c, t)
  BY WorkTables DEF WorkSound
<1>2. v = Len(subs) /\ v \in Nat \ {0} /\ subs[v] \in Submission
  BY <1>1, PendingIsLast DEF Reviews
<1>3. /\ Len(submissions'[c][t]) = Len(subs)
      /\ \A i \in 1 .. Len(subs) : submissions'[c][t][i] = IF i = v THEN version ELSE subs[i]
  BY <1>1, VersionWritten DEF Reviews
<1>4. version.status = decision
  BY <1>2 DEF Submission
<1>5. assignment'[c][t].status = decision /\ decision # "submitted"
  BY DEF Reviews, Decision
<1>6. VersionsAgree(c, t)'
  <2>1. /\ Len(subs) > 0 /\ \A i \in 1 .. Len(subs) - 1 : submissions'[c][t][i] = subs[i]
        /\ submissions'[c][t][Len(subs)].status = decision
    <3>1. Len(subs) \in 1 .. Len(subs) /\ \A i \in 1 .. Len(subs) - 1 : i \in 1 .. Len(subs) /\ i # v
      BY <1>2
    <3>2. submissions'[c][t][v] = version
      BY <1>2, <1>3, <3>1
    <3>3. ASSUME NEW i \in 1 .. Len(subs) - 1 PROVE submissions'[c][t][i] = subs[i]
      BY <1>3, <3>1
    <3> QED BY <1>2, <1>4, <3>2, <3>3
  <2>2. Agree(decision, submissions'[c][t])
    BY <1>1, <1>3, <2>1, WriteAgrees DEF VersionsAgree
  <2> QED BY <1>5, <2>2 DEF VersionsAgree, Row
<1>7. dispute[c][t].status = "none"
  BY <1>1 DEF Reviews, DisputeAgrees, ActiveDispute, Dispute, DisputeStatus
<1> QED BY <1>6, <1>7 DEF DisputeAgrees, Reviews, ActiveDispute

\* So does a submission.
LEMMA SubmitSound ==
    ASSUME TypeOK, WorkSound, NEW c \in Campaigns, NEW t \in Users, Submits(c, t)
    PROVE  (VersionsAgree(c, t) /\ DisputeAgrees(c, t))'
<1> DEFINE subs == submissions[c][t]
           version == [status |-> "submitted", submitted_at |-> now, review |-> "none"]
<1>1. /\ subs \in Seq(Submission) /\ dispute[c][t] \in Dispute
      /\ VersionsAgree(c, t) /\ DisputeAgrees(c, t)
  BY WorkTables DEF WorkSound
<1>2. /\ Len(submissions'[c][t]) = Len(subs) + 1
      /\ \A i \in 1 .. Len(subs) : submissions'[c][t][i] = subs[i]
      /\ submissions'[c][t][Len(subs) + 1] = version
  BY <1>1 DEF Submits
<1>3. Row(c, t).status \notin Settled /\ assignment'[c][t].status = "submitted"
  BY DEF Submits, Testing, Settled
<1>4. Agree("submitted", submissions'[c][t])
  <2>1. Agree(Row(c, t).status, subs)
    BY <1>1 DEF VersionsAgree
  <2> DEFINE new == submissions'[c][t]
  <2>2. /\ Len(new) = Len(subs) + 1 /\ \A i \in 1 .. Len(subs) : new[i] = subs[i]
        /\ new[Len(subs) + 1].status = "submitted" /\ new[Len(subs) + 1].review = "none"
    BY <1>2
  <2> DEFINE old == Row(c, t).status
  <2>3. subs \in Seq(Submission) /\ old \notin Settled /\ Agree(old, subs)
    BY <1>1, <1>3, <2>1
  <2> HIDE DEF new, subs, old
  <2>4. ASSUME NEW x PROVE (x = new => Agree("submitted", x))
    BY <2>2, <2>3, AppendAgrees
  <2>5. Agree("submitted", new)
    BY <2>4
  <2> QED BY <2>5 DEF new
<1>5. VersionsAgree(c, t)'
  BY <1>3, <1>4 DEF VersionsAgree, Row
<1>6. dispute[c][t].status = "none"
  BY <1>1, <1>3 DEF DisputeAgrees, ActiveDispute, Dispute, DisputeStatus, Settled
<1> QED BY <1>5, <1>6 DEF DisputeAgrees, Submits, ActiveDispute

\* Every step keeps the work of every tester sound.
LEMMA WorkSoundStep ==
    ASSUME TypeOK, WorkSound, [Next]_vars
    PROVE  WorkSound'
<1> SUFFICES ASSUME NEW c \in Campaigns, NEW t \in Users
             PROVE  (VersionsAgree(c, t) /\ DisputeAgrees(c, t))'
  BY DEF WorkSound
<1>1. WorkMove(c, t) /\ VersionsAgree(c, t) /\ DisputeAgrees(c, t) /\ dispute[c][t] \in Dispute
  BY WorkMoves, WorkTables DEF WorkSound
<1>2. CASE Untouched(c, t)
  BY <1>1, <1>2 DEF Untouched, VersionsAgree, DisputeAgrees, Row
<1>3. CASE Prepares(c, t)
  <2>1. dispute[c][t].status = "none"
    BY <1>1, <1>3 DEF Prepares, DisputeAgrees, ActiveDispute, Dispute, DisputeStatus, Settled
  <2>2. VersionsAgree(c, t)'
    BY <1>1, <1>3 DEF Prepares, VersionsAgree, Agree, Row
  <2> QED BY <1>3, <2>1, <2>2 DEF Prepares, DisputeAgrees, ActiveDispute
<1>4. ASSUME NEW v \in DOMAIN submissions[c][t], Escalates(c, t, v)
      PROVE  (VersionsAgree(c, t) /\ DisputeAgrees(c, t))'
  <2>1. v = Len(submissions[c][t])
    BY <1>4, PendingIsLast DEF Escalates
  <2>2. dispute'[c][t].status = "open" /\ dispute'[c][t].version = v
    BY <1>1, <1>4 DEF Escalates, Dispute
  <2> QED BY <1>1, <1>4, <2>1, <2>2 DEF Escalates, VersionsAgree, DisputeAgrees, Row
<1>5. ASSUME NEW m \in Moderators, Claims(c, t, m)
      PROVE  (VersionsAgree(c, t) /\ DisputeAgrees(c, t))'
  <2>1. dispute'[c][t].status = "under_review" /\ dispute'[c][t].version = dispute[c][t].version
    BY <1>1, <1>5 DEF Claims, Dispute
  <2> QED BY <1>1, <1>5, <2>1 DEF Claims, VersionsAgree, DisputeAgrees, Row, ActiveDispute
<1>6. ASSUME NEW outcome \in {"resolved", "rejected"}, Dismisses(c, t, outcome)
      PROVE  (VersionsAgree(c, t) /\ DisputeAgrees(c, t))'
  <2>1. /\ dispute'[c][t].status = outcome /\ dispute'[c][t].version = dispute[c][t].version
        /\ dispute'[c][t].remedy = "none"
    BY <1>1, <1>6 DEF Dismisses, Dispute
  <2> QED BY <1>1, <1>6, <2>1 DEF Dismisses, VersionsAgree, DisputeAgrees, Row, ActiveDispute
<1> QED BY <1>1, <1>2, <1>3, <1>4, <1>5, <1>6, ReviewSound, SubmitSound, VerdictSound DEF WorkMove

\* It holds when nothing has been done.
LEMMA WorkSoundInit == Init => WorkSound
BY DEF Init, NoAssignment, NoDispute, WorkSound, VersionsAgree, Agree, DisputeAgrees, Settled, Row, ActiveDispute

\* It holds in every state.
LEMMA WorkSoundTheorem == Spec => []WorkSound
<1>1. TypeOK /\ WorkSound /\ [Next]_vars => WorkSound'
  BY WorkSoundStep
<1> QED BY WorkSoundInit, <1>1, TypeCorrect, PTL DEF Spec

\* An assignment and its latest submission agree, and only a version whose changes were requested
\* is ever followed by another (create_submission, create_review, resolve_dispute).
THEOREM LatestSubmissionTheorem == Spec => []LatestSubmissionDecides
<1>1. WorkSound => LatestSubmissionDecides
  BY DEF WorkSound, VersionsAgree, Agree, LatestSubmissionDecides, Versions, Latest, Settled
<1> QED BY <1>1, WorkSoundTheorem, PTL

\* A dispute under way is about the latest submission, undecided or rejected, and a closed one has
\* left its verdict with the assignment (open_dispute, resolve_dispute).
THEOREM DisputeTheorem == Spec => []DisputeMatchesWork
<1>1. WorkSound => DisputeMatchesWork
  BY DEF WorkSound, DisputeAgrees, DisputeMatchesWork, Versions
<1> QED BY <1>1, WorkSoundTheorem, PTL

-----------------------------------------------------------------------------
(* Evidence and reviews are never rewritten *)

Kept(c, t, old, new) ==
    /\ new.submitted_at = old.submitted_at
    /\ old.review # "none" => new.review = old.review
    /\ new.status # old.status =>
         \/ old.status = "submitted"
         \/ /\ old.status = "rejected"
            /\ new.status = "approved"
            /\ dispute[c][t].status = "under_review"

VersionsKept(c, t) ==
    /\ Len(submissions'[c][t]) >= Len(submissions[c][t])
    /\ \A v \in 1 .. Len(submissions[c][t]) :
         Kept(c, t, submissions[c][t][v], submissions'[c][t][v])

\* Every step keeps the versions of an assignment's work.
LEMMA EvidenceStep ==
    ASSUME TypeOK, WorkSound, [Next]_vars, NEW c \in Campaigns, NEW t \in Users
    PROVE  VersionsKept(c, t)
<1> DEFINE subs == submissions[c][t]
<1>1. subs \in Seq(Submission) /\ Len(subs) \in Nat /\ WorkMove(c, t) /\ VersionsAgree(c, t)
  BY WorkMoves, WorkTables DEF WorkSound
<1>2. CASE UNCHANGED submissions[c][t]
  BY <1>1, <1>2 DEF VersionsKept, Kept
<1>3. CASE Submits(c, t)
  <2>1. /\ Len(submissions'[c][t]) = Len(subs) + 1
        /\ \A i \in 1 .. Len(subs) : submissions'[c][t][i] = subs[i]
    BY <1>1, <1>3 DEF Submits
  <2>2. \A i \in 1 .. Len(subs) : Kept(c, t, subs[i], submissions'[c][t][i])
    BY <2>1 DEF Kept
  <2>3. Len(submissions'[c][t]) >= Len(subs)
    BY <1>1, <2>1
  <2> QED BY <2>2, <2>3 DEF VersionsKept
<1>4. ASSUME NEW v \in DOMAIN subs, NEW decision \in Decision, Reviews(c, t, v, decision)
      PROVE  VersionsKept(c, t)
  <2> DEFINE version == [subs[v] EXCEPT !.status = decision, !.review = decision]
  <2>1. /\ Len(submissions'[c][t]) = Len(subs)
        /\ \A i \in 1 .. Len(subs) : submissions'[c][t][i] = IF i = v THEN version ELSE subs[i]
    BY <1>1, <1>4, VersionWritten DEF Reviews
  <2>2. v \in 1 .. Len(subs) /\ subs[v] \in Submission
    BY <1>1
  <2>3. subs[v].status = "submitted" /\ subs[v].review = "none"
    BY <1>1, <1>4, <2>2 DEF Reviews, VersionsAgree, Agree
  <2>4. version.submitted_at = subs[v].submitted_at
    BY <2>2 DEF Submission
  <2>5. Kept(c, t, subs[v], version)
    BY <2>3, <2>4 DEF Kept
  <2>6. \A i \in 1 .. Len(subs) : Kept(c, t, subs[i], submissions'[c][t][i])
    BY <2>1, <2>5 DEF Kept
  <2>7. Len(submissions'[c][t]) >= Len(subs)
    BY <1>1, <2>1
  <2> QED BY <2>6, <2>7 DEF VersionsKept
<1>5. ASSUME Awards(c, t) \/ Overrules(c, t) PROVE VersionsKept(c, t)
  <2> DEFINE v == dispute[c][t].version
  <2>1. PICK verdict \in {"approved", "rejected"}, outcome \in {"resolved", "rejected"},
            remedy \in {"none", "award_tester"} :
          /\ Decides(c, t, v, verdict, outcome, remedy)
          /\ verdict = "rejected" => Row(c, t).status = "submitted"
    BY <1>5 DEF Awards, Overrules
  <2> DEFINE version == [subs[v] EXCEPT !.status = verdict]
  <2>2. /\ v \in DOMAIN subs /\ dispute[c][t].status = "under_review"
        /\ submissions'[c][t] = [subs EXCEPT ![v] = version]
    BY <2>1 DEF Decides
  <2>3. /\ Len(submissions'[c][t]) = Len(subs)
        /\ \A i \in 1 .. Len(subs) : submissions'[c][t][i] = IF i = v THEN version ELSE subs[i]
    <3> HIDE DEF subs, v, version
    <3> QED BY <1>1, <2>2, VersionWritten
  <2>4. /\ Row(c, t).status \in {"submitted", "rejected"}
        /\ subs[v].status = Row(c, t).status /\ subs[v] \in Submission
    <3>1. subs[v] \in Submission
      BY <1>1, <2>2
    <3>2. Row(c, t).status \in {"submitted", "rejected"} /\ subs[v].status = Row(c, t).status
      BY <2>1, DecidesLast
    <3> QED BY <3>1, <3>2
  <2>5. /\ version.submitted_at = subs[v].submitted_at /\ version.review = subs[v].review
        /\ version.status = verdict
    BY <2>4 DEF Submission
  <2>6. Kept(c, t, subs[v], version)
    BY <2>1, <2>2, <2>4, <2>5 DEF Kept
  <2>7. \A i \in 1 .. Len(subs) : Kept(c, t, subs[i], submissions'[c][t][i])
    BY <2>3, <2>6 DEF Kept
  <2>8. Len(submissions'[c][t]) >= Len(subs)
    BY <1>1, <2>3
  <2> QED BY <2>7, <2>8 DEF VersionsKept
<1> QED BY <1>1, <1>2, <1>3, <1>4, <1>5
        DEF WorkMove, Untouched, Prepares, Escalates, Claims, Dismisses

\* Versions are only appended, an owner's review is written once, and a decided version changes only
\* from rejected to approved, by its dispute (create_submission, create_review, resolve_dispute).
THEOREM EvidenceTheorem == Spec => EvidenceKept
<1>1. TypeOK /\ WorkSound /\ [Next]_vars => \A c \in Campaigns, t \in Users : VersionsKept(c, t)
  BY EvidenceStep
<1>2. (\A c \in Campaigns, t \in Users : VersionsKept(c, t)) =>
        [\A c \in Campaigns, t \in Users : \A v \in 1 .. Versions(c, t) :
          LET old == submissions[c][t][v]
              new == submissions'[c][t][v]
          IN  /\ Len(submissions'[c][t]) >= Versions(c, t)
              /\ new.submitted_at = old.submitted_at
              /\ old.review # "none" => new.review = old.review
              /\ new.status # old.status =>
                   \/ old.status = "submitted"
                   \/ /\ old.status = "rejected"
                      /\ new.status = "approved"
                      /\ dispute[c][t].status = "under_review"]_vars
  BY DEF VersionsKept, Kept, Versions
<1> QED BY <1>1, <1>2, TypeCorrect, WorkSoundTheorem, PTL DEF Spec, EvidenceKept

-----------------------------------------------------------------------------
(* Sessions, and the work that an escalation freezes *)

\* A session is the day of today, recorded by a tester at work.
SessionMove(c, t) ==
    \/ UNCHANGED sessions[c][t]
    \/ /\ Row(c, t).status \in {"accepted", "in_progress", "changes_requested"}
       /\ sessions'[c][t] = sessions[c][t] \cup {Today}

\* Sessions are only ever recorded, and only for today, on work under way.
LEMMA SessionStep ==
    ASSUME TypeOK, [Next]_vars, NEW d \in Campaigns, NEW w \in Users
    PROVE  SessionMove(d, w)
<1>1. ASSUME NEW u \in Users, NEW c \in Campaigns, OwnerStep(u, c)
      PROVE  UNCHANGED sessions
  <2>1. ASSUME NEW t \in Users, NEW v \in DOMAIN submissions[c][t],
               ApproveSubmission(u, c, t, v) \/ RequestChanges(u, c, t, v)
                 \/ RejectSubmission(u, c, t, v)
        PROVE  UNCHANGED sessions
    BY <2>1 DEF ApproveSubmission, RequestChanges, RejectSubmission, Reviewed
  <2>2. ASSUME NEW t \in Users, AcceptAssignment(u, c, t) \/ DeclineAssignment(u, c, t)
        PROVE  UNCHANGED sessions
    BY <2>2 DEF AcceptAssignment, DeclineAssignment, unchangedByOwner
  <2>3. ASSUME \/ PublishCampaign(u, c) \/ PauseCampaign(u, c) \/ ResumeCampaign(u, c)
               \/ CloseCampaign(u, c) \/ \E terms \in Terms : UpsertContract(u, c, terms)
        PROVE  UNCHANGED sessions
    BY <2>3 DEF PublishCampaign, PauseCampaign, ResumeCampaign, CloseCampaign, UpsertContract,
                unchangedByOwner
  <2>4. ASSUME NEW target \in Targets, NEW reward \in Rewards,
               \/ CreateCampaign(u, c, target, reward)
               \/ UpdateCampaign(u, c, target, reward)
               \/ \E terms \in Terms : LaunchCampaign(u, c, target, reward, terms)
        PROVE  UNCHANGED sessions
    BY <2>4 DEF CreateCampaign, UpdateCampaign, LaunchCampaign, unchangedByOwner
  <2> QED BY <1>1, <2>1, <2>2, <2>3, <2>4 DEF OwnerStep
<1>2. ASSUME NEW t \in Users, NEW c \in Campaigns, TesterStep(t, c) PROVE SessionMove(d, w)
  <2>1. CASE StartAssignment(t, c) \/ RecordTestingSession(t, c)
    <3>1. /\ Row(c, t).status \in {"accepted", "in_progress", "changes_requested"}
          /\ sessions' = Put(sessions, c, t, sessions[c][t] \cup {Today})
      BY <2>1 DEF StartAssignment, RecordTestingSession, Testing
    <3>2. sessions'[d][w] = IF d = c /\ w = t THEN sessions[c][t] \cup {Today} ELSE sessions[d][w]
      BY <3>1, WorkTables DEF Put
    <3> QED BY <3>1, <3>2 DEF SessionMove
  <2>2. ASSUME NEW v \in DOMAIN submissions[c][t], OpenDispute(t, c, v)
        PROVE  UNCHANGED sessions
    BY <2>2 DEF OpenDispute, workVars
  <2>3. CASE ApplyToCampaign(t, c) \/ WithdrawAssignment(t, c) \/ CreateSubmission(t, c)
    BY <2>3 DEF ApplyToCampaign, WithdrawAssignment, CreateSubmission, unchangedByOwner, SessionMove
  <2> QED BY <1>2, <2>1, <2>2, <2>3 DEF TesterStep, SessionMove
<1>3. ASSUME NEW m \in Moderators, NEW c \in Campaigns, NEW t \in Users, ModeratorStep(m, c, t)
      PROVE  UNCHANGED sessions
  BY <1>3 DEF ModeratorStep, ClaimDispute, RejectOverdueWork, CloseWithoutAward, AwardTester,
              Resolved, workVars
<1>4. ASSUME \/ Tick \/ UNCHANGED vars
             \/ \E m \in Moderators, u \in Users : SuspendParticipant(m, u) \/ RestoreParticipant(m, u)
      PROVE  UNCHANGED sessions
  BY <1>4 DEF Tick, vars, SuspendParticipant, RestoreParticipant, workVars
<1> QED BY <1>1, <1>2, <1>3, <1>4 DEF Next, SessionMove

\* While a dispute is under way no step touches the work it is about.
LEMMA FreezeStep ==
    ASSUME TypeOK, WorkSound, [Next]_vars, NEW c \in Campaigns, NEW t \in Users,
           dispute[c][t].status \in ActiveDispute, dispute'[c][t].status \in ActiveDispute
    PROVE  UNCHANGED <<assignment[c][t], submissions[c][t], sessions[c][t]>>
<1>1. Row(c, t).status \in {"submitted", "rejected"} /\ dispute[c][t] \in Dispute
  BY WorkTables DEF WorkSound, DisputeAgrees
<1>2. WorkMove(c, t) /\ SessionMove(c, t)
  BY WorkMoves, SessionStep
<1>3. UNCHANGED sessions[c][t]
  BY <1>1, <1>2 DEF SessionMove
<1>4. ~Submits(c, t) /\ \A v \in DOMAIN submissions[c][t], decision \in Decision :
                          ~Reviews(c, t, v, decision)
  BY <1>1 DEF Submits, Testing, Reviews
<1>5. ~Awards(c, t) /\ ~Overrules(c, t)
  <2>1. ASSUME NEW outcome \in {"resolved", "rejected"}, NEW remedy
        PROVE  [dispute[c][t] EXCEPT !.status = outcome, !.remedy = remedy].status = outcome
    BY <1>1 DEF Dispute
  <2> QED BY <2>1 DEF Awards, Overrules, Decides, ActiveDispute
<1>6. \A outcome \in {"resolved", "rejected"} : ~Dismisses(c, t, outcome)
  <2>1. ASSUME NEW outcome \in {"resolved", "rejected"}
        PROVE  [dispute[c][t] EXCEPT !.status = outcome, !.remedy = "none"].status = outcome
    BY <1>1 DEF Dispute
  <2> QED BY <2>1 DEF Dismisses, ActiveDispute
<1>7. ~Prepares(c, t) \/ UNCHANGED assignment[c][t]
  <2>1. CASE Row(c, t).status = "submitted"
    BY <2>1 DEF Prepares, Settled
  <2>2. CASE Row(c, t).status = "rejected"
    BY <2>2 DEF Prepares, Settled
  <2> QED BY <1>1, <2>1, <2>2
<1> QED BY <1>2, <1>3, <1>4, <1>5, <1>6, <1>7
        DEF WorkMove, Untouched, Prepares, Escalates, Claims

\* While a moderator handles an escalation, neither party changes the work it is about
\* (create_review refuses, and the assignment admits no other request).
THEOREM FreezeTheorem == Spec => EscalationFreezesWork
<1>1. TypeOK /\ WorkSound /\ [Next]_vars =>
        [\A c \in Campaigns, t \in Users :
          dispute[c][t].status \in ActiveDispute /\ dispute'[c][t].status \in ActiveDispute =>
              UNCHANGED <<assignment[c][t], submissions[c][t], sessions[c][t]>>]_vars
  BY FreezeStep
<1> QED BY <1>1, TypeCorrect, WorkSoundTheorem, PTL DEF Spec, EscalationFreezesWork

-----------------------------------------------------------------------------
(* The offer of a campaign *)

Recruiting == {"published", "paused"}

\* An offer is made in the draft; later requests change the status alone, and what is completed or
\* cancelled never recruits again.
OfferMove(d) ==
    \/ campaign'[d] = campaign[d]
    \/ Drafted(d) /\ campaign'[d].target \in Targets
    \/ /\ campaign[d].status # "none"
       /\ campaign'[d].target = campaign[d].target
       /\ campaign'[d].status \in Recruiting => campaign[d].status \notin {"completed", "cancelled"}

\* A request that writes the status of one campaign.
LEMMA StatusOffer ==
    ASSUME TypeOK, NEW c \in Campaigns, NEW status,
           campaign' = [campaign EXCEPT ![c].status = status],
           campaign[c].status # "none",
           status \in Recruiting => campaign[c].status \notin {"completed", "cancelled"},
           NEW d \in Campaigns
    PROVE  OfferMove(d)
<1>1. campaign \in [Campaigns -> Campaign] /\ campaign[c] \in Campaign
  BY DEF TypeOK
<1>2. CASE d # c
  BY <1>1, <1>2 DEF OfferMove
<1>3. CASE d = c
  <2>1. campaign'[c] = [campaign[c] EXCEPT !.status = status]
    BY <1>1
  <2>2. campaign'[c].status = status /\ campaign'[c].target = campaign[c].target
    BY <1>1, <2>1 DEF Campaign
  <2> QED BY <1>3, <2>2 DEF OfferMove
<1> QED BY <1>2, <1>3

\* maybe_complete_campaign at the end of a request.
LEMMA CompletedOffer ==
    ASSUME TypeOK, NEW c \in Campaigns, NEW rows,
           campaign' = [campaign EXCEPT ![c] = MaybeCompleted(@, rows)],
           NEW d \in Campaigns
    PROVE  OfferMove(d)
<1>1. campaign \in [Campaigns -> Campaign] /\ campaign[c] \in Campaign
  BY DEF TypeOK
<1>2. CASE d # c
  BY <1>1, <1>2 DEF OfferMove
<1>3. ASSUME d = c, ~CompletionDue(campaign[c], rows) PROVE OfferMove(d)
  BY <1>1, <1>3 DEF MaybeCompleted, OfferMove
<1>4. ASSUME d = c, CompletionDue(campaign[c], rows) PROVE OfferMove(d)
  <2>1. campaign'[c] = [campaign[c] EXCEPT !.status = "completed"]
    BY <1>1, <1>4 DEF MaybeCompleted
  <2>2. campaign'[c].status = "completed" /\ campaign'[c].target = campaign[c].target
    BY <1>1, <2>1 DEF Campaign
  <2>3. campaign[c].status # "none"
    BY <1>4 DEF CompletionDue, TargetReached, ClosedWorkSettled
  <2> QED BY <1>4, <2>2, <2>3 DEF OfferMove, Recruiting
<1> QED BY <1>2, <1>3, <1>4

\* Closing a campaign changes what it offers as OfferMove says.
LEMMA CloseOffer ==
    ASSUME TypeOK, NEW u \in Users, NEW c \in Campaigns, CloseCampaign(u, c), NEW d \in Campaigns
    PROVE  OfferMove(d)
<1> DEFINE closed == [campaign[c] EXCEPT !.status = "cancelled"]
           rows == Closing(assignment[c])
<1>1. campaign \in [Campaigns -> Campaign] /\ campaign[c] \in Campaign
  BY DEF TypeOK
<1>2. /\ campaign' = [campaign EXCEPT ![c] = MaybeCompleted(closed, rows)]
      /\ campaign[c].status \in {"published", "paused"}
  BY DEF CloseCampaign
<1>3. \/ campaign'[c] = [campaign[c] EXCEPT !.status = "cancelled"]
      \/ campaign'[c] = [campaign[c] EXCEPT !.status = "completed"]
  BY <1>1, <1>2 DEF MaybeCompleted, Campaign
<1>4. campaign'[c].target = campaign[c].target
  BY <1>1, <1>3 DEF Campaign
<1>5. CASE d # c
  BY <1>1, <1>2, <1>5 DEF OfferMove
<1> QED BY <1>2, <1>4, <1>5 DEF OfferMove

\* So does writing or launching a draft.
LEMMA DraftOffer ==
    ASSUME TypeOK, NEW u \in Users, NEW c \in Campaigns, NEW target \in Targets,
           NEW reward \in Rewards,
           \/ CreateCampaign(u, c, target, reward)
           \/ UpdateCampaign(u, c, target, reward)
           \/ \E terms \in Terms : LaunchCampaign(u, c, target, reward, terms),
           NEW d \in Campaigns
    PROVE  OfferMove(d)
<1>1. campaign \in [Campaigns -> Campaign] /\ campaign[c] \in Campaign
  BY DEF TypeOK
<1>2. CASE CreateCampaign(u, c, target, reward)
  BY <1>1, <1>2 DEF CreateCampaign, DraftRow, OfferMove, Drafted
<1>3. CASE UpdateCampaign(u, c, target, reward)
  <2>1. campaign'[c] = [campaign[c] EXCEPT !.target = target, !.reward = reward]
    BY <1>1, <1>3 DEF UpdateCampaign
  <2>2. campaign'[c].target = target
    BY <1>1, <2>1 DEF Campaign
  <2>3. d # c => campaign'[d] = campaign[d]
    BY <1>1, <1>3 DEF UpdateCampaign
  <2> QED BY <1>3, <2>2, <2>3 DEF OfferMove, UpdateCampaign, Drafted
<1>4. CASE \E terms \in Terms : LaunchCampaign(u, c, target, reward, terms)
  BY <1>1, <1>4 DEF LaunchCampaign, DraftRow, OfferMove, Drafted
<1> QED BY <1>2, <1>3, <1>4

\* Every step moves every offer in that way.
LEMMA OfferMoves ==
    ASSUME TypeOK, [Next]_vars, NEW d \in Campaigns
    PROVE  OfferMove(d)
<1>1. ASSUME UNCHANGED campaign PROVE OfferMove(d)
  BY <1>1 DEF OfferMove
<1>2. ASSUME NEW u \in Users, NEW c \in Campaigns, OwnerStep(u, c) PROVE OfferMove(d)
  <2>1. ASSUME PublishCampaign(u, c) \/ PauseCampaign(u, c) \/ ResumeCampaign(u, c)
        PROVE  OfferMove(d)
    <3>1. campaign[c].status \in {"draft", "published", "paused"}
      BY <2>1 DEF PublishCampaign, PauseCampaign, ResumeCampaign
    <3>2. \E status \in Recruiting : campaign' = [campaign EXCEPT ![c].status = status]
      BY <2>1 DEF PublishCampaign, PauseCampaign, ResumeCampaign, Recruiting
    <3> QED BY <3>1, <3>2, StatusOffer
  <2>2. ASSUME NEW t \in Users, NEW v \in DOMAIN submissions[c][t],
               ApproveSubmission(u, c, t, v) \/ RequestChanges(u, c, t, v)
                 \/ RejectSubmission(u, c, t, v)
        PROVE  OfferMove(d)
    BY <1>1, <2>2, CompletedOffer DEF ApproveSubmission, RequestChanges, RejectSubmission
  <2>3. ASSUME NEW t \in Users, AcceptAssignment(u, c, t) \/ DeclineAssignment(u, c, t)
        PROVE  OfferMove(d)
    BY <1>1, <2>3 DEF AcceptAssignment, DeclineAssignment, campaignVars
  <2>4. ASSUME NEW terms \in Terms, UpsertContract(u, c, terms) PROVE OfferMove(d)
    BY <1>1, <2>4 DEF UpsertContract
  <2> QED BY <1>2, <2>1, <2>2, <2>3, <2>4, DraftOffer, CloseOffer DEF OwnerStep
<1>3. ASSUME NEW t \in Users, NEW c \in Campaigns, TesterStep(t, c) PROVE OfferMove(d)
  <2>1. CASE WithdrawAssignment(t, c)
    BY <2>1, CompletedOffer DEF WithdrawAssignment
  <2>2. CASE ~WithdrawAssignment(t, c)
    BY <1>1, <1>3, <2>2 DEF TesterStep, ApplyToCampaign, StartAssignment, RecordTestingSession,
                            CreateSubmission, OpenDispute, campaignVars
  <2> QED BY <2>1, <2>2
<1>4. ASSUME NEW m \in Moderators, NEW c \in Campaigns, NEW t \in Users, ModeratorStep(m, c, t)
      PROVE  OfferMove(d)
  BY <1>1, <1>4, CompletedOffer
     DEF ModeratorStep, ClaimDispute, RejectOverdueWork, CloseWithoutAward, AwardTester, campaignVars
<1>5. ASSUME NEW m \in Moderators, NEW u \in Users,
             SuspendParticipant(m, u) \/ RestoreParticipant(m, u)
      PROVE  OfferMove(d)
  BY <1>1, <1>5 DEF SuspendParticipant, RestoreParticipant, campaignVars
<1>6. CASE Tick \/ UNCHANGED vars
  BY <1>1, <1>6 DEF Tick, vars, campaignVars
<1> QED BY <1>2, <1>3, <1>4, <1>5, <1>6 DEF Next

\* A campaign that exists seats somebody.
TargetPositive == \A c \in Campaigns : campaign[c].status # "none" => campaign[c].target > 0

\* Every step keeps the targets positive.
LEMMA TargetPositiveStep ==
    ASSUME TypeOK, TargetPositive, [Next]_vars
    PROVE  TargetPositive'
<1>1. ASSUME NEW d \in Campaigns, campaign'[d].status # "none" PROVE campaign'[d].target > 0
  <2>1. OfferMove(d)
    BY OfferMoves
  <2>2. \A target \in Targets : target > 0
    BY OfferAssumption
  <2>3. campaign[d].status # "none" => campaign[d].target > 0
    BY DEF TargetPositive
  <2> QED BY <1>1, <2>1, <2>2, <2>3 DEF OfferMove
<1> QED BY <1>1 DEF TargetPositive

-----------------------------------------------------------------------------
(* Recruitment stops with the last approval *)

\* What the seats of a campaign are counted in is finite.
LEMMA RowsFinite ==
    ASSUME NEW S \in SUBSET Users
    PROVE  IsFiniteSet(S) /\ Cardinality(S) \in Nat
BY UsersAssumption, FS_Subset, FS_CardinalityType

\* Nobody has a row of a draft, and the step that publishes it writes none.
LEMMA DraftIsEmpty ==
    ASSUME TypeOK, References, [Next]_vars, NEW d \in Campaigns, Drafted(d)
    PROVE  Occupied(assignment'[d]) = {} /\ Approved(assignment'[d]) = {}
<1>1. ASSUME NEW w \in Users PROVE assignment'[d][w].status \in {"none", "applied"}
  <2>1. Row(d, w).status = "none"
    BY DEF References, Drafted
  <2>2. CASE \A c \in Campaigns, t \in Users : Moved(c, t)
    BY <2>1, <2>2 DEF Moved, MovesTo
  <2>3. CASE UNCHANGED assignment
    BY <2>1, <2>3 DEF Row
  <2>4. ASSUME NEW c \in Campaigns, NEW t \in Users, Approves(c, t)
        PROVE  assignment'[d][w].status = "none"
    <3>1. c # d \/ t # w
      BY <2>1, <2>4 DEF Approves
    <3>2. assignment'[d][w] = assignment[d][w]
      BY <2>4, <3>1, PutAt DEF Approves
    <3> QED BY <2>1, <3>2 DEF Row
  <2> QED BY <2>2, <2>3, <2>4, WorkStep
<1> QED BY <1>1 DEF Occupied, OccupiedStatus, Approved

\* An approval is written by a request that counts the approvals afterwards.
LEMMA ApprovalCounts ==
    ASSUME TypeOK, [Next]_vars, NEW d \in Campaigns
    PROVE  \/ Approved(assignment'[d]) \subseteq Approved(assignment[d])
           \/ campaign'[d] = MaybeCompleted(campaign[d], assignment'[d])
<1>1. CASE \A c \in Campaigns, t \in Users : Moved(c, t)
  BY <1>1 DEF Moved, MovesTo, Approved, Row
<1>2. CASE UNCHANGED assignment
  BY <1>2
<1>3. ASSUME NEW c \in Campaigns, NEW t \in Users, Approves(c, t)
      PROVE  \/ assignment'[d] = assignment[d]
             \/ campaign'[d] = MaybeCompleted(campaign[d], assignment'[d])
  <2>1. /\ campaign \in [Campaigns -> Campaign]
        /\ assignment \in [Campaigns -> [Users -> Assignment]]
    BY DEF TypeOK
  <2>2. CASE d = c
    BY <1>3, <2>1, <2>2 DEF Approves
  <2>3. CASE d # c
    BY <1>3, <2>1, <2>3 DEF Approves, Put
  <2> QED BY <2>2, <2>3
<1> QED BY <1>1, <1>2, <1>3, WorkStep

\* A step that fills a campaign's last seat also completes it.
LEMMA RecruitStep ==
    ASSUME TypeOK, TypeOK', References, TargetPositive, RecruitsOnlyBelowTarget, [Next]_vars
    PROVE  RecruitsOnlyBelowTarget'
<1> SUFFICES ASSUME NEW d \in Campaigns, campaign'[d].status \in {"published", "paused"}
             PROVE  Cardinality(Approved(assignment'[d])) < campaign'[d].target
  BY DEF RecruitsOnlyBelowTarget
<1>1. campaign[d] \in Campaign /\ campaign'[d] \in Campaign
  BY DEF TypeOK
<1>2. /\ Approved(assignment'[d]) \in SUBSET Users
      /\ Approved(assignment[d]) \in SUBSET Users
  BY DEF Approved
<1>3. CASE Drafted(d)
  <2>1. campaign'[d].target > 0
    BY TargetPositiveStep DEF TargetPositive
  <2> QED BY <1>3, <2>1, DraftIsEmpty, FS_EmptySet
<1>4. CASE ~Drafted(d)
  <2>1. campaign'[d].target = campaign[d].target
    BY <1>1, <1>4, OfferMoves DEF OfferMove
  <2>2. campaign[d].status \in {"published", "paused"}
    BY <1>1, <1>4, OfferMoves DEF OfferMove, Recruiting, Drafted, Campaign, CampaignStatus
  <2>3. CASE Approved(assignment'[d]) \subseteq Approved(assignment[d])
    <3>1. Cardinality(Approved(assignment'[d])) <= Cardinality(Approved(assignment[d]))
      BY <1>2, <2>3, RowsFinite, FS_Subset
    <3>2. Cardinality(Approved(assignment[d])) < campaign[d].target
      BY <2>2 DEF RecruitsOnlyBelowTarget
    <3> QED BY <1>1, <1>2, <2>1, <3>1, <3>2, RowsFinite DEF Campaign
  <2>4. CASE campaign'[d] = MaybeCompleted(campaign[d], assignment'[d])
    <3>1. ~CompletionDue(campaign[d], assignment'[d])
      BY <1>1, <2>4 DEF MaybeCompleted, Campaign
    <3>2. ~(Cardinality(Approved(assignment'[d])) >= campaign[d].target)
      BY <2>2, <3>1 DEF CompletionDue, TargetReached
    <3> QED BY <1>1, <1>2, <2>1, <3>2, RowsFinite DEF Campaign
  <2> QED BY <2>3, <2>4, ApprovalCounts
<1> QED BY <1>3, <1>4

\* A campaign that still recruits, or may again, has not got its target of approved tests: whichever
\* request approves the last one completes it (maybe_complete_campaign).
THEOREM RecruitTheorem == Spec => []RecruitsOnlyBelowTarget
<1>1. Init => TargetPositive /\ RecruitsOnlyBelowTarget
  BY DEF Init, NoCampaign, TargetPositive, RecruitsOnlyBelowTarget
<1>2. TypeOK /\ TypeOK' /\ References /\ TargetPositive /\ RecruitsOnlyBelowTarget /\ [Next]_vars =>
        (TargetPositive /\ RecruitsOnlyBelowTarget)'
  BY TargetPositiveStep, RecruitStep
<1> QED BY <1>1, <1>2, TypeCorrect, PTL DEF Spec

-----------------------------------------------------------------------------
(* A seat is taken by an acceptance, or given back on appeal *)

\* The requests that write the assignment of w.
Writes(d, w) ==
    \/ \E u \in Users :
          \/ AcceptAssignment(u, d, w)
          \/ DeclineAssignment(u, d, w)
          \/ CloseCampaign(u, d) /\ w \in Pending(assignment[d])
          \/ \E v \in DOMAIN submissions[d][w] :
                ApproveSubmission(u, d, w, v) \/ RequestChanges(u, d, w, v)
                  \/ RejectSubmission(u, d, w, v)
    \/ ApplyToCampaign(w, d) \/ WithdrawAssignment(w, d) \/ StartAssignment(w, d)
    \/ CreateSubmission(w, d)
    \/ \E m \in Moderators : RejectOverdueWork(m, d, w) \/ AwardTester(m, d, w)

\* Only the requests that Writes names change an assignment.
LEMMA WritesRow ==
    ASSUME TypeOK, [Next]_vars, NEW d \in Campaigns, NEW w \in Users,
           assignment'[d][w] # assignment[d][w]
    PROVE  Writes(d, w)
<1>1. ASSUME NEW c \in Campaigns, NEW t \in Users, NEW row, assignment' = Put(assignment, c, t, row)
      PROVE  c = d /\ t = w
  BY <1>1, PutAt
<1>2. ASSUME NEW u \in Users, NEW c \in Campaigns, OwnerStep(u, c) PROVE Writes(d, w)
  <2>1. ASSUME CloseCampaign(u, c) PROVE Writes(d, w)
    <3>1. assignment' = [assignment EXCEPT ![c] = Closing(assignment[c])]
      BY <2>1 DEF CloseCampaign
    <3>2. d # c => assignment'[d] = assignment[d]
      BY <3>1, WorkTables
    <3>3. d = c => assignment'[d] = Closing(assignment[d])
      BY <3>1, WorkTables
    <3>4. d = c /\ w \in Pending(assignment[d])
      BY <3>2, <3>3 DEF Closing
    <3> QED BY <2>1, <3>4 DEF Writes
  <2>2. ASSUME NEW t \in Users, NEW v \in DOMAIN submissions[c][t],
               ApproveSubmission(u, c, t, v) \/ RequestChanges(u, c, t, v)
                 \/ RejectSubmission(u, c, t, v)
        PROVE  Writes(d, w)
    <3>1. c = d /\ t = w
      BY <1>1, <2>2 DEF ApproveSubmission, RequestChanges, RejectSubmission, SetStatus
    <3> QED BY <2>2, <3>1 DEF Writes
  <2>3. ASSUME NEW t \in Users, AcceptAssignment(u, c, t) \/ DeclineAssignment(u, c, t)
        PROVE  Writes(d, w)
    <3>1. c = d /\ t = w
      BY <1>1, <2>3 DEF AcceptAssignment, DeclineAssignment
    <3> QED BY <2>3, <3>1 DEF Writes
  <2>4. ASSUME \/ PublishCampaign(u, c) \/ PauseCampaign(u, c) \/ ResumeCampaign(u, c)
               \/ \E terms \in Terms : UpsertContract(u, c, terms)
        PROVE  FALSE
    BY <2>4 DEF PublishCampaign, PauseCampaign, ResumeCampaign, UpsertContract
  <2>5. ASSUME NEW target \in Targets, NEW reward \in Rewards,
               \/ CreateCampaign(u, c, target, reward)
               \/ UpdateCampaign(u, c, target, reward)
               \/ \E terms \in Terms : LaunchCampaign(u, c, target, reward, terms)
        PROVE  FALSE
    BY <2>5 DEF CreateCampaign, UpdateCampaign, LaunchCampaign
  <2> QED BY <1>2, <2>1, <2>2, <2>3, <2>4, <2>5 DEF OwnerStep
<1>3. ASSUME NEW t \in Users, NEW c \in Campaigns, TesterStep(t, c) PROVE Writes(d, w)
  <2>1. ~RecordTestingSession(t, c) /\ \A v \in DOMAIN submissions[c][t] : ~OpenDispute(t, c, v)
    BY DEF RecordTestingSession, OpenDispute, workVars
  <2>2. ApplyToCampaign(t, c) \/ WithdrawAssignment(t, c) \/ StartAssignment(t, c)
          \/ CreateSubmission(t, c)
    BY <1>3, <2>1 DEF TesterStep
  <2>3. c = d /\ t = w
    BY <1>1, <2>2 DEF ApplyToCampaign, WithdrawAssignment, StartAssignment, CreateSubmission,
                      SetStatus
  <2> QED BY <2>2, <2>3 DEF Writes
<1>4. ASSUME NEW m \in Moderators, NEW c \in Campaigns, NEW t \in Users, ModeratorStep(m, c, t)
      PROVE  Writes(d, w)
  <2>1. ~ClaimDispute(m, c, t)
          /\ \A outcome \in {"resolved", "rejected"} : ~CloseWithoutAward(m, c, t, outcome)
    BY DEF ClaimDispute, CloseWithoutAward, workVars
  <2>2. RejectOverdueWork(m, c, t) \/ AwardTester(m, c, t)
    BY <1>4, <2>1 DEF ModeratorStep
  <2>3. c = d /\ t = w
    BY <1>1, <2>2 DEF RejectOverdueWork, AwardTester
  <2> QED BY <2>2, <2>3 DEF Writes
<1>5. ASSUME \/ Tick \/ UNCHANGED vars
             \/ \E m \in Moderators, u \in Users : SuspendParticipant(m, u) \/ RestoreParticipant(m, u)
      PROVE  FALSE
  BY <1>5 DEF Tick, vars, SuspendParticipant, RestoreParticipant, workVars
<1> QED BY <1>2, <1>3, <1>4, <1>5 DEF Next

\* What each of them leaves in the row.
LEMMA WrittenStatus ==
    ASSUME TypeOK, NEW d \in Campaigns, NEW w \in Users
    PROVE  LET old == assignment[d][w]
               new == assignment'[d][w]
               kept == new.accepted_at = old.accepted_at
           IN  /\ \A u \in Users :
                    /\ AcceptAssignment(u, d, w) => new.status = "accepted" /\ new.accepted_at
                    /\ DeclineAssignment(u, d, w) => new.status = "cancelled" /\ kept
                    /\ CloseCampaign(u, d) /\ w \in Pending(assignment[d]) =>
                         new.status = "cancelled" /\ kept
                    /\ \A v \in DOMAIN submissions[d][w] :
                         /\ ApproveSubmission(u, d, w, v) => new.status = "approved" /\ kept
                         /\ RequestChanges(u, d, w, v) => new.status = "changes_requested" /\ kept
                         /\ RejectSubmission(u, d, w, v) => new.status = "rejected" /\ kept
               /\ ApplyToCampaign(w, d) => new.status = "applied" /\ kept
               /\ WithdrawAssignment(w, d) => new.status = "cancelled" /\ kept
               /\ StartAssignment(w, d) => new.status = "in_progress" /\ kept
               /\ CreateSubmission(w, d) => new.status = "submitted" /\ kept
               /\ \A m \in Moderators :
                    /\ RejectOverdueWork(m, d, w) => new.status = "rejected" /\ kept
                    /\ AwardTester(m, d, w) => new.status = "approved" /\ kept
<1> DEFINE old == assignment[d][w]
           new == assignment'[d][w]
           kept == new.accepted_at = old.accepted_at
<1>1. old \in Assignment /\ Row(d, w) = old
  BY WorkTables DEF Row
<1>2. ASSUME NEW row, assignment' = Put(assignment, d, w, row) PROVE new = row
  BY <1>2, PutAt
<1>3. ASSUME NEW status \in AssignmentStatus, assignment' = SetStatus(d, w, status)
      PROVE  new.status = status /\ kept
  <2>1. new = [old EXCEPT !.status = status]
    BY <1>1, <1>2, <1>3 DEF SetStatus
  <2> QED BY <1>1, <2>1 DEF Assignment
<1>4. ASSUME assignment' = Put(assignment, d, w, Cancelled(old)) PROVE new.status = "cancelled" /\ kept
  <2>1. new = Cancelled(old)
    BY <1>2, <1>4
  <2> QED BY <1>1, <2>1 DEF Cancelled, Assignment
<1>5. ASSUME assignment' = Put(assignment, d, w, ApprovedRow(old)) PROVE new.status = "approved" /\ kept
  <2>1. new = ApprovedRow(old)
    BY <1>2, <1>5
  <2> QED BY <1>1, <2>1 DEF ApprovedRow, Assignment
<1>6. ASSUME NEW u \in Users, AcceptAssignment(u, d, w) PROVE new.status = "accepted" /\ new.accepted_at
  <2>1. new = [old EXCEPT !.status = "accepted", !.accepted_at = TRUE]
    BY <1>1, <1>2, <1>6 DEF AcceptAssignment
  <2> QED BY <1>1, <2>1 DEF Assignment
<1>7. ASSUME StartAssignment(w, d) PROVE new.status = "in_progress" /\ kept
  <2>1. new = [old EXCEPT !.status = "in_progress", !.started_at = now]
    BY <1>1, <1>2, <1>7 DEF StartAssignment
  <2> QED BY <1>1, <2>1 DEF Assignment
<1>8. ASSUME NEW m \in Moderators, RejectOverdueWork(m, d, w) PROVE new.status = "rejected" /\ kept
  <2>1. new = [old EXCEPT !.status = "rejected", !.completed_at = TRUE]
    BY <1>1, <1>2, <1>8 DEF RejectOverdueWork
  <2> QED BY <1>1, <2>1 DEF Assignment
<1>9. ASSUME NEW u \in Users, CloseCampaign(u, d), w \in Pending(assignment[d])
      PROVE  new.status = "cancelled" /\ kept
  <2>1. assignment' = [assignment EXCEPT ![d] = Closing(assignment[d])]
    BY <1>9 DEF CloseCampaign
  <2>2. new = Cancelled(old)
    BY <1>9, <2>1, WorkTables DEF Closing
  <2> QED BY <1>1, <2>2 DEF Cancelled, Assignment
<1>10. ASSUME NEW u \in Users, DeclineAssignment(u, d, w) PROVE new.status = "cancelled" /\ kept
  BY <1>1, <1>4, <1>10 DEF DeclineAssignment
<1>11. ASSUME WithdrawAssignment(w, d) PROVE new.status = "cancelled" /\ kept
  BY <1>1, <1>4, <1>11 DEF WithdrawAssignment
<1>12. ASSUME NEW u \in Users, NEW v \in DOMAIN submissions[d][w]
       PROVE  /\ ApproveSubmission(u, d, w, v) => new.status = "approved" /\ kept
              /\ RequestChanges(u, d, w, v) => new.status = "changes_requested" /\ kept
              /\ RejectSubmission(u, d, w, v) => new.status = "rejected" /\ kept
  <2>1. ApproveSubmission(u, d, w, v) => assignment' = Put(assignment, d, w, ApprovedRow(old))
    BY <1>1 DEF ApproveSubmission
  <2>2. /\ RequestChanges(u, d, w, v) => assignment' = SetStatus(d, w, "changes_requested")
        /\ RejectSubmission(u, d, w, v) => assignment' = SetStatus(d, w, "rejected")
    BY DEF RequestChanges, RejectSubmission
  <2> QED BY <1>3, <1>5, <2>1, <2>2 DEF AssignmentStatus
<1>13. /\ ApplyToCampaign(w, d) => new.status = "applied" /\ kept
       /\ CreateSubmission(w, d) => new.status = "submitted" /\ kept
  <2>1. /\ ApplyToCampaign(w, d) => assignment' = SetStatus(d, w, "applied")
        /\ CreateSubmission(w, d) => assignment' = SetStatus(d, w, "submitted")
    BY DEF ApplyToCampaign, CreateSubmission
  <2> QED BY <1>3, <2>1 DEF AssignmentStatus
<1>14. ASSUME NEW m \in Moderators, AwardTester(m, d, w) PROVE new.status = "approved" /\ kept
  BY <1>1, <1>5, <1>14 DEF AwardTester
<1> HIDE DEF old, new, kept
<1> QED BY <1>6, <1>7, <1>8, <1>9, <1>10, <1>11, <1>12, <1>13, <1>14 DEF old, new, kept

\* Only accept_assignment accepts a tester.
LEMMA AcceptedBy ==
    ASSUME TypeOK, [Next]_vars, NEW d \in Campaigns, NEW w \in Users,
           assignment'[d][w].status = "accepted", Row(d, w).status # "accepted"
    PROVE  \E u \in Users : AcceptAssignment(u, d, w)
<1>1. Writes(d, w)
  BY WritesRow DEF Row
<1> QED BY <1>1, WrittenStatus DEF Writes

-----------------------------------------------------------------------------
(* Rejected work that may still be appealed was rejected by its owner *)

AppealSound ==
    \A c \in Campaigns, t \in Users :
        Row(c, t).status = "rejected" /\ dispute[c][t].status \notin {"resolved", "rejected"} =>
            Latest(c, t).review = "rejected"

\* Every step keeps a rejection without a decided appeal on top of a rejected submission.
LEMMA AppealStep ==
    ASSUME TypeOK, TypeOK', WorkSound, AppealSound, [Next]_vars
    PROVE  AppealSound'
<1> SUFFICES ASSUME NEW c \in Campaigns, NEW t \in Users,
                    assignment'[c][t].status = "rejected",
                    dispute'[c][t].status \notin {"resolved", "rejected"}
             PROVE  submissions'[c][t][Len(submissions'[c][t])].review = "rejected"
  BY DEF AppealSound, Latest, Versions, Row
<1> DEFINE subs == submissions[c][t]
<1>1. /\ WorkMove(c, t) /\ VersionsAgree(c, t)
      /\ subs \in Seq(Submission) /\ dispute[c][t] \in Dispute
  BY WorkMoves, WorkTables DEF WorkSound
<1>2. ASSUME Row(c, t).status = "rejected", dispute[c][t].status \notin {"resolved", "rejected"},
             UNCHANGED subs
      PROVE  submissions'[c][t][Len(submissions'[c][t])].review = "rejected"
  BY <1>2 DEF AppealSound, Latest, Versions
<1>3. ASSUME NEW v \in DOMAIN subs, NEW decision \in Decision, Reviews(c, t, v, decision)
      PROVE  submissions'[c][t][Len(submissions'[c][t])].review = "rejected"
  <2>1. decision = "rejected"
    BY <1>3 DEF Reviews
  <2>2. v = Len(subs)
    BY <1>3, PendingIsLast DEF Reviews
  <2> DEFINE version == [subs[v] EXCEPT !.status = decision, !.review = decision]
  <2>3. Len(submissions'[c][t]) = Len(subs) /\ submissions'[c][t][v] = version
    BY <1>1, <1>3, VersionWritten DEF Reviews
  <2>4. version.review = "rejected"
    BY <1>1, <2>1 DEF Submission
  <2> QED BY <2>2, <2>3, <2>4
<1>4. CASE Untouched(c, t) \/ Prepares(c, t)
  BY <1>2, <1>4 DEF Untouched, Prepares, Settled, Row
<1>5. ~Submits(c, t) /\ ~Awards(c, t)
  BY DEF Submits, Awards, Decides
<1>6. ~Overrules(c, t)
  <2>1. Overrules(c, t) => dispute'[c][t].status = "rejected"
    BY <1>1 DEF Overrules, Decides, Dispute
  <2> QED BY <2>1
<1>7. ASSUME NEW outcome \in {"resolved", "rejected"} PROVE ~Dismisses(c, t, outcome)
  <2>1. Dismisses(c, t, outcome) => dispute'[c][t].status = outcome
    BY <1>1 DEF Dismisses, Dispute
  <2> QED BY <2>1
<1>8. ASSUME \/ \E v \in DOMAIN subs : Escalates(c, t, v)
             \/ \E m \in Moderators : Claims(c, t, m)
      PROVE  submissions'[c][t][Len(submissions'[c][t])].review = "rejected"
  <2>1. dispute[c][t].status \in {"none", "open"} /\ UNCHANGED <<assignment[c][t], subs>>
    BY <1>8 DEF Escalates, Claims
  <2>2. Row(c, t).status = "rejected"
    BY <2>1 DEF Row
  <2> QED BY <1>2, <2>1, <2>2
<1> QED BY <1>1, <1>3, <1>4, <1>5, <1>6, <1>7, <1>8 DEF WorkMove

-----------------------------------------------------------------------------
(* Capacity *)

Charged(c) == Occupied(assignment[c]) \ AppealWins(c)

\* An award of work that its owner had rejected is an appeal that was won.
LEMMA AwardWins ==
    ASSUME TypeOK, WorkSound, AppealSound, [Next]_vars, NEW d \in Campaigns, NEW w \in Users,
           Row(d, w).status = "rejected", assignment'[d][w].status = "approved"
    PROVE  w \in AppealWins(d)'
<1> DEFINE subs == submissions[d][w]
           v == dispute[d][w].version
           version == [subs[v] EXCEPT !.status = "approved"]
<1>1. /\ WorkMove(d, w) /\ subs \in Seq(Submission) /\ dispute[d][w] \in Dispute
  BY WorkMoves, WorkTables
<1>2. Awards(d, w)
  BY <1>1 DEF WorkMove, Untouched, Prepares, Submits, Escalates, Reviews, Claims, Dismisses,
              Overrules, Settled, Testing, Row
<1>3. /\ Decides(d, w, v, "approved", "resolved", "award_tester")
      /\ dispute[d][w].status = "under_review" /\ v \in DOMAIN subs
  BY <1>2 DEF Awards, Decides
<1>4. v = Len(subs) /\ v \in Nat \ {0}
  BY <1>3, DecidesLast
<1>5. Len(submissions'[d][w]) = Len(subs) /\ submissions'[d][w][v] = version
  <2>1. submissions'[d][w] = [subs EXCEPT ![v] = version]
    BY <1>3 DEF Decides
  <2>2. v \in 1 .. Len(subs)
    BY <1>4
  <2> HIDE DEF subs, v, version
  <2> QED BY <1>1, <1>3, <2>1, <2>2, VersionWritten
<1>6. subs[v].review = "rejected"
  BY <1>3, <1>4 DEF AppealSound, Latest, Versions
<1>7. version.status = "approved" /\ version.review = "rejected"
  BY <1>1, <1>3, <1>6 DEF Submission
<1>8. submissions'[d][w] # << >>
  BY <1>4, <1>5
<1> QED BY <1>4, <1>5, <1>7, <1>8 DEF AppealWins, Latest, Versions

\* An appeal that was won stays won.
LEMMA WinsStay ==
    ASSUME TypeOK, WorkSound, [Next]_vars, NEW d \in Campaigns, NEW w \in Users,
           w \in AppealWins(d)
    PROVE  w \in AppealWins(d)'
<1>1. /\ WorkMove(d, w) /\ VersionsAgree(d, w) /\ submissions[d][w] \in Seq(Submission)
  BY WorkMoves, WorkTables DEF WorkSound
<1>2. Len(submissions[d][w]) > 0 /\ submissions[d][w][Len(submissions[d][w])].status = "approved"
  BY <1>1 DEF AppealWins, Latest, Versions
<1>3. Row(d, w).status = "approved"
  BY <1>1, <1>2 DEF VersionsAgree, Agree, Settled
<1>4. UNCHANGED submissions[d][w]
  BY <1>1, <1>3 DEF WorkMove, Untouched, Prepares, Submits, Escalates, Reviews, Claims, Dismisses,
                    Awards, Overrules, Testing, Settled
<1> QED BY <1>4 DEF AppealWins, Latest, Versions

\* Nobody new is counted unless somebody is accepted.
LEMMA NobodyCharged ==
    ASSUME TypeOK, WorkSound, AppealSound, [Next]_vars, NEW d \in Campaigns,
           \A w \in Users : assignment'[d][w].status = "accepted" => Row(d, w).status = "accepted"
    PROVE  Charged(d)' \subseteq Charged(d)
<1> SUFFICES ASSUME NEW w \in Users, assignment'[d][w].status \in OccupiedStatus,
                    w \notin AppealWins(d)'
             PROVE  Row(d, w).status \in OccupiedStatus /\ w \notin AppealWins(d)
  BY DEF Charged, Occupied, Row
<1>1. w \notin AppealWins(d)
  BY WinsStay
<1>2. CASE Moved(d, w)
  BY <1>1, <1>2 DEF Moved, MovesTo, OccupiedStatus
<1>3. CASE UNCHANGED assignment
  BY <1>1, <1>3 DEF Row
<1>4. ASSUME NEW c \in Campaigns, NEW t \in Users, Approves(c, t)
      PROVE  Row(d, w).status \in OccupiedStatus
  <2>1. CASE d = c /\ w = t
    <3>1. Row(d, w) \in Assignment
      BY WorkTables DEF Row
    <3>2. assignment'[d][w].status = "approved"
      <4>1. assignment'[d][w] = ApprovedRow(Row(d, w))
        BY <1>4, <2>1, PutAt DEF Approves
      <4>2. ApprovedRow(Row(d, w)).status = "approved"
        BY <3>1, WrittenRows
      <4> QED BY <4>1, <4>2
    <3>3. Row(d, w).status # "rejected"
      BY <3>2, AwardWins
    <3> QED BY <1>4, <2>1, <3>3 DEF Approves, OccupiedStatus
  <2>2. CASE ~(d = c /\ w = t)
    BY <1>4, <2>2, PutAt DEF Approves, Row
  <2> QED BY <2>1, <2>2
<1> QED BY <1>1, <1>2, <1>3, <1>4, WorkStep

\* No step lets more seats be charged than the campaign has.
LEMMA CapacityStep ==
    ASSUME TypeOK, TypeOK', References, WorkSound, AppealSound, Capacity, [Next]_vars
    PROVE  Capacity'
<1> SUFFICES ASSUME NEW d \in Campaigns
             PROVE  Cardinality(Charged(d)') <= campaign'[d].target
  BY DEF Capacity, Charged
<1>1. campaign[d].target \in Nat /\ campaign'[d].target \in Nat
  BY DEF TypeOK, Campaign
<1>2. /\ Charged(d) \in SUBSET Users /\ Charged(d)' \in SUBSET Users
      /\ Occupied(assignment[d]) \in SUBSET Users /\ Occupied(assignment'[d]) \in SUBSET Users
      /\ Charged(d)' \in SUBSET Occupied(assignment'[d])
  BY DEF Charged, Occupied
<1>3. CASE Drafted(d)
  <2>1. Charged(d)' = {}
    BY <1>2, <1>3, DraftIsEmpty
  <2> QED BY <1>1, <2>1, FS_EmptySet
<1>4. ASSUME ~Drafted(d) PROVE campaign'[d].target = campaign[d].target
  BY <1>4, OfferMoves DEF OfferMove
<1>5. ASSUME ~Drafted(d), NEW w \in Users, assignment'[d][w].status = "accepted",
             Row(d, w).status # "accepted"
      PROVE  Cardinality(Charged(d)') <= campaign'[d].target
  <2> DEFINE old == Occupied(assignment[d])
  <2>1. PICK u \in Users : AcceptAssignment(u, d, w)
    BY <1>5, AcceptedBy
  <2>2. Cardinality(old) < campaign[d].target
    BY <2>1 DEF AcceptAssignment, SeatFree
  <2>3. \A t \in Users : t # w => assignment'[d][t] = assignment[d][t]
    BY <2>1, PutAt DEF AcceptAssignment
  <2>4. Charged(d)' \in SUBSET (old \cup {w})
    BY <1>2, <2>3 DEF Occupied
  <2>5. IsFiniteSet(old) /\ Cardinality(old) \in Nat
    BY <1>2, RowsFinite
  <2>6. IsFiniteSet(old \cup {w}) /\ Cardinality(old \cup {w}) <= Cardinality(old) + 1
    <3> HIDE DEF old
    <3>1. /\ IsFiniteSet(old \cup {w})
          /\ \/ Cardinality(old \cup {w}) = Cardinality(old)
             \/ Cardinality(old \cup {w}) = Cardinality(old) + 1
      BY <2>5, FS_AddElement, Zenon
    <3> QED BY <2>5, <3>1
  <2>7. Cardinality(Charged(d)') <= Cardinality(old \cup {w})
    BY <2>4, <2>6, FS_Subset
  <2>8. Cardinality(Charged(d)') \in Nat /\ Cardinality(old \cup {w}) \in Nat
    BY <1>2, <2>6, RowsFinite, FS_CardinalityType
  <2> HIDE DEF old
  <2> QED BY <1>1, <1>4, <1>5, <2>2, <2>5, <2>6, <2>7, <2>8
<1>6. ASSUME ~Drafted(d),
             \A w \in Users : assignment'[d][w].status = "accepted" => Row(d, w).status = "accepted"
      PROVE  Cardinality(Charged(d)') <= campaign'[d].target
  <2>1. Charged(d)' \subseteq Charged(d)
    BY <1>6, NobodyCharged
  <2>2. Cardinality(Charged(d)') <= Cardinality(Charged(d))
    BY <1>2, <2>1, RowsFinite, FS_Subset
  <2>3. Cardinality(Charged(d)) <= campaign[d].target
    BY DEF Capacity, Charged
  <2>4. Cardinality(Charged(d)) \in Nat /\ Cardinality(Charged(d)') \in Nat
    BY <1>2, RowsFinite
  <2> QED BY <1>1, <1>4, <1>6, <2>2, <2>3, <2>4
<1> QED BY <1>3, <1>5, <1>6

\* A campaign never seats more testers than its target, apart from those whose rejection was
\* overturned after their seat was free for another (accept_assignment, resolve_dispute).
THEOREM CapacityTheorem == Spec => []Capacity
<1>1. Init => AppealSound /\ Capacity
  <2>1. ASSUME Init PROVE AppealSound
    <3>1. \A c \in Campaigns, t \in Users : Row(c, t).status = "none"
      BY <2>1 DEF Init, NoAssignment, Row
    <3> QED BY <3>1 DEF AppealSound
  <2>2. ASSUME Init, NEW c \in Campaigns
        PROVE  Cardinality(Occupied(assignment[c]) \ AppealWins(c)) <= campaign[c].target
    <3>1. Occupied(assignment[c]) \ AppealWins(c) = {}
      BY <2>2 DEF Init, NoAssignment, Occupied, OccupiedStatus
    <3>2. campaign[c].target = 0
      BY <2>2 DEF Init, NoCampaign
    <3> QED BY <3>1, <3>2, FS_EmptySet
  <2> QED BY <2>1, <2>2 DEF Capacity
<1>2. /\ TypeOK /\ TypeOK' /\ References /\ WorkSound /\ AppealSound /\ Capacity /\ [Next]_vars
      => (AppealSound /\ Capacity)'
  BY AppealStep, CapacityStep
<1> QED BY <1>1, <1>2, TypeCorrect, WorkSoundTheorem, PTL DEF Spec

-----------------------------------------------------------------------------
(* How work and campaigns end *)

\* The audit is only appended to.
LEMMA AuditGrows ==
    ASSUME [Next]_vars
    PROVE  audit \subseteq audit'
<1>1. ASSUME NEW events, AddAuditEvents(events) PROVE audit \subseteq audit'
  BY <1>1 DEF AddAuditEvents
<1>2. ASSUME NEW u \in Users, NEW c \in Campaigns, OwnerStep(u, c) PROVE audit \subseteq audit'
  <2>1. ASSUME NEW t \in Users, NEW v \in DOMAIN submissions[c][t],
               ApproveSubmission(u, c, t, v) \/ RequestChanges(u, c, t, v)
                 \/ RejectSubmission(u, c, t, v)
        PROVE  audit \subseteq audit'
    BY <1>1, <2>1 DEF ApproveSubmission, RequestChanges, RejectSubmission
  <2>2. ASSUME NEW t \in Users, AcceptAssignment(u, c, t) \/ DeclineAssignment(u, c, t)
        PROVE  audit \subseteq audit'
    BY <1>1, <2>2 DEF AcceptAssignment, DeclineAssignment
  <2>3. ASSUME \/ PublishCampaign(u, c) \/ PauseCampaign(u, c) \/ ResumeCampaign(u, c)
               \/ CloseCampaign(u, c) \/ \E terms \in Terms : UpsertContract(u, c, terms)
        PROVE  audit \subseteq audit'
    BY <1>1, <2>3 DEF PublishCampaign, PauseCampaign, ResumeCampaign, CloseCampaign, UpsertContract
  <2>4. ASSUME NEW target \in Targets, NEW reward \in Rewards,
               \/ CreateCampaign(u, c, target, reward)
               \/ UpdateCampaign(u, c, target, reward)
               \/ \E terms \in Terms : LaunchCampaign(u, c, target, reward, terms)
        PROVE  audit \subseteq audit'
    BY <1>1, <2>4 DEF CreateCampaign, UpdateCampaign, LaunchCampaign
  <2> QED BY <1>2, <2>1, <2>2, <2>3, <2>4 DEF OwnerStep
<1>3. ASSUME NEW t \in Users, NEW c \in Campaigns, TesterStep(t, c) PROVE audit \subseteq audit'
  BY <1>1, <1>3 DEF TesterStep, ApplyToCampaign, WithdrawAssignment, StartAssignment,
                    RecordTestingSession, CreateSubmission, OpenDispute
<1>4. ASSUME NEW m \in Moderators, NEW c \in Campaigns, NEW t \in Users, ModeratorStep(m, c, t)
      PROVE  audit \subseteq audit'
  BY <1>1, <1>4 DEF ModeratorStep, ClaimDispute, RejectOverdueWork, CloseWithoutAward, AwardTester,
                    Resolved
<1>5. ASSUME NEW m \in Moderators, NEW u \in Users,
             SuspendParticipant(m, u) \/ RestoreParticipant(m, u)
      PROVE  audit \subseteq audit'
  BY <1>1, <1>5 DEF SuspendParticipant, RestoreParticipant
<1>6. CASE Tick \/ UNCHANGED vars
  BY <1>6 DEF Tick, vars
<1> QED BY <1>2, <1>3, <1>4, <1>5, <1>6 DEF Next

\* An assignment exists under an owner and a target that no longer change.
LEMMA OwnerFixed ==
    ASSUME TypeOK, [Next]_vars, NEW d \in Campaigns, ~Drafted(d)
    PROVE  campaign'[d].owner = campaign[d].owner /\ campaign'[d].target = campaign[d].target
<1>1. /\ campaign'[d] = [campaign[d] EXCEPT !.status = campaign'[d].status]
      /\ campaign[d] \in Campaign
  BY OfferStep DEF TypeOK
<1> QED BY <1>1 DEF Campaign

-----------------------------------------------------------------------------
(* Approvals *)

\* Only a dispute whose tester was awarded carries the remedy of the award.
AwardSound ==
    \A c \in Campaigns, t \in Users :
        dispute[c][t].remedy = "award_tester" => Row(c, t).status = "approved"

\* What becomes of the dispute of work that is approved, or is not.
LEMMA RemedyMove ==
    ASSUME TypeOK, WorkSound, [Next]_vars, NEW c \in Campaigns, NEW t \in Users
    PROVE  /\ Row(c, t).status = "approved" =>
                assignment'[c][t].status = "approved" /\ UNCHANGED dispute[c][t]
           /\ \/ dispute'[c][t].remedy \in {dispute[c][t].remedy, "none"}
              \/ assignment'[c][t].status = "approved"
<1>1. /\ WorkMove(c, t) /\ DisputeAgrees(c, t) /\ dispute[c][t] \in Dispute
  BY WorkMoves, WorkTables DEF WorkSound
<1>2. ASSUME NEW v, Escalates(c, t, v) PROVE dispute'[c][t].remedy = dispute[c][t].remedy
  BY <1>1, <1>2 DEF Escalates, Dispute
<1>3. ASSUME NEW m, Claims(c, t, m)
      PROVE  dispute'[c][t].remedy = dispute[c][t].remedy /\ Row(c, t).status # "approved"
  BY <1>1, <1>3 DEF Claims, Dispute, DisputeAgrees, ActiveDispute
<1>4. ASSUME NEW outcome, Dismisses(c, t, outcome)
      PROVE  dispute'[c][t].remedy = "none" /\ Row(c, t).status # "approved"
  BY <1>1, <1>4 DEF Dismisses, Dispute, DisputeAgrees, ActiveDispute
<1>5. CASE Overrules(c, t)
  <2>1. dispute'[c][t].remedy = "none" /\ Row(c, t).status = "submitted"
    BY <1>1, <1>5 DEF Overrules, Decides, Dispute
  <2> QED BY <2>1
<1>6. CASE Awards(c, t)
  BY <1>6 DEF Awards, Decides
<1>7. CASE \/ Untouched(c, t) \/ Prepares(c, t) \/ Submits(c, t)
           \/ \E v \in DOMAIN submissions[c][t], decision \in Decision : Reviews(c, t, v, decision)
  BY <1>7 DEF Untouched, Prepares, Submits, Reviews, Settled, Testing, Row
<1>8. ASSUME NEW v, Escalates(c, t, v) PROVE Row(c, t).status # "approved"
  BY <1>8 DEF Escalates
<1> QED BY <1>1, <1>2, <1>3, <1>4, <1>5, <1>6, <1>7, <1>8 DEF WorkMove

\* Every step keeps awarded work approved.
LEMMA AwardSoundStep ==
    ASSUME TypeOK, WorkSound, AwardSound, [Next]_vars
    PROVE  AwardSound'
<1>1. ASSUME NEW c \in Campaigns, NEW t \in Users, dispute'[c][t].remedy = "award_tester"
      PROVE  assignment'[c][t].status = "approved"
  BY <1>1, RemedyMove DEF AwardSound
<1> QED BY <1>1 DEF AwardSound, Row

\* A request that approves records who approves.
LEMMA ApprovedBy ==
    ASSUME TypeOK, WorkSound, AwardSound, [Next]_vars, NEW c \in Campaigns, NEW t \in Users,
           assignment'[c][t].status = "approved", Row(c, t).status # "approved"
    PROVE  IF dispute'[c][t].remedy = "award_tester"
           THEN Audited(dispute'[c][t].assigned_to, "dispute.resolved", <<c, t>>) \in audit'
           ELSE Audited(campaign[c].owner, "submission.approved", <<c, t>>) \in audit'
<1>1. dispute \in [Campaigns -> [Users -> Dispute]] /\ dispute[c][t] \in Dispute
  BY WorkTables
<1>2. Writes(c, t)
  BY WritesRow DEF Row
<1>3. \/ \E u \in Users : \E v \in DOMAIN submissions[c][t] : ApproveSubmission(u, c, t, v)
      \/ \E m \in Moderators : AwardTester(m, c, t)
  BY <1>2, WrittenStatus DEF Writes
<1>4. ASSUME NEW u \in Users, NEW v \in DOMAIN submissions[c][t], ApproveSubmission(u, c, t, v)
      PROVE  /\ dispute'[c][t].remedy # "award_tester"
             /\ Audited(campaign[c].owner, "submission.approved", <<c, t>>) \in audit'
  <2>1. UNCHANGED dispute /\ campaign[c].owner = u
    BY <1>4 DEF ApproveSubmission, Reviewed, Reviewable, Owns
  <2>2. Audited(u, "submission.approved", <<c, t>>) \in audit'
    BY <1>4 DEF ApproveSubmission, AddAuditEvents
  <2> QED BY <2>1, <2>2 DEF AwardSound
<1>5. ASSUME NEW m \in Moderators, AwardTester(m, c, t)
      PROVE  /\ dispute'[c][t].remedy = "award_tester"
             /\ Audited(dispute'[c][t].assigned_to, "dispute.resolved", <<c, t>>) \in audit'
  <2>1. dispute'[c][t] = [dispute[c][t] EXCEPT !.status = "resolved", !.remedy = "award_tester"]
    BY <1>5, PutAt DEF AwardTester, Resolved
  <2>2. dispute'[c][t].remedy = "award_tester" /\ dispute'[c][t].assigned_to = m
    BY <1>1, <1>5, <2>1 DEF Dispute, AwardTester, Resolvable
  <2>3. Verdict["resolved"] = "dispute.resolved"
    BY DEF Verdict
  <2>4. Audited(m, "dispute.resolved", <<c, t>>) \in audit'
    BY <1>5, <2>3 DEF AwardTester, Resolved, AddAuditEvents
  <2> QED BY <2>2, <2>4
<1> QED BY <1>3, <1>4, <1>5

\* A step that approves work writes who did so to the audit log.
LEMMA ApprovalStep ==
    ASSUME TypeOK, References, WorkSound, AwardSound, ApprovalAudited, [Next]_vars
    PROVE  ApprovalAudited'
<1> SUFFICES ASSUME NEW c \in Campaigns, NEW t \in Users, assignment'[c][t].status = "approved"
             PROVE  IF dispute'[c][t].remedy = "award_tester"
                    THEN Audited(dispute'[c][t].assigned_to, "dispute.resolved", <<c, t>>) \in audit'
                    ELSE Audited(campaign'[c].owner, "submission.approved", <<c, t>>) \in audit'
  BY DEF ApprovalAudited, Audited, Row
<1>1. Row(c, t).status # "none"
  BY WorkMoves DEF WorkMove, Untouched, Prepares, Submits, Escalates, Reviews, Claims, Dismisses,
                   Awards, Overrules, Decides, Settled, Testing, Row
<1>2. campaign'[c].owner = campaign[c].owner
  BY <1>1, OwnerFixed DEF References, Drafted
<1>3. CASE Row(c, t).status # "approved"
  BY <1>2, <1>3, ApprovedBy
<1>4. CASE Row(c, t).status = "approved"
  <2>1. UNCHANGED dispute[c][t]
    BY <1>4, RemedyMove
  <2> QED BY <1>2, <1>4, <2>1, AuditGrows DEF ApprovalAudited
<1> QED BY <1>3, <1>4

\* Approved work has an audit event of the one who may approve it: the owner, or the moderator to
\* whom the dispute with the award was assigned (create_review, resolve_dispute).
THEOREM ApprovalTheorem == Spec => []ApprovalAudited
<1>1. Init => AwardSound /\ ApprovalAudited
  BY DEF Init, NoAssignment, NoDispute, AwardSound, ApprovalAudited, Row
<1>2. /\ TypeOK /\ References /\ WorkSound /\ AwardSound /\ ApprovalAudited /\ [Next]_vars
      => (AwardSound /\ ApprovalAudited)'
  BY AwardSoundStep, ApprovalStep
<1> QED BY <1>1, <1>2, TypeCorrect, WorkSoundTheorem, PTL DEF Spec

-----------------------------------------------------------------------------
(* How the work of a campaign goes on *)

\* Only an acceptance adds to the active testers, or to those ever accepted.
LEMMA ActivatedBy ==
    ASSUME TypeOK, [Next]_vars, NEW d \in Campaigns, campaign[d].status # "published"
    PROVE  /\ ActiveTesters(assignment'[d]) \subseteq ActiveTesters(assignment[d])
           /\ EverAccepted(assignment'[d]) = EverAccepted(assignment[d])
<1>1. ASSUME NEW w \in Users
      PROVE  /\ assignment'[d][w].status \in ActiveStatus => assignment[d][w].status \in ActiveStatus
             /\ assignment'[d][w].accepted_at = assignment[d][w].accepted_at
  <2>1. CASE assignment'[d][w] = assignment[d][w]
    BY <2>1
  <2>2. CASE assignment'[d][w] # assignment[d][w]
    <3>1. Writes(d, w) /\ ~\E u \in Users : AcceptAssignment(u, d, w)
      BY <2>2, WritesRow DEF AcceptAssignment
    <3>2. StartAssignment(w, d) => assignment[d][w].status \in ActiveStatus
      BY DEF StartAssignment, Row, ActiveStatus
    <3>3. CreateSubmission(w, d) => assignment[d][w].status \in ActiveStatus
      BY DEF CreateSubmission, Testing, Row, ActiveStatus
    <3>4. ASSUME NEW u \in Users, NEW v \in DOMAIN submissions[d][w], RequestChanges(u, d, w, v)
          PROVE  assignment[d][w].status \in ActiveStatus
      BY <3>4 DEF RequestChanges, Reviewable, Row, ActiveStatus
    <3>5. assignment'[d][w].accepted_at = assignment[d][w].accepted_at
      BY <3>1, WrittenStatus DEF Writes
    <3>6. assignment'[d][w].status \in ActiveStatus => assignment[d][w].status \in ActiveStatus
      BY <3>1, <3>2, <3>3, <3>4, WrittenStatus DEF Writes, ActiveStatus
    <3> QED BY <3>5, <3>6
  <2> QED BY <2>1, <2>2
<1> QED BY <1>1 DEF ActiveTesters, EverAccepted

\* Nobody loses an approval.
LEMMA ApprovalsGrow ==
    ASSUME TypeOK, WorkSound, [Next]_vars, NEW d \in Campaigns
    PROVE  /\ Cardinality(Approved(assignment[d])) \in Nat
           /\ Cardinality(Approved(assignment'[d])) \in Nat
           /\ Cardinality(Approved(assignment[d])) <= Cardinality(Approved(assignment'[d]))
<1>1. Approved(assignment[d]) \subseteq Approved(assignment'[d])
  BY RemedyMove DEF Approved, Row
<1>2. Approved(assignment[d]) \in SUBSET Users /\ Approved(assignment'[d]) \in SUBSET Users
  BY DEF Approved
<1> QED BY <1>1, <1>2, RowsFinite, FS_Subset

\* The requests that may end a campaign.
Concludes(d) ==
    \/ \E u \in Users : CloseCampaign(u, d)
    \/ \E t \in Users :
          \/ WithdrawAssignment(t, d)
          \/ \E u \in Users : \E v \in DOMAIN submissions[d][t] : ApproveSubmission(u, d, t, v)
          \/ \E m \in Moderators : AwardTester(m, d, t)

\* Only the requests that Concludes names complete or cancel a campaign.
LEMMA ConcludedBy ==
    ASSUME TypeOK, [Next]_vars, NEW d \in Campaigns, campaign'[d] # campaign[d],
           campaign'[d].status \in {"completed", "cancelled"}
    PROVE  Concludes(d)
<1>1. campaign \in [Campaigns -> Campaign]
  BY DEF TypeOK
<1>2. ASSUME NEW c \in Campaigns, NEW row, campaign' = [campaign EXCEPT ![c] = row]
      PROVE  c = d /\ campaign'[d] = row
  BY <1>1, <1>2
<1>3. ASSUME NEW u \in Users, NEW c \in Campaigns, OwnerStep(u, c) PROVE Concludes(d)
  <2>1. ASSUME NEW status \in {"published", "paused"} PROVE campaign' # [campaign EXCEPT ![c].status = status]
    <3> SUFFICES ASSUME campaign' = [campaign EXCEPT ![c].status = status] PROVE FALSE
      OBVIOUS
    <3>1. campaign'[d] = [campaign[d] EXCEPT !.status = status]
      BY <1>1
    <3> QED BY <1>1, <3>1 DEF Campaign
  <2>2. ~PublishCampaign(u, c) /\ ~PauseCampaign(u, c) /\ ~ResumeCampaign(u, c)
    BY <2>1 DEF PublishCampaign, PauseCampaign, ResumeCampaign
  <2>3. ASSUME NEW target \in Targets, NEW reward \in Rewards
        PROVE  /\ ~CreateCampaign(u, c, target, reward)
               /\ ~UpdateCampaign(u, c, target, reward)
               /\ \A terms \in Terms : ~LaunchCampaign(u, c, target, reward, terms)
    <3>1. ~CreateCampaign(u, c, target, reward)
      BY <1>2 DEF CreateCampaign, DraftRow
    <3>2. \A terms \in Terms : ~LaunchCampaign(u, c, target, reward, terms)
      BY <1>2 DEF LaunchCampaign, DraftRow
    <3>3. ~UpdateCampaign(u, c, target, reward)
      <4> SUFFICES ASSUME UpdateCampaign(u, c, target, reward) PROVE FALSE
        OBVIOUS
      <4>1. c = d => campaign'[d] = [campaign[d] EXCEPT !.target = target, !.reward = reward]
        BY <1>1 DEF UpdateCampaign
      <4>2. c # d => campaign'[d] = campaign[d]
        BY <1>1 DEF UpdateCampaign
      <4> QED BY <1>1, <4>1, <4>2 DEF UpdateCampaign, Campaign
    <3> QED BY <3>1, <3>2, <3>3
  <2>4. ASSUME NEW t \in Users, NEW v \in DOMAIN submissions[c][t], ApproveSubmission(u, c, t, v)
        PROVE  Concludes(d)
    <3>1. c = d
      BY <1>2, <2>4 DEF ApproveSubmission
    <3> QED BY <2>4, <3>1 DEF Concludes
  <2>5. ASSUME NEW t \in Users, NEW v \in DOMAIN submissions[c][t]
        PROVE  ~RequestChanges(u, c, t, v) /\ ~RejectSubmission(u, c, t, v)
    BY DEF RequestChanges, RejectSubmission
  <2>6. ASSUME NEW t \in Users PROVE ~AcceptAssignment(u, c, t) /\ ~DeclineAssignment(u, c, t)
    BY DEF AcceptAssignment, DeclineAssignment, campaignVars
  <2>7. ASSUME CloseCampaign(u, c) PROVE Concludes(d)
    <3>1. c = d
      BY <1>2, <2>7 DEF CloseCampaign
    <3> QED BY <2>7, <3>1 DEF Concludes
  <2>8. \A terms \in Terms : ~UpsertContract(u, c, terms)
    BY DEF UpsertContract
  <2> QED BY <1>3, <2>2, <2>3, <2>4, <2>5, <2>6, <2>7, <2>8 DEF OwnerStep
<1>4. ASSUME NEW t \in Users, NEW c \in Campaigns, TesterStep(t, c) PROVE Concludes(d)
  <2>1. WithdrawAssignment(t, c)
    BY <1>4 DEF TesterStep, ApplyToCampaign, StartAssignment, RecordTestingSession,
                CreateSubmission, OpenDispute, campaignVars
  <2>2. c = d
    BY <1>2, <2>1 DEF WithdrawAssignment
  <2> QED BY <2>1, <2>2 DEF Concludes
<1>5. ASSUME NEW m \in Moderators, NEW c \in Campaigns, NEW t \in Users, ModeratorStep(m, c, t)
      PROVE  Concludes(d)
  <2>1. AwardTester(m, c, t)
    BY <1>5 DEF ModeratorStep, ClaimDispute, RejectOverdueWork, CloseWithoutAward, campaignVars
  <2>2. c = d
    BY <1>2, <2>1 DEF AwardTester
  <2> QED BY <2>1, <2>2 DEF Concludes
<1>6. ASSUME NEW m \in Moderators, NEW u \in Users,
             SuspendParticipant(m, u) \/ RestoreParticipant(m, u)
      PROVE  FALSE
  BY <1>6 DEF SuspendParticipant, RestoreParticipant, campaignVars
<1>7. CASE Tick \/ UNCHANGED vars
  BY <1>7 DEF Tick, vars, campaignVars
<1> QED BY <1>3, <1>4, <1>5, <1>6, <1>7 DEF Next

\* The row that such a request leaves, and the assignments it has counted.
LEMMA Conclusion ==
    ASSUME TypeOK, NEW d \in Campaigns
    PROVE  /\ \A u \in Users : CloseCampaign(u, d) =>
                LET closed == [campaign[d] EXCEPT !.status = "cancelled"]
                IN  /\ campaign'[d] = MaybeCompleted(closed, assignment'[d])
                    /\ closed.status = "cancelled"
                    /\ assignment'[d] = Closing(assignment[d])
                    /\ campaign[d].status \in {"published", "paused"}
                    /\ Audited(campaign[d].owner, "campaign.closed", d) \in audit'
           /\ \A t \in Users :
                /\ WithdrawAssignment(t, d) =>
                     campaign'[d] = MaybeCompleted(campaign[d],
                                      Flushed(ToOwner("tester_withdrew", d, t, 0), d))
                /\ \A u \in Users, v \in DOMAIN submissions[d][t] :
                     ApproveSubmission(u, d, t, v) =>
                       campaign'[d] = MaybeCompleted(campaign[d], assignment'[d])
                /\ \A m \in Moderators : AwardTester(m, d, t) =>
                     campaign'[d] = MaybeCompleted(campaign[d], assignment'[d])
<1>1. /\ campaign \in [Campaigns -> Campaign]
      /\ assignment \in [Campaigns -> [Users -> Assignment]]
  BY DEF TypeOK
<1>2. ASSUME NEW u \in Users, CloseCampaign(u, d)
      PROVE  LET closed == [campaign[d] EXCEPT !.status = "cancelled"]
             IN  /\ campaign'[d] = MaybeCompleted(closed, assignment'[d])
                 /\ closed.status = "cancelled"
                 /\ assignment'[d] = Closing(assignment[d])
                 /\ campaign[d].status \in {"published", "paused"}
                 /\ Audited(campaign[d].owner, "campaign.closed", d) \in audit'
  <2> DEFINE closed == [campaign[d] EXCEPT !.status = "cancelled"]
  <2>1. /\ assignment'[d] = Closing(assignment[d])
        /\ campaign'[d] = MaybeCompleted(closed, Closing(assignment[d]))
    BY <1>1, <1>2 DEF CloseCampaign
  <2>2. closed.status = "cancelled"
    BY <1>1 DEF Campaign
  <2>3. Audited(campaign[d].owner, "campaign.closed", d) \in audit'
    BY <1>2 DEF CloseCampaign, AddAuditEvents, Owns
  <2> QED BY <1>2, <2>1, <2>2, <2>3 DEF CloseCampaign
<1>3. ASSUME NEW t \in Users, WithdrawAssignment(t, d)
      PROVE  campaign'[d] = MaybeCompleted(campaign[d],
                              Flushed(ToOwner("tester_withdrew", d, t, 0), d))
  BY <1>1, <1>3 DEF WithdrawAssignment
<1>4. ASSUME NEW t \in Users
      PROVE  /\ \A u \in Users, v \in DOMAIN submissions[d][t] :
                   ApproveSubmission(u, d, t, v) =>
                     campaign'[d] = MaybeCompleted(campaign[d], assignment'[d])
             /\ \A m \in Moderators : AwardTester(m, d, t) =>
                   campaign'[d] = MaybeCompleted(campaign[d], assignment'[d])
  BY <1>1 DEF ApproveSubmission, AwardTester
<1> QED BY <1>2, <1>3, <1>4

\* maybe_complete_campaign completes, or leaves the row as it is.
LEMMA MaybeStatus ==
    ASSUME NEW camp, NEW rows, camp.status # "completed" \/ CompletionDue(camp, rows),
           camp \in Campaign
    PROVE  /\ MaybeCompleted(camp, rows).status = "completed" <=> CompletionDue(camp, rows)
           /\ ~CompletionDue(camp, rows) => MaybeCompleted(camp, rows) = camp
BY DEF MaybeCompleted, Campaign

-----------------------------------------------------------------------------
(* Completion is earned *)

CloseRecorded(c) == Audited(campaign[c].owner, "campaign.closed", c) \in audit

CloseAudited == \A c \in Campaigns : campaign[c].status = "cancelled" => CloseRecorded(c)

\* What a withdrawal counts: the assignments before it or after it.
LEMMA FlushedEither ==
    ASSUME NEW message, NEW d \in Campaigns
    PROVE  Flushed(message, d) \in {assignment[d], assignment'[d]}
BY DEF Flushed

\* A request other than the closing one completes the campaign or leaves its row alone.
LEMMA CompletedElse ==
    ASSUME TypeOK, NEW d \in Campaigns, Concludes(d), \A u \in Users : ~CloseCampaign(u, d)
    PROVE  \/ campaign'[d] = campaign[d]
           \/ /\ campaign'[d].status = "completed"
              /\ \/ CompletionDue(campaign[d], assignment'[d])
                 \/ CompletionDue(campaign[d], assignment[d])
<1>1. campaign[d] \in Campaign
  BY DEF TypeOK
<1>2. \E rows \in {assignment[d], assignment'[d]} :
         campaign'[d] = MaybeCompleted(campaign[d], rows)
  <2>1. ASSUME NEW t \in Users, WithdrawAssignment(t, d)
        PROVE  \E rows \in {assignment[d], assignment'[d]} :
                 campaign'[d] = MaybeCompleted(campaign[d], rows)
    <3> DEFINE rows == Flushed(ToOwner("tester_withdrew", d, t, 0), d)
    <3>1. campaign'[d] = MaybeCompleted(campaign[d], rows)
      BY <2>1, Conclusion
    <3>2. rows \in {assignment[d], assignment'[d]}
      BY FlushedEither
    <3> QED BY <3>1, <3>2
  <2>2. ASSUME NEW t \in Users,
               \/ \E u \in Users : \E v \in DOMAIN submissions[d][t] : ApproveSubmission(u, d, t, v)
               \/ \E m \in Moderators : AwardTester(m, d, t)
        PROVE  campaign'[d] = MaybeCompleted(campaign[d], assignment'[d])
    BY <2>2, Conclusion
  <2> QED BY <2>1, <2>2 DEF Concludes
<1>3. ASSUME NEW rows, campaign'[d] = MaybeCompleted(campaign[d], rows)
      PROVE  \/ campaign'[d] = campaign[d]
             \/ campaign'[d].status = "completed" /\ CompletionDue(campaign[d], rows)
  BY <1>1, <1>3 DEF MaybeCompleted, Campaign
<1> QED BY <1>2, <1>3

\* A campaign is cancelled only together with its audit entry.
LEMMA CloseAuditedStep ==
    ASSUME TypeOK, CloseAudited, [Next]_vars
    PROVE  CloseAudited'
<1> SUFFICES ASSUME NEW d \in Campaigns, campaign'[d].status = "cancelled"
             PROVE  Audited(campaign'[d].owner, "campaign.closed", d) \in audit'
  BY DEF CloseAudited, CloseRecorded, Audited
<1>1. CASE campaign'[d] = campaign[d]
  BY <1>1, AuditGrows DEF CloseAudited, CloseRecorded
<1>2. CASE campaign'[d] # campaign[d]
  <2>1. Concludes(d)
    BY <1>2, ConcludedBy
  <2>2. PICK u \in Users : CloseCampaign(u, d)
    BY <1>2, <2>1, CompletedElse
  <2>3. /\ campaign[d].status \in {"published", "paused"}
        /\ Audited(campaign[d].owner, "campaign.closed", d) \in audit'
    BY <2>2, Conclusion
  <2> QED BY <2>3, OwnerFixed DEF Drafted
<1> QED BY <1>1, <1>2

EarnedByApprovals(c) == Cardinality(Approved(assignment[c])) >= campaign[c].target

EarnedByClosing(c) ==
    /\ CloseRecorded(c)
    /\ ActiveTesters(assignment[c]) = {}
    /\ EverAccepted(assignment[c]) # {}

\* What has been earned stays earned.
LEMMA EarnedStays ==
    ASSUME TypeOK, TypeOK', WorkSound, [Next]_vars, NEW d \in Campaigns,
           campaign[d].status \notin {"none", "draft"}
    PROVE  /\ EarnedByApprovals(d) => EarnedByApprovals(d)'
           /\ campaign[d].status # "published" /\ EarnedByClosing(d) => EarnedByClosing(d)'
<1>1. /\ campaign'[d].owner = campaign[d].owner
      /\ campaign'[d].target = campaign[d].target
      /\ campaign[d].target \in Nat
  BY OwnerFixed DEF Drafted, TypeOK, Campaign
<1>2. EarnedByApprovals(d) => EarnedByApprovals(d)'
  BY <1>1, ApprovalsGrow DEF EarnedByApprovals
<1>3. CloseRecorded(d) => CloseRecorded(d)'
  BY <1>1, AuditGrows DEF CloseRecorded, Audited
<1>4. ASSUME campaign[d].status # "published", EarnedByClosing(d) PROVE EarnedByClosing(d)'
  BY <1>3, <1>4, ActivatedBy DEF EarnedByClosing
<1> QED BY <1>2, <1>4

\* A step completes a campaign only for its approvals or its closing.
LEMMA EarnedStep ==
    ASSUME TypeOK, TypeOK', WorkSound, CloseAudited, CompletionEarned, [Next]_vars
    PROVE  CompletionEarned'
<1> SUFFICES ASSUME NEW d \in Campaigns, campaign'[d].status = "completed"
             PROVE  EarnedByApprovals(d)' \/ EarnedByClosing(d)'
  BY DEF CompletionEarned, EarnedByApprovals, EarnedByClosing, CloseRecorded, Audited
<1>1. CASE campaign[d].status = "completed"
  <2>1. EarnedByApprovals(d) \/ EarnedByClosing(d)
    BY <1>1 DEF CompletionEarned, EarnedByApprovals, EarnedByClosing, CloseRecorded
  <2> QED BY <1>1, <2>1, EarnedStays
<1>2. CASE campaign[d].status # "completed"
  <2>1. Concludes(d)
    BY <1>2, ConcludedBy
  <2>2. ASSUME NEW u \in Users, CloseCampaign(u, d) PROVE EarnedByClosing(d)'
    <3> DEFINE closed == [campaign[d] EXCEPT !.status = "cancelled"]
    <3>1. /\ campaign'[d] = MaybeCompleted(closed, assignment'[d])
          /\ closed.status = "cancelled"
          /\ campaign[d].status \in {"published", "paused"}
          /\ Audited(campaign[d].owner, "campaign.closed", d) \in audit'
      BY <2>2, Conclusion
    <3>2. CompletionDue(closed, assignment'[d])
      BY <3>1 DEF MaybeCompleted
    <3>3. ClosedWorkSettled(closed, assignment'[d])
      BY <3>1, <3>2 DEF CompletionDue, TargetReached
    <3>4. campaign'[d].owner = campaign[d].owner
      BY <3>1, OwnerFixed DEF Drafted
    <3> QED BY <3>1, <3>3, <3>4 DEF ClosedWorkSettled, EarnedByClosing, CloseRecorded, Audited
  <2>3. ASSUME CompletionDue(campaign[d], assignment[d])
        PROVE  EarnedByApprovals(d)' \/ EarnedByClosing(d)'
    <3>1. EarnedByApprovals(d) \/ (campaign[d].status = "cancelled" /\ EarnedByClosing(d))
      <4>1. TargetReached(campaign[d], assignment[d]) => EarnedByApprovals(d)
        BY DEF TargetReached, EarnedByApprovals
      <4>2. ClosedWorkSettled(campaign[d], assignment[d]) =>
              campaign[d].status = "cancelled" /\ EarnedByClosing(d)
        BY DEF ClosedWorkSettled, EarnedByClosing, CloseAudited
      <4>3. TargetReached(campaign[d], assignment[d]) \/ ClosedWorkSettled(campaign[d], assignment[d])
        BY <2>3 DEF CompletionDue
      <4> QED BY <4>1, <4>2, <4>3
    <3>2. campaign[d].status \notin {"none", "draft"}
      BY <2>3 DEF CompletionDue, TargetReached, ClosedWorkSettled
    <3> QED BY <3>1, <3>2, EarnedStays
  <2>4. ASSUME CompletionDue(campaign[d], assignment'[d])
        PROVE  EarnedByApprovals(d)' \/ EarnedByClosing(d)'
    <3>1. campaign[d].status \notin {"none", "draft"}
      BY <2>4 DEF CompletionDue, TargetReached, ClosedWorkSettled
    <3>2. /\ campaign'[d].target = campaign[d].target
          /\ campaign'[d].owner = campaign[d].owner
      BY <3>1, OwnerFixed DEF Drafted
    <3>3. CASE TargetReached(campaign[d], assignment'[d])
      BY <3>2, <3>3 DEF TargetReached, EarnedByApprovals
    <3>4. CASE ClosedWorkSettled(campaign[d], assignment'[d])
      <4>1. Audited(campaign'[d].owner, "campaign.closed", d) \in audit'
        BY <3>2, <3>4, AuditGrows DEF ClosedWorkSettled, CloseAudited, CloseRecorded
      <4> QED BY <3>4, <4>1 DEF ClosedWorkSettled, EarnedByClosing, CloseRecorded, Audited
    <3> QED BY <2>4, <3>3, <3>4 DEF CompletionDue
  <2> QED BY <1>2, <2>1, <2>2, <2>3, <2>4, CompletedElse
<1> QED BY <1>1, <1>2

\* Completion is earned: the target was reached, or recruitment was closed and nobody who had been
\* accepted is still at work (maybe_complete_campaign, whichever request calls it).
THEOREM CompletionTheorem == Spec => []CompletionEarned
<1>1. Init => CloseAudited /\ CompletionEarned
  BY DEF Init, NoCampaign, CloseAudited, CompletionEarned
<1>2. /\ TypeOK /\ TypeOK' /\ WorkSound /\ CloseAudited /\ CompletionEarned /\ [Next]_vars
      => (CloseAudited /\ CompletionEarned)'
  BY CloseAuditedStep, EarnedStep
<1> QED BY <1>1, <1>2, TypeCorrect, WorkSoundTheorem, PTL DEF Spec

-----------------------------------------------------------------------------
(* A closed campaign settles *)

\* The message of a withdrawal is told once, about an assignment that stays cancelled: so it is
\* new when a tester withdraws, and the withdrawal counts the assignments it leaves.
WithdrawalTold ==
    \A c \in Campaigns, t \in Users, u \in Users \cup {NoUser} :
        Notified(u, "tester_withdrew", c, t, 0) \in notifications =>
            Row(c, t).status = "cancelled"

\* Only the withdrawal itself tells of a withdrawal.
LEMMA ToldBy ==
    ASSUME [Next]_vars, NEW c \in Campaigns, NEW t \in Users, NEW u,
           Notified(u, "tester_withdrew", c, t, 0) \in notifications',
           Notified(u, "tester_withdrew", c, t, 0) \notin notifications
    PROVE  WithdrawAssignment(t, c)
<1> DEFINE message == Notified(u, "tester_withdrew", c, t, 0)
<1>1. ~UNCHANGED notifications
  OBVIOUS
<1>2. ASSUME NEW messages, AddNotifications(messages) PROVE message \in messages
  BY <1>2 DEF AddNotifications
<1>3. ASSUME NEW x, NEW kind, NEW d, NEW w, NEW version,
             message = Notified(x, kind, d, w, version)
      PROVE  kind = "tester_withdrew" /\ d = c /\ w = t
  BY <1>3 DEF Notified
<1>4. ASSUME NEW kind, NEW d, NEW w, NEW version
      PROVE  /\ message = ToOwner(kind, d, w, version) => kind = "tester_withdrew" /\ d = c /\ w = t
             /\ message = ToTester(kind, d, w, version) => kind = "tester_withdrew"
  BY <1>3 DEF ToOwner, ToTester
<1> HIDE DEF message
<1>5. ASSUME NEW x \in Users, NEW d \in Campaigns, OwnerStep(x, d) PROVE FALSE
  <2>1. ASSUME NEW w \in Users, NEW v \in DOMAIN submissions[d][w],
               ApproveSubmission(x, d, w, v) \/ RequestChanges(x, d, w, v)
                 \/ RejectSubmission(x, d, w, v)
        PROVE  FALSE
    BY <1>2, <1>4, <2>1 DEF ApproveSubmission, RequestChanges, RejectSubmission, Reviewed
  <2>2. ASSUME NEW w \in Users, AcceptAssignment(x, d, w) \/ DeclineAssignment(x, d, w)
        PROVE  FALSE
    BY <1>2, <1>4, <2>2 DEF AcceptAssignment, DeclineAssignment
  <2>3. ~CloseCampaign(x, d)
    BY <1>2, <1>3 DEF CloseCampaign
  <2>4. ASSUME \/ PublishCampaign(x, d) \/ PauseCampaign(x, d) \/ ResumeCampaign(x, d)
               \/ \E terms \in Terms : UpsertContract(x, d, terms)
        PROVE  FALSE
    BY <1>1, <2>4 DEF PublishCampaign, PauseCampaign, ResumeCampaign, UpsertContract
  <2>5. ASSUME NEW target \in Targets, NEW reward \in Rewards,
               \/ CreateCampaign(x, d, target, reward)
               \/ UpdateCampaign(x, d, target, reward)
               \/ \E terms \in Terms : LaunchCampaign(x, d, target, reward, terms)
        PROVE  FALSE
    BY <1>1, <2>5 DEF CreateCampaign, UpdateCampaign, LaunchCampaign
  <2> QED BY <1>5, <2>1, <2>2, <2>3, <2>4, <2>5 DEF OwnerStep
<1>6. ASSUME NEW w \in Users, NEW d \in Campaigns, TesterStep(w, d) PROVE WithdrawAssignment(t, c)
  <2>1. ~StartAssignment(w, d) /\ ~RecordTestingSession(w, d)
    BY <1>1 DEF StartAssignment, RecordTestingSession
  <2>2. ~ApplyToCampaign(w, d) /\ ~CreateSubmission(w, d)
    BY <1>2, <1>4 DEF ApplyToCampaign, CreateSubmission
  <2>3. ASSUME NEW v \in DOMAIN submissions[d][w] PROVE ~OpenDispute(w, d, v)
    BY <1>2, <1>4 DEF OpenDispute
  <2>4. WithdrawAssignment(w, d)
    BY <1>6, <2>1, <2>2, <2>3 DEF TesterStep
  <2>5. d = c /\ w = t
    BY <1>2, <1>4, <2>4 DEF WithdrawAssignment
  <2> QED BY <2>4, <2>5
<1>7. ASSUME NEW m \in Moderators, NEW d \in Campaigns, NEW w \in Users, ModeratorStep(m, d, w)
      PROVE  FALSE
  <2>1. ~ClaimDispute(m, d, w)
    BY <1>1 DEF ClaimDispute
  <2>2. ASSUME NEW outcome, NEW remedy, NEW completion
        PROVE  ~Resolved(m, d, w, outcome, remedy, completion)
    BY <1>2, <1>4 DEF Resolved
  <2> QED BY <1>7, <2>1, <2>2 DEF ModeratorStep, RejectOverdueWork, CloseWithoutAward, AwardTester
<1>8. ASSUME \/ Tick \/ UNCHANGED vars
             \/ \E m \in Moderators, x \in Users : SuspendParticipant(m, x) \/ RestoreParticipant(m, x)
      PROVE  FALSE
  BY <1>1, <1>8 DEF Tick, vars, SuspendParticipant, RestoreParticipant
<1> QED BY <1>5, <1>6, <1>7, <1>8 DEF Next

\* Every step keeps the message of a withdrawal true.
LEMMA ToldStep ==
    ASSUME TypeOK, WithdrawalTold, [Next]_vars
    PROVE  WithdrawalTold'
<1>1. ASSUME NEW c \in Campaigns, NEW t \in Users, NEW u \in Users \cup {NoUser},
             Notified(u, "tester_withdrew", c, t, 0) \in notifications'
      PROVE  assignment'[c][t].status = "cancelled"
  <2>1. CASE Notified(u, "tester_withdrew", c, t, 0) \in notifications
    <3>1. Row(c, t).status = "cancelled"
      BY <2>1 DEF WithdrawalTold
    <3>2. ~Writes(c, t)
      BY <3>1 DEF Writes, AcceptAssignment, DeclineAssignment, Pending, ApproveSubmission,
                  RequestChanges, RejectSubmission, Reviewable, ApplyToCampaign,
                  WithdrawAssignment, Withdrawable, StartAssignment, CreateSubmission, Testing,
                  RejectOverdueWork, AwardTester, Row
    <3> QED BY <3>1, <3>2, WritesRow DEF Row
  <2>2. CASE Notified(u, "tester_withdrew", c, t, 0) \notin notifications
    BY <1>1, <2>2, ToldBy, WrittenStatus
  <2> QED BY <2>1, <2>2
<1> QED BY <1>1 DEF WithdrawalTold, Notified, Row

\* The assignments a withdrawal counts are those it leaves.
LEMMA WithdrawalCounts ==
    ASSUME TypeOK, WithdrawalTold, NEW d \in Campaigns, NEW t \in Users, WithdrawAssignment(t, d)
    PROVE  campaign'[d] = MaybeCompleted(campaign[d], assignment'[d])
<1>1. Row(d, t).status # "cancelled"
  BY DEF WithdrawAssignment, Withdrawable
<1>2. campaign[d].owner \in Users \cup {NoUser}
  BY DEF TypeOK, Campaign
<1>3. ToOwner("tester_withdrew", d, t, 0) \notin notifications
  BY <1>1, <1>2 DEF WithdrawalTold, ToOwner
<1> QED BY <1>3, Conclusion DEF Flushed

\* No step leaves a closed campaign with pending work, or uncompleted once its work is settled.
LEMMA SettleStep ==
    ASSUME TypeOK, WithdrawalTold, ClosedCampaignSettles, [Next]_vars
    PROVE  ClosedCampaignSettles'
<1> SUFFICES ASSUME NEW d \in Campaigns, campaign'[d].status = "cancelled"
             PROVE  /\ Pending(assignment'[d]) = {}
                    /\ \/ ~ClosedWorkSettled(campaign'[d], assignment'[d])
                       \/ \E t \in Users : assignment'[d][t].status = "rejected"
  BY DEF ClosedCampaignSettles, Row
<1>1. campaign[d] \in Campaign /\ assignment[d] \in [Users -> Assignment]
  BY DEF TypeOK
<1>2. CASE campaign'[d] # campaign[d]
  <2>1. PICK u \in Users : CloseCampaign(u, d)
    BY <1>2, ConcludedBy, CompletedElse
  <2> DEFINE closed == [campaign[d] EXCEPT !.status = "cancelled"]
  <2>2. /\ campaign'[d] = MaybeCompleted(closed, assignment'[d])
        /\ closed.status = "cancelled"
        /\ assignment'[d] = Closing(assignment[d])
    BY <2>1, Conclusion
  <2>3. ~CompletionDue(closed, assignment'[d]) /\ campaign'[d] = closed
    BY <1>1, <2>2 DEF MaybeCompleted, Campaign
  <2>4. ~ClosedWorkSettled(campaign'[d], assignment'[d])
    BY <2>3 DEF CompletionDue
  <2>5. ASSUME NEW t \in Users PROVE assignment'[d][t].status # "applied"
    <3>1. Cancelled(assignment[d][t]).status = "cancelled"
      BY <1>1, WrittenRows
    <3> QED BY <2>2, <3>1 DEF Closing, Pending
  <2> QED BY <2>4, <2>5 DEF Pending
<1>3. CASE campaign'[d] = campaign[d]
  <2>1. campaign[d].status = "cancelled"
    BY <1>3
  <2>2. /\ Pending(assignment[d]) = {}
        /\ \/ ~ClosedWorkSettled(campaign[d], assignment[d])
           \/ \E t \in Users : assignment[d][t].status = "rejected"
    BY <2>1 DEF ClosedCampaignSettles, Row
  <2>3. ASSUME NEW t \in Users PROVE assignment'[d][t].status # "applied"
    <3>1. assignment[d][t].status # "applied"
      BY <2>2 DEF Pending
    <3>2. ~ApplyToCampaign(t, d)
      BY <2>1 DEF ApplyToCampaign
    <3> QED BY <3>1, <3>2, WritesRow, WrittenStatus DEF Writes
  <2>4. ASSUME ClosedWorkSettled(campaign'[d], assignment'[d]),
               \A t \in Users : assignment'[d][t].status # "rejected"
        PROVE  FALSE
    <3>1. /\ ActiveTesters(assignment'[d]) = {}
          /\ EverAccepted(assignment[d]) # {}
          /\ campaign'[d] # MaybeCompleted(campaign[d], assignment'[d])
      <4>1. CompletionDue(campaign[d], assignment'[d])
        BY <1>3, <2>4 DEF CompletionDue
      <4>2. MaybeCompleted(campaign[d], assignment'[d]).status = "completed"
        BY <1>1, <4>1 DEF MaybeCompleted, Campaign
      <4> QED BY <1>3, <2>1, <2>4, <4>2, ActivatedBy DEF ClosedWorkSettled
    <3>2. \E t \in Users : \/ assignment[d][t].status \in ActiveStatus
                           \/ assignment[d][t].status = "rejected"
      BY <2>1, <2>2, <3>1 DEF ClosedWorkSettled, ActiveTesters
    <3>3. PICK t \in Users : assignment[d][t].status \in ActiveStatus \cup {"rejected"}
      BY <3>2
    <3>4. assignment'[d][t].status \notin ActiveStatus \cup {"rejected"}
      BY <2>4, <3>1 DEF ActiveTesters
    <3>5. Writes(d, t)
      BY <3>3, <3>4, WritesRow
    <3>6. /\ ~WithdrawAssignment(t, d)
          /\ \A m \in Moderators : ~AwardTester(m, d, t)
          /\ \A u \in Users, v \in DOMAIN submissions[d][t] : ~ApproveSubmission(u, d, t, v)
      BY <3>1, WithdrawalCounts, Conclusion
    <3>7. ASSUME NEW u \in Users
          PROVE  ~AcceptAssignment(u, d, t) /\ ~DeclineAssignment(u, d, t) /\ ~CloseCampaign(u, d)
      BY <2>1, <3>3 DEF AcceptAssignment, DeclineAssignment, CloseCampaign, Row, ActiveStatus
    <3>8. ~ApplyToCampaign(t, d)
      BY <2>1 DEF ApplyToCampaign
    <3>9. /\ StartAssignment(t, d) \/ CreateSubmission(t, d) =>
               assignment'[d][t].status \in ActiveStatus
          /\ \A u \in Users, v \in DOMAIN submissions[d][t] :
               RequestChanges(u, d, t, v) \/ RejectSubmission(u, d, t, v) =>
                 assignment'[d][t].status \in ActiveStatus \cup {"rejected"}
          /\ \A m \in Moderators : RejectOverdueWork(m, d, t) =>
               assignment'[d][t].status = "rejected"
      BY WrittenStatus DEF ActiveStatus
    <3> QED BY <3>4, <3>5, <3>6, <3>7, <3>8, <3>9 DEF Writes
  <2> QED BY <2>3, <2>4 DEF Pending
<1> QED BY <1>2, <1>3

\* Closing leaves no application pending, and a closed campaign whose accepted work is all settled
\* has completed, unless some of it was rejected (transition_campaign, withdraw_assignment).
THEOREM SettlementTheorem == Spec => []ClosedCampaignSettles
<1>1. Init => WithdrawalTold /\ ClosedCampaignSettles
  BY DEF Init, NoCampaign, WithdrawalTold, ClosedCampaignSettles
<1>2. /\ TypeOK /\ WithdrawalTold /\ ClosedCampaignSettles /\ [Next]_vars
      => (WithdrawalTold /\ ClosedCampaignSettles)'
  BY ToldStep, SettleStep
<1> QED BY <1>1, <1>2, TypeCorrect, PTL DEF Spec

-----------------------------------------------------------------------------
(* What is submitted has met the contract *)

Met(c, t, v) ==
    LET at == submissions[c][t][v].submitted_at
        terms == contract[c].terms
    IN  /\ at >= Row(c, t).started_at + terms.minimum_days * TicksPerDay
        /\ Cardinality({d \in sessions[c][t] : d * TicksPerDay <= at}) >= terms.required_sessions

\* Nothing is submitted before the start, and no session is of a day to come.
ContractSound ==
    \A c \in Campaigns, t \in Users :
        /\ Row(c, t).status \in {"none", "applied", "accepted"} => submissions[c][t] = <<>>
        /\ IsFiniteSet(sessions[c][t])
        /\ \A d \in sessions[c][t] : d * TicksPerDay <= now
        /\ \A v \in 1 .. Versions(c, t) : Met(c, t, v)

\* The moves that write a submission.
LEMMA SubmissionMove ==
    ASSUME TypeOK, [Next]_vars, NEW c \in Campaigns, NEW t \in Users
    PROVE  \/ UNCHANGED submissions[c][t]
           \/ Submits(c, t)
           \/ \E v \in DOMAIN submissions[c][t], decision \in Decision : Reviews(c, t, v, decision)
           \/ Awards(c, t)
           \/ Overrules(c, t)
<1>1. Untouched(c, t) \/ Prepares(c, t) => UNCHANGED submissions[c][t]
  BY DEF Untouched, Prepares
<1>2. \A v \in DOMAIN submissions[c][t] : Escalates(c, t, v) => UNCHANGED submissions[c][t]
  BY DEF Escalates
<1>3. \A m \in Moderators : Claims(c, t, m) => UNCHANGED submissions[c][t]
  BY DEF Claims
<1>4. \A outcome \in {"resolved", "rejected"} :
        Dismisses(c, t, outcome) => UNCHANGED submissions[c][t]
  BY DEF Dismisses
<1>5. WorkMove(c, t)
  BY WorkMoves
<1> QED BY <1>1, <1>2, <1>3, <1>4, <1>5 DEF WorkMove

\* A version more is the work of create_submission.
LEMMA SubmittedBy ==
    ASSUME TypeOK, [Next]_vars, NEW c \in Campaigns, NEW t \in Users, Submits(c, t)
    PROVE  CreateSubmission(t, c)
<1>1. Row(c, t).status \in {"in_progress", "changes_requested"}
        /\ assignment'[c][t].status = "submitted"
  BY DEF Submits, Testing
<1>2. Writes(c, t)
  BY <1>1, WritesRow DEF Row
<1> QED BY <1>1, <1>2, WrittenStatus DEF Writes

\* started_at is written by start_assignment alone.
LEMMA StartedKept ==
    ASSUME TypeOK, [Next]_vars, NEW d \in Campaigns, NEW w \in Users
    PROVE  assignment'[d][w].started_at = Row(d, w).started_at \/ StartAssignment(w, d)
<1> DEFINE old == assignment[d][w]
           new == assignment'[d][w]
           kept == new.started_at = old.started_at
<1>1. old \in Assignment /\ Row(d, w) = old
  BY WorkTables DEF Row
<1>2. ASSUME NEW row, assignment' = Put(assignment, d, w, row) PROVE new = row
  BY <1>2, PutAt
<1>3. ASSUME NEW status \in AssignmentStatus, assignment' = SetStatus(d, w, status) PROVE kept
  <2>1. new = [old EXCEPT !.status = status]
    BY <1>1, <1>2, <1>3 DEF SetStatus
  <2> QED BY <1>1, <2>1 DEF Assignment
<1>4. ASSUME assignment' = Put(assignment, d, w, Cancelled(old)) PROVE kept
  <2>1. new = Cancelled(old)
    BY <1>2, <1>4
  <2> QED BY <1>1, <2>1 DEF Cancelled, Assignment
<1>5. ASSUME assignment' = Put(assignment, d, w, ApprovedRow(old)) PROVE kept
  <2>1. new = ApprovedRow(old)
    BY <1>2, <1>5
  <2> QED BY <1>1, <2>1 DEF ApprovedRow, Assignment
<1>6. ASSUME NEW u \in Users, AcceptAssignment(u, d, w) PROVE kept
  <2>1. new = [old EXCEPT !.status = "accepted", !.accepted_at = TRUE]
    BY <1>1, <1>2, <1>6 DEF AcceptAssignment
  <2> QED BY <1>1, <2>1 DEF Assignment
<1>7. ASSUME NEW m \in Moderators, RejectOverdueWork(m, d, w) PROVE kept
  <2>1. new = [old EXCEPT !.status = "rejected", !.completed_at = TRUE]
    BY <1>1, <1>2, <1>7 DEF RejectOverdueWork
  <2> QED BY <1>1, <2>1 DEF Assignment
<1>8. ASSUME NEW u \in Users, CloseCampaign(u, d), w \in Pending(assignment[d]) PROVE kept
  <2>1. assignment' = [assignment EXCEPT ![d] = Closing(assignment[d])]
    BY <1>8 DEF CloseCampaign
  <2>2. new = Cancelled(old)
    BY <1>8, <2>1, WorkTables DEF Closing
  <2> QED BY <1>1, <2>2 DEF Cancelled, Assignment
<1>9. ASSUME NEW u \in Users, DeclineAssignment(u, d, w) PROVE kept
  BY <1>1, <1>4, <1>9 DEF DeclineAssignment
<1>10. ASSUME WithdrawAssignment(w, d) PROVE kept
  BY <1>1, <1>4, <1>10 DEF WithdrawAssignment
<1>11. ASSUME NEW u \in Users, NEW v \in DOMAIN submissions[d][w],
              ApproveSubmission(u, d, w, v) \/ RequestChanges(u, d, w, v)
                \/ RejectSubmission(u, d, w, v)
       PROVE  kept
  <2>1. \/ assignment' = Put(assignment, d, w, ApprovedRow(old))
        \/ assignment' = SetStatus(d, w, "changes_requested")
        \/ assignment' = SetStatus(d, w, "rejected")
    BY <1>1, <1>11 DEF ApproveSubmission, RequestChanges, RejectSubmission
  <2> QED BY <1>3, <1>5, <2>1 DEF AssignmentStatus
<1>12. ASSUME ApplyToCampaign(w, d) \/ CreateSubmission(w, d) PROVE kept
  <2>1. assignment' = SetStatus(d, w, "applied") \/ assignment' = SetStatus(d, w, "submitted")
    BY <1>12 DEF ApplyToCampaign, CreateSubmission
  <2> QED BY <1>3, <2>1 DEF AssignmentStatus
<1>13. ASSUME NEW m \in Moderators, AwardTester(m, d, w) PROVE kept
  BY <1>1, <1>5, <1>13 DEF AwardTester
<1>14. new = old \/ Writes(d, w)
  BY WritesRow
<1> HIDE DEF old, new, kept
<1>15. kept \/ StartAssignment(w, d)
  <2>1. CASE new = old
    BY <2>1 DEF kept
  <2>2. CASE Writes(d, w)
    BY <2>2, <1>6, <1>7, <1>8, <1>9, <1>10, <1>11, <1>12, <1>13 DEF Writes
  <2> QED BY <1>14, <2>1, <2>2
<1> QED BY <1>1, <1>15 DEF kept, new, old

\* The clock never goes back.
LEMMA ClockStep ==
    ASSUME TypeOK, [Next]_vars
    PROVE  now' \in {now, now + 1}
<1>1. ASSUME NEW u \in Users, NEW c \in Campaigns, OwnerStep(u, c) PROVE now' = now
  <2>1. ASSUME NEW t \in Users, NEW v \in DOMAIN submissions[c][t],
               ApproveSubmission(u, c, t, v) \/ RequestChanges(u, c, t, v)
                 \/ RejectSubmission(u, c, t, v)
        PROVE  now' = now
    BY <2>1 DEF ApproveSubmission, RequestChanges, RejectSubmission, Reviewed
  <2>2. ASSUME NEW t \in Users, AcceptAssignment(u, c, t) \/ DeclineAssignment(u, c, t)
        PROVE  now' = now
    BY <2>2 DEF AcceptAssignment, DeclineAssignment, unchangedByOwner
  <2>3. ASSUME \/ PublishCampaign(u, c) \/ PauseCampaign(u, c) \/ ResumeCampaign(u, c)
               \/ CloseCampaign(u, c) \/ \E terms \in Terms : UpsertContract(u, c, terms)
        PROVE  now' = now
    BY <2>3 DEF PublishCampaign, PauseCampaign, ResumeCampaign, CloseCampaign, UpsertContract,
                unchangedByOwner
  <2>4. ASSUME NEW target \in Targets, NEW reward \in Rewards,
               \/ CreateCampaign(u, c, target, reward)
               \/ UpdateCampaign(u, c, target, reward)
               \/ \E terms \in Terms : LaunchCampaign(u, c, target, reward, terms)
        PROVE  now' = now
    BY <2>4 DEF CreateCampaign, UpdateCampaign, LaunchCampaign, unchangedByOwner
  <2> QED BY <1>1, <2>1, <2>2, <2>3, <2>4 DEF OwnerStep
<1>2. ASSUME NEW t \in Users, NEW c \in Campaigns, TesterStep(t, c) PROVE now' = now
  <2>1. CASE ApplyToCampaign(t, c) \/ WithdrawAssignment(t, c)
    BY <2>1 DEF ApplyToCampaign, WithdrawAssignment, unchangedByOwner
  <2>2. CASE StartAssignment(t, c) \/ RecordTestingSession(t, c) \/ CreateSubmission(t, c)
    BY <2>2 DEF StartAssignment, RecordTestingSession, CreateSubmission
  <2>3. ASSUME NEW v \in DOMAIN submissions[c][t], OpenDispute(t, c, v) PROVE now' = now
    BY <2>3 DEF OpenDispute
  <2> QED BY <1>2, <2>1, <2>2, <2>3 DEF TesterStep
<1>3. ASSUME NEW m \in Moderators, NEW c \in Campaigns, NEW t \in Users, ModeratorStep(m, c, t)
      PROVE  now' = now
  BY <1>3 DEF ModeratorStep, ClaimDispute, RejectOverdueWork, CloseWithoutAward, AwardTester,
              Resolved
<1>4. ASSUME \/ Tick \/ UNCHANGED vars
             \/ \E m \in Moderators, u \in Users : SuspendParticipant(m, u) \/ RestoreParticipant(m, u)
      PROVE  now' \in {now, now + 1}
  BY <1>4 DEF Tick, vars, SuspendParticipant, RestoreParticipant
<1> QED BY <1>1, <1>2, <1>3, <1>4 DEF Next

\* Today has begun.
LEMMA TodayBegun == ASSUME TypeOK PROVE Today \in Nat /\ Today * TicksPerDay <= now
<1>1. now \in Nat /\ TicksPerDay \in Nat \ {0}
  BY ClockAssumption DEF TypeOK
<1>2. (now \div TicksPerDay) * TicksPerDay <= now
  BY <1>1
<1> QED BY <1>2, TodayType DEF Today

\* A version that has met the contract has for good.
LEMMA MetStays ==
    ASSUME TypeOK, TypeOK', References, WorkSound, ContractSound, [Next]_vars,
           NEW c \in Campaigns, NEW t \in Users, NEW v \in 1 .. Versions(c, t),
           IsFiniteSet(sessions'[c][t])
    PROVE  Met(c, t, v)'
<1>1. submissions'[c][t][v].submitted_at = submissions[c][t][v].submitted_at
  BY EvidenceStep DEF VersionsKept, Kept, Versions
<1>2. Row(c, t).status \notin {"none", "applied", "accepted"}
  BY DEF ContractSound, Versions
<1>3. contract'[c] = contract[c]
  BY <1>2, ContractStep DEF References, Drafted
<1>4. assignment'[c][t].started_at = Row(c, t).started_at
  <2>1. StartAssignment(t, c) => Row(c, t).status = "accepted"
    BY DEF StartAssignment
  <2> QED BY <1>2, <2>1, StartedKept
<1> DEFINE at == submissions[c][t][v].submitted_at
           old == {d \in sessions[c][t] : d * TicksPerDay <= at}
           new == {d \in sessions'[c][t] : d * TicksPerDay <= at}
<1>5. sessions[c][t] \subseteq sessions'[c][t]
  BY SessionStep DEF SessionMove
<1>6. old \subseteq new /\ new \subseteq sessions'[c][t]
  BY <1>5
<1>7. IsFiniteSet(new)
  BY <1>6, FS_Subset
<1>8. /\ Cardinality(old) <= Cardinality(new)
      /\ Cardinality(old) \in Nat /\ Cardinality(new) \in Nat
  BY <1>6, <1>7, FS_Subset, FS_CardinalityType
<1>9. contract[c].terms.required_sessions \in Nat
  BY DEF TypeOK, Contract, AnyTerms
<1>10. Met(c, t, v)
  BY DEF ContractSound
<1>11. Cardinality(new) >= contract[c].terms.required_sessions
  BY <1>8, <1>9, <1>10 DEF Met
<1> QED BY <1>1, <1>3, <1>4, <1>10, <1>11 DEF Met, Row

\* A new version meets it when it is submitted.
LEMMA MetAtFirst ==
    ASSUME TypeOK, ContractSound, [Next]_vars, NEW c \in Campaigns, NEW t \in Users, Submits(c, t),
           NEW n \in Nat, n = Len(submissions[c][t]) + 1
    PROVE  Met(c, t, n)'
<1>1. CreateSubmission(t, c) /\ submissions[c][t] \in Seq(Submission)
  BY SubmittedBy, WorkTables
<1>2. submissions'[c][t][n].submitted_at = now
  BY <1>1 DEF Submits
<1>3. UNCHANGED <<contract, sessions>> /\ ContractFulfilled(c, t)
  BY <1>1 DEF CreateSubmission, campaignVars
<1>4. assignment'[c][t].started_at = Row(c, t).started_at
  <2>1. StartAssignment(t, c) => Row(c, t).status = "accepted"
    BY DEF StartAssignment
  <2>2. Row(c, t).status # "accepted"
    BY DEF Submits, Testing
  <2> QED BY <2>1, <2>2, StartedKept
<1>5. {d \in sessions[c][t] : d * TicksPerDay <= now} = sessions[c][t]
  BY DEF ContractSound
<1> QED BY <1>2, <1>3, <1>4, <1>5 DEF Met, Row, ContractFulfilled

\* Every step keeps what ContractSound says of the work under way.
LEMMA ContractSoundStep ==
    ASSUME TypeOK, TypeOK', References, WorkSound, ContractSound, [Next]_vars
    PROVE  ContractSound'
<1> SUFFICES ASSUME NEW c \in Campaigns, NEW t \in Users
             PROVE  /\ assignment'[c][t].status \in {"none", "applied", "accepted"} =>
                         submissions'[c][t] = <<>>
                    /\ IsFiniteSet(sessions'[c][t])
                    /\ \A d \in sessions'[c][t] : d * TicksPerDay <= now'
                    /\ \A v \in 1 .. Len(submissions'[c][t]) : Met(c, t, v)'
  BY DEF ContractSound, Row, Versions
<1>1. /\ Row(c, t).status \in {"none", "applied", "accepted"} => submissions[c][t] = <<>>
      /\ IsFiniteSet(sessions[c][t])
      /\ \A d \in sessions[c][t] : d \in Nat /\ d * TicksPerDay <= now
      /\ submissions[c][t] \in Seq(Submission) /\ now \in Nat /\ TicksPerDay \in Nat
  BY WorkTables, ClockAssumption DEF ContractSound, TypeOK
<1>2. WorkMove(c, t) /\ SessionMove(c, t) /\ now' \in {now, now + 1} /\ VersionsKept(c, t)
  BY WorkMoves, SessionStep, ClockStep, EvidenceStep
<1>3. IsFiniteSet(sessions'[c][t])
  <2>1. IsFiniteSet(sessions[c][t] \cup {Today})
    BY <1>1, FS_AddElement
  <2> QED BY <1>1, <1>2, <2>1 DEF SessionMove
<1>4. \A d \in sessions'[c][t] : d * TicksPerDay <= now'
  <2>1. \A d \in sessions'[c][t] : d * TicksPerDay <= now
    BY <1>1, <1>2, TodayBegun DEF SessionMove
  <2>2. \A d \in sessions'[c][t] : d \in Nat
    BY <1>1, <1>2, TodayType DEF SessionMove
  <2>3. ASSUME NEW d \in sessions'[c][t] PROVE d * TicksPerDay <= now'
    <3> DEFINE begun == d * TicksPerDay
    <3>1. begun \in Int /\ begun <= now
      BY <1>1, <2>1, <2>2
    <3> HIDE DEF begun
    <3>2. begun <= now'
      BY <1>1, <1>2, <3>1
    <3> QED BY <3>2 DEF begun
  <2> QED BY <2>3
<1>5. ASSUME assignment'[c][t].status \in {"none", "applied", "accepted"}
      PROVE  submissions'[c][t] = <<>>
  <2>1. Row(c, t).status \in {"none", "applied", "accepted"}
    <3>1. CASE assignment'[c][t] = Row(c, t)
      BY <1>5, <3>1
    <3>2. CASE assignment'[c][t] # Row(c, t)
      <4>1. Writes(c, t)
        BY <3>2, WritesRow DEF Row
      <4>2. ApplyToCampaign(t, c) \/ \E u \in Users : AcceptAssignment(u, c, t)
        BY <1>5, <4>1, WrittenStatus DEF Writes
      <4> QED BY <4>2 DEF ApplyToCampaign, AcceptAssignment
    <3> QED BY <3>1, <3>2
  <2>2. UNCHANGED submissions[c][t]
    <3>1. ~Submits(c, t) /\ ~Awards(c, t) /\ ~Overrules(c, t)
      BY <2>1 DEF Submits, Testing, Awards, Overrules
    <3>2. \A v \in DOMAIN submissions[c][t], decision \in Decision : ~Reviews(c, t, v, decision)
      BY <2>1 DEF Reviews
    <3> QED BY <3>1, <3>2, SubmissionMove
  <2> QED BY <1>1, <2>1, <2>2
<1>6. ASSUME NEW v \in 1 .. Len(submissions'[c][t]) PROVE Met(c, t, v)'
  <2>1. CASE v \in 1 .. Len(submissions[c][t])
    BY <1>3, <2>1, MetStays DEF Versions
  <2>2. CASE v \notin 1 .. Len(submissions[c][t])
    <3>1. Len(submissions'[c][t]) # Len(submissions[c][t])
      BY <1>6, <2>2
    <3>2. Submits(c, t)
      <4>1. ASSUME NEW i \in DOMAIN submissions[c][t], NEW row,
                   submissions'[c][t] = [submissions[c][t] EXCEPT ![i] = row]
            PROVE  FALSE
        <5>1. Len(submissions'[c][t]) = Len(submissions[c][t])
          BY <1>1, <4>1
        <5> QED BY <3>1, <5>1
      <4>2. ~Awards(c, t) /\ ~Overrules(c, t)
        BY <4>1 DEF Awards, Overrules, Decides
      <4>3. \A i \in DOMAIN submissions[c][t], decision \in Decision : ~Reviews(c, t, i, decision)
        BY <4>1 DEF Reviews
      <4>4. submissions'[c][t] # submissions[c][t]
        BY <3>1
      <4> QED BY <4>2, <4>3, <4>4, SubmissionMove
    <3>3. Len(submissions'[c][t]) = Len(submissions[c][t]) + 1
      BY <1>1, <3>2 DEF Submits
    <3>4. v = Len(submissions[c][t]) + 1
      BY <1>1, <1>6, <2>2, <3>3
    <3> QED BY <1>1, <3>2, <3>4, MetAtFirst
  <2> QED BY <2>1, <2>2
<1> QED BY <1>3, <1>4, <1>5, <1>6

\* Whatever is submitted has met the contract, and the contract it met is the one it still has
\* (create_submission, upsert_contract).
THEOREM ContractTheorem == Spec => []ContractHonoured
<1>1. Init => ContractSound
  BY FS_EmptySet DEF Init, ContractSound, Row, Versions, Met
<1>2. TypeOK /\ TypeOK' /\ References /\ WorkSound /\ ContractSound /\ [Next]_vars => ContractSound'
  BY ContractSoundStep
<1>3. ContractSound => ContractHonoured
  BY DEF ContractSound, ContractHonoured, Met
<1> QED BY <1>1, <1>2, <1>3, TypeCorrect, WorkSoundTheorem, PTL DEF Spec

-----------------------------------------------------------------------------
(* Sums of ledger entries *)

\* The entry that the sum takes first, and the table of the sums of all subsets of S.
First(s) == CHOOSE x \in s : TRUE

Summed(g, S) ==
    g = [s \in SUBSET S |-> IF s = {} THEN 0 ELSE First(s).delta + g[s \ {First(s)}]]

\* The fold of the ledger picks such a table.
LEMMA DeltaSumChosen ==
    ASSUME NEW S PROVE DeltaSum(S) = (CHOOSE g : Summed(g, S))[S]
BY DEF DeltaSum, MapThenFoldSet, Summed, First

\* A property that some subset of a finite set lacks is lacking in a smallest one: this is the
\* induction over finite sets that the proofs below use.
LEMMA Smallest ==
    ASSUME NEW S, IsFiniteSet(S), NEW T, T \subseteq SUBSET S, T # {}
    PROVE  \E s \in T : \A r \in SUBSET s : r # s => r \notin T
<1>1. T \subseteq FiniteSubsetsOf(S)
  BY FS_FiniteSubsetsOfFinite
<1>2. PICK s \in T : \A r \in T : <<r, s>> \notin StrictSubsetOrdering(S)
  BY <1>1, FS_StrictSubsetOrderingWellFounded, WFMin
<1> QED BY <1>2 DEF StrictSubsetOrdering

\* What the table holds.
LEMMA SummedAt ==
    ASSUME NEW S, NEW g, Summed(g, S), NEW s \in SUBSET S
    PROVE  /\ s = {} => g[s] = 0
           /\ s # {} => g[s] = First(s).delta + g[s \ {First(s)}]
BY DEF Summed

\* The sum takes an entry that is there.
LEMMA FirstIn == ASSUME NEW s, s # {} PROVE First(s) \in s
BY DEF First

\* Two tables agree on the sets they have in common.
LEMMA SummedAgree ==
    ASSUME NEW A, NEW B, NEW g, NEW h, Summed(g, A), Summed(h, B), IsFiniteSet(A \cap B),
           NEW s \in SUBSET (A \cap B)
    PROVE  g[s] = h[s]
<1> DEFINE Bad == {r \in SUBSET (A \cap B) : g[r] # h[r]}
<1> SUFFICES ASSUME Bad # {} PROVE FALSE
  OBVIOUS
<1>0. Bad \subseteq SUBSET (A \cap B)
  OBVIOUS
<1>1. PICK r \in Bad : \A q \in SUBSET r : q # r => q \notin Bad
  <2> HIDE DEF Bad
  <2> QED BY <1>0, Smallest
<1>2. r \in SUBSET A /\ r \in SUBSET B
  OBVIOUS
<1>3. r # {}
  BY <1>2, SummedAt
<1>4. First(r) \in r
  BY <1>3, FirstIn
<1>5. g[r \ {First(r)}] = h[r \ {First(r)}]
  BY <1>1, <1>4
<1>6. /\ g[r] = First(r).delta + g[r \ {First(r)}]
      /\ h[r] = First(r).delta + h[r \ {First(r)}]
  BY <1>2, <1>3, SummedAt
<1> QED BY <1>5, <1>6

\* Every finite set has a table: its smaller subsets have theirs, and these agree.
LEMMA SummedExists ==
    ASSUME NEW S, IsFiniteSet(S)
    PROVE  \E g : Summed(g, S)
<1> DEFINE Bad == {r \in SUBSET S : ~\E g : Summed(g, r)}
<1> SUFFICES ASSUME Bad # {} PROVE FALSE
  OBVIOUS
<1>0. Bad \subseteq SUBSET S
  OBVIOUS
<1>1. PICK r \in Bad : \A q \in SUBSET r : q # r => q \notin Bad
  <2> HIDE DEF Bad
  <2> QED BY <1>0, Smallest
<1> DEFINE below(q) == CHOOSE g : Summed(g, q)
<1>2. ASSUME NEW q \in SUBSET r, q # r PROVE Summed(below(q), q)
  <2>1. \E g : Summed(g, q)
    BY <1>1, <1>2
  <2> QED BY <2>1
<1> DEFINE rest(s) == s \ {First(s)}
           value(s) == IF s = {} THEN 0 ELSE First(s).delta + below(rest(s))[rest(s)]
           all == [s \in SUBSET r |-> value(s)]
<1>3. ASSUME NEW s \in SUBSET r, s # {} PROVE rest(s) \in SUBSET r /\ rest(s) # r /\ rest(s) \in SUBSET s
  BY <1>3, FirstIn
<1>4. ASSUME NEW q \in SUBSET r, q # r PROVE below(q)[q] = value(q)
  <2>1. Summed(below(q), q)
    BY <1>2, <1>4
  <2>2. CASE q = {}
    BY <2>1, <2>2, SummedAt
  <2>3. CASE q # {}
    <3>1. /\ rest(q) \in SUBSET r /\ rest(q) # r /\ rest(q) \in SUBSET q
      BY <1>3, <2>3
    <3>2. below(q)[q] = First(q).delta + below(q)[rest(q)]
      BY <2>1, <2>3, SummedAt
    <3>3. Summed(below(rest(q)), rest(q))
      BY <1>2, <3>1
    <3>4. IsFiniteSet(q \cap rest(q))
      BY <3>1, FS_Subset
    <3>5. below(q)[rest(q)] = below(rest(q))[rest(q)]
      BY <2>1, <3>1, <3>3, <3>4, SummedAgree
    <3> QED BY <2>3, <3>2, <3>5
  <2> QED BY <2>2, <2>3
<1> DEFINE next(s) == IF s = {} THEN 0 ELSE First(s).delta + all[rest(s)]
<1>5. ASSUME NEW s \in SUBSET r PROVE value(s) = next(s)
  <2>1. CASE s = {}
    BY <2>1
  <2>2. CASE s # {}
    <3>1. rest(s) \in SUBSET r /\ rest(s) # r
      BY <1>3, <2>2
    <3>2. below(rest(s))[rest(s)] = value(rest(s))
      BY <1>4, <3>1
    <3>3. all[rest(s)] = value(rest(s))
      BY <3>1
    <3> QED BY <2>2, <3>2, <3>3
  <2> QED BY <2>1, <2>2
<1>6. all = [s \in SUBSET r |-> next(s)]
  <2>1. all = [s \in SUBSET r |-> value(s)]
    OBVIOUS
  <2> HIDE DEF all, value, next
  <2> QED BY <1>5, <2>1
<1>7. Summed(all, r)
  BY <1>6 DEF Summed
<1> QED BY <1>7

\* The sum of a finite set is what its table says.
LEMMA DeltaSumIs ==
    ASSUME NEW S, IsFiniteSet(S)
    PROVE  \E g : Summed(g, S) /\ DeltaSum(S) = g[S]
<1>1. PICK g : Summed(g, S)
  BY SummedExists
<1> DEFINE h == CHOOSE k : Summed(k, S)
<1>2. Summed(h, S)
  BY <1>1
<1>3. DeltaSum(S) = h[S]
  BY DeltaSumChosen
<1> HIDE DEF h
<1> QED BY <1>2, <1>3

\* Sums of integers are integers.
LEMMA SummedInt ==
    ASSUME NEW S, IsFiniteSet(S), \A e \in S : e.delta \in Int, NEW g, Summed(g, S),
           NEW s \in SUBSET S
    PROVE  g[s] \in Int
<1>a. \A r \in SUBSET S : /\ r = {} => g[r] = 0
                          /\ r # {} => g[r] = First(r).delta + g[r \ {First(r)}]
  BY DEF Summed
<1> DEFINE Bad == {r \in SUBSET S : g[r] \notin Int}
<1> SUFFICES ASSUME Bad # {} PROVE FALSE
  OBVIOUS
<1>0. Bad \subseteq SUBSET S
  OBVIOUS
<1>1. PICK r \in Bad : \A q \in SUBSET r : q # r => q \notin Bad
  <2> HIDE DEF Bad
  <2> QED BY <1>0, Smallest
<1>2. r # {}
  <2>1. {} \in SUBSET S
    OBVIOUS
  <2>2. g[{}] = 0
    BY <1>a, <2>1
  <2>3. g[r] \notin Int
    OBVIOUS
  <2> HIDE DEF Bad
  <2> QED BY <2>2, <2>3
<1>3. First(r) \in r
  BY <1>2, FirstIn
<1> DEFINE q == r \ {First(r)}
<1>4. g[q] \in Int /\ First(r).delta \in Int
  <2>1. q \in SUBSET r /\ q # r
    BY <1>3
  <2>2. q \notin Bad
    BY <1>1, <2>1
  <2> QED BY <1>3, <2>1, <2>2
<1>5. g[r] = First(r).delta + g[q]
  <2>1. r \in SUBSET S
    OBVIOUS
  <2> QED BY <1>a, <1>2, <2>1
<1>6. g[r] \notin Int
  OBVIOUS
<1> HIDE DEF q
<1> QED BY <1>4, <1>5, <1>6

\* The entries may be taken in any order.
LEMMA SummedAnyOrder ==
    ASSUME NEW S, IsFiniteSet(S), \A e \in S : e.delta \in Int, NEW g, Summed(g, S),
           NEW s \in SUBSET S, NEW e \in s
    PROVE  g[s] = e.delta + g[s \ {e}]
<1> DEFINE Bad == {r \in SUBSET S : \E x \in r : g[r] # x.delta + g[r \ {x}]}
<1> SUFFICES ASSUME Bad # {} PROVE FALSE
  OBVIOUS
<1>0. Bad \subseteq SUBSET S
  OBVIOUS
<1>1. PICK r \in Bad : \A q \in SUBSET r : q # r => q \notin Bad
  <2> HIDE DEF Bad
  <2> QED BY <1>0, Smallest
<1>2. PICK x \in r : g[r] # x.delta + g[r \ {x}]
  OBVIOUS
<1> DEFINE y == First(r)
<1>3. y \in r /\ g[r] = y.delta + g[r \ {y}]
  BY FirstIn, SummedAt
<1>4. x # y
  BY <1>2, <1>3
<1> HIDE DEF y
<1>5. g[r \ {y}] = x.delta + g[(r \ {y}) \ {x}]
  BY <1>1, <1>3, <1>4
<1>6. g[r \ {x}] = y.delta + g[(r \ {x}) \ {y}]
  BY <1>1, <1>3, <1>4
<1>7. (r \ {y}) \ {x} = (r \ {x}) \ {y}
  OBVIOUS
<1>8. x.delta \in Int /\ y.delta \in Int /\ g[(r \ {x}) \ {y}] \in Int
  <2>1. (r \ {x}) \ {y} \in SUBSET S /\ x \in S /\ y \in S
    BY <1>3
  <2> QED BY <2>1, SummedInt
<1> DEFINE z == g[(r \ {x}) \ {y}]
<1>9. g[r] = y.delta + (x.delta + z)
  BY <1>3, <1>5, <1>7
<1>10. x.delta + g[r \ {x}] = x.delta + (y.delta + z)
  BY <1>6
<1> HIDE DEF z, Bad
<1>11. y.delta + (x.delta + z) = x.delta + (y.delta + z)
  BY <1>8 DEF z
<1> QED BY <1>2, <1>9, <1>10, <1>11

\* The sum of a ledger is an integer.
LEMMA DeltaSumInt ==
    ASSUME NEW S, IsFiniteSet(S), \A e \in S : e.delta \in Int
    PROVE  DeltaSum(S) \in Int
BY DeltaSumIs, SummedInt

\* An empty ledger sums up to nothing.
LEMMA DeltaSumEmpty == DeltaSum({}) = 0
<1>1. IsFiniteSet({})
  BY FS_EmptySet
<1>2. PICK g : Summed(g, {}) /\ DeltaSum({}) = g[{}]
  BY <1>1, DeltaSumIs
<1>3. g[{}] = 0
  BY <1>2, SummedAt
<1> QED BY <1>2, <1>3

\* A new entry adds its delta to the sum.
LEMMA DeltaSumAdd ==
    ASSUME NEW S, IsFiniteSet(S), NEW e, e \notin S, \A f \in S \cup {e} : f.delta \in Int
    PROVE  DeltaSum(S \cup {e}) = DeltaSum(S) + e.delta
<1> DEFINE more == S \cup {e}
<1>1. IsFiniteSet(more)
  BY FS_AddElement
<1>2. PICK g : Summed(g, more) /\ DeltaSum(more) = g[more]
  BY <1>1, DeltaSumIs
<1>3. PICK h : Summed(h, S) /\ DeltaSum(S) = h[S]
  BY DeltaSumIs
<1>4. more \cap S = S /\ more \ {e} = S
  OBVIOUS
<1>5. g[S] = h[S]
  BY <1>2, <1>3, <1>4, SummedAgree
<1>6. g[more] = e.delta + g[S]
  BY <1>1, <1>2, <1>4, SummedAnyOrder
<1> QED BY <1>2, <1>3, <1>5, <1>6, DeltaSumInt

\* Equal entries sum up to their number times their delta.
LEMMA DeltaSumEqual ==
    ASSUME NEW S, IsFiniteSet(S), NEW d \in Nat, \A e \in S : e.delta = d
    PROVE  DeltaSum(S) = d * Cardinality(S)
<1>1. PICK g : Summed(g, S) /\ DeltaSum(S) = g[S]
  BY DeltaSumIs
<1> DEFINE Bad == {r \in SUBSET S : g[r] # d * Cardinality(r)}
<1> SUFFICES ASSUME Bad # {} PROVE FALSE
  BY <1>1
<1>0. Bad \subseteq SUBSET S
  OBVIOUS
<1>2. PICK r \in Bad : \A q \in SUBSET r : q # r => q \notin Bad
  <2> HIDE DEF Bad
  <2> QED BY <1>0, Smallest
<1>3. r # {}
  <2>1. g[{}] = 0 /\ Cardinality({}) = 0
    BY <1>1, SummedAt, FS_EmptySet
  <2>2. d * 0 = 0
    OBVIOUS
  <2> QED BY <2>1, <2>2
<1> DEFINE n == Cardinality(r \ {First(r)})
<1>4. First(r) \in r /\ IsFiniteSet(r)
  BY <1>3, FirstIn, FS_Subset
<1>5. n \in Nat /\ Cardinality(r) = n + 1
  <2>1. Cardinality(r) \in Nat /\ n = Cardinality(r) - 1
    BY <1>4, FS_RemoveElement, FS_CardinalityType
  <2>2. IsFiniteSet(r \ {First(r)})
    BY <1>4, FS_RemoveElement
  <2>3. n \in Nat
    BY <2>2, FS_CardinalityType
  <2> HIDE DEF n
  <2> QED BY <2>1, <2>3
<1>6. g[r \ {First(r)}] = d * n
  BY <1>2, <1>4
<1>7. First(r).delta = d
  BY <1>4
<1>8. g[r] = d + d * n
  BY <1>1, <1>3, <1>6, <1>7, SummedAt
<1> HIDE DEF n
<1>9. d + d * n = d * (n + 1)
  BY <1>5
<1> QED BY <1>5, <1>8, <1>9

-----------------------------------------------------------------------------
(* What the accounts hold *)

\* A request books at most one change of one account, through record_credit_entry.
LEMMA CreditStep ==
    ASSUME TypeOK, [Next]_vars
    PROVE  \/ UNCHANGED creditVars
           \/ \E u \in Users : \E delta \in Int : \E key : RecordCreditEntry(u, delta, key)
<1> DEFINE Books == \E u \in Users : \E delta \in Int : \E key : RecordCreditEntry(u, delta, key)
<1>1. \A c \in Campaigns : campaign[c].target \in Nat /\ campaign[c].reward \in Nat
  BY DEF TypeOK, Campaign
<1>2. \A target, reward \in Nat : -PostingCost(target, reward) \in Int
  BY DEF PostingCost
<1>3. Targets \subseteq Nat /\ Rewards \subseteq Nat
  BY OfferAssumption
<1>4. ASSUME NEW c \in Campaigns, NEW t \in Users, PayReward(c, t) PROVE Books
  <2>1. campaign[c].reward \in Int
    BY <1>1
  <2> QED BY <1>4, <2>1 DEF PayReward
<1>5. ASSUME NEW u \in Users, NEW c \in Campaigns, OwnerStep(u, c)
      PROVE  UNCHANGED creditVars \/ Books
  <2>1. ASSUME PublishCampaign(u, c) PROVE Books
    <3>1. -PostingCost(campaign[c].target, campaign[c].reward) \in Int
      BY <1>1, <1>2
    <3> QED BY <2>1, <3>1 DEF PublishCampaign
  <2>2. ASSUME NEW target \in Targets, NEW reward \in Rewards, NEW terms \in Terms,
               LaunchCampaign(u, c, target, reward, terms)
        PROVE  Books
    <3>1. -PostingCost(target, reward) \in Int
      BY <1>2, <1>3
    <3> QED BY <2>2, <3>1 DEF LaunchCampaign
  <2>3. ASSUME NEW t \in Users, NEW v \in DOMAIN submissions[c][t], ApproveSubmission(u, c, t, v)
        PROVE  Books
    BY <1>4, <2>3 DEF ApproveSubmission
  <2>4. ASSUME NEW t \in Users, NEW v \in DOMAIN submissions[c][t],
               RequestChanges(u, c, t, v) \/ RejectSubmission(u, c, t, v)
        PROVE  UNCHANGED creditVars
    BY <2>4 DEF RequestChanges, RejectSubmission
  <2>5. ASSUME NEW t \in Users, AcceptAssignment(u, c, t) \/ DeclineAssignment(u, c, t)
        PROVE  UNCHANGED creditVars
    BY <2>5 DEF AcceptAssignment, DeclineAssignment
  <2>6. ASSUME \/ PauseCampaign(u, c) \/ ResumeCampaign(u, c) \/ CloseCampaign(u, c)
               \/ \E terms \in Terms : UpsertContract(u, c, terms)
        PROVE  UNCHANGED creditVars
    BY <2>6 DEF PauseCampaign, ResumeCampaign, CloseCampaign, UpsertContract
  <2>7. ASSUME NEW target \in Targets, NEW reward \in Rewards,
               CreateCampaign(u, c, target, reward) \/ UpdateCampaign(u, c, target, reward)
        PROVE  UNCHANGED creditVars
    BY <2>7 DEF CreateCampaign, UpdateCampaign
  <2> HIDE DEF Books
  <2> QED BY <1>5, <2>1, <2>2, <2>3, <2>4, <2>5, <2>6, <2>7 DEF OwnerStep
<1>6. ASSUME NEW t \in Users, NEW c \in Campaigns, TesterStep(t, c) PROVE UNCHANGED creditVars
  BY <1>6 DEF TesterStep, ApplyToCampaign, WithdrawAssignment, StartAssignment,
              RecordTestingSession, CreateSubmission, OpenDispute
<1>7. ASSUME NEW m \in Moderators, NEW c \in Campaigns, NEW t \in Users, ModeratorStep(m, c, t)
      PROVE  UNCHANGED creditVars \/ Books
  <2>1. AwardTester(m, c, t) => Books
    BY <1>4 DEF AwardTester
  <2>2. ~AwardTester(m, c, t) => UNCHANGED creditVars
    BY <1>7 DEF ModeratorStep, ClaimDispute, RejectOverdueWork, CloseWithoutAward
  <2> QED BY <2>1, <2>2
<1>8. ASSUME NEW m \in Moderators, NEW u \in Users,
             SuspendParticipant(m, u) \/ RestoreParticipant(m, u)
      PROVE  UNCHANGED creditVars
  BY <1>8 DEF SuspendParticipant, RestoreParticipant
<1>9. ASSUME Tick \/ UNCHANGED vars PROVE UNCHANGED creditVars
  BY <1>9 DEF Tick, vars, creditVars
<1> HIDE DEF Books
<1>10. UNCHANGED creditVars \/ Books
  <2>1. CASE \E u \in Users, c \in Campaigns : OwnerStep(u, c) \/ TesterStep(u, c)
    BY <1>5, <1>6, <2>1
  <2>2. CASE \E m \in Moderators, c \in Campaigns, t \in Users : ModeratorStep(m, c, t)
    BY <1>7, <2>2
  <2>3. CASE \E m \in Moderators, u \in Users : SuspendParticipant(m, u) \/ RestoreParticipant(m, u)
    BY <1>8, <2>3
  <2>4. CASE Tick \/ UNCHANGED vars
    BY <1>9, <2>4
  <2> QED BY <2>1, <2>2, <2>3, <2>4 DEF Next
<1> QED BY <1>10 DEF Books

EntriesOf(u) == {e \in ledger : e.user = u}

\* A booked change reaches the account and the sum of its entries alike.
LEMMA BookingBalances ==
    ASSUME TypeOK, IsFiniteSet(ledger), BalanceIsLedgerSum,
           NEW u \in Users, NEW delta \in Int, NEW key, RecordCreditEntry(u, delta, key)
    PROVE  IsFiniteSet(ledger') /\ BalanceIsLedgerSum'
<1>1. CASE UNCHANGED creditVars
  BY <1>1 DEF creditVars, BalanceIsLedgerSum
<1>2. CASE ~Posted(key) /\ Booked(u, delta, key)
  <2> DEFINE entry == [key |-> key, user |-> u, delta |-> delta]
  <2>1. ledger' = ledger \cup {entry} /\ balance' = [balance EXCEPT ![u] = @ + delta]
    BY <1>2 DEF Booked
  <2>2. entry.user = u /\ entry.delta = delta /\ entry \notin ledger
    BY <1>2 DEF Posted
  <2> HIDE DEF entry
  <2>3. IsFiniteSet(ledger')
    BY <2>1, FS_AddElement
  <2>4. ASSUME NEW w \in Users PROVE balance'[w] = DeltaSum({e \in ledger' : e.user = w})
    <3> DEFINE old == {e \in ledger : e.user = w}
               new == {e \in ledger' : e.user = w}
    <3>1. balance[w] = DeltaSum(old) /\ balance \in [Users -> Nat]
      BY DEF BalanceIsLedgerSum, TypeOK
    <3>2. CASE w # u
      <4>1. new = old
        BY <2>1, <2>2, <3>2
      <4>2. balance'[w] = balance[w]
        BY <2>1, <3>1, <3>2
      <4> HIDE DEF old, new
      <4> QED BY <3>1, <4>1, <4>2 DEF new
    <3>3. CASE w = u
      <4>1. new = old \cup {entry} /\ entry \notin old
        BY <2>1, <2>2, <3>3
      <4>2. old \subseteq ledger /\ \A e \in ledger : e.delta \in Int
        BY DEF TypeOK, LedgerEntry
      <4>3. IsFiniteSet(old) /\ \A e \in old \cup {entry} : e.delta \in Int
        <5> HIDE DEF old
        <5> QED BY <2>2, <4>2, FS_Subset
      <4>4. balance'[w] = balance[w] + delta
        BY <2>1, <3>1, <3>3
      <4> HIDE DEF old, new
      <4>5. DeltaSum(new) = DeltaSum(old) + delta
        BY <2>2, <4>1, <4>3, DeltaSumAdd
      <4> QED BY <3>1, <4>4, <4>5 DEF new
    <3> QED BY <3>2, <3>3
  <2> QED BY <2>3, <2>4 DEF BalanceIsLedgerSum
<1> QED BY <1>1, <1>2 DEF RecordCreditEntry

\* At first the ledger holds the signup grant of every account.
LEMMA LedgerInit == Init => IsFiniteSet(ledger) /\ BalanceIsLedgerSum
<1> SUFFICES ASSUME Init PROVE IsFiniteSet(ledger) /\ BalanceIsLedgerSum
  OBVIOUS
<1> DEFINE grant(u) == [key |-> <<"signup_grant", u>>, user |-> u, delta |-> SignupGrant]
<1>1. /\ balance = [u \in Users |-> SignupGrant]
      /\ ledger = IF SignupGrant = 0 THEN {} ELSE {grant(u) : u \in Users}
  BY DEF Init, SignupEntries
<1>2. \A u \in Users : grant(u).user = u /\ grant(u).delta = SignupGrant
  OBVIOUS
<1> HIDE DEF grant
<1>3. IsFiniteSet(ledger)
  <2>1. CASE SignupGrant = 0
    BY <1>1, <2>1, FS_EmptySet
  <2>2. CASE SignupGrant # 0
    <3> DEFINE f == [u \in Users |-> grant(u)]
    <3>1. f \in Surjection(Users, ledger)
      BY <1>1, <2>2 DEF Surjection
    <3> QED BY <3>1, UsersAssumption, FS_Surjection
  <2> QED BY <2>1, <2>2
<1>4. ASSUME NEW u \in Users PROVE balance[u] = DeltaSum({e \in ledger : e.user = u})
  <2>1. balance[u] = SignupGrant /\ SignupGrant \in Nat
    BY <1>1, BoundAssumption
  <2>2. CASE SignupGrant = 0
    <3>1. {e \in ledger : e.user = u} = {}
      BY <1>1, <2>2
    <3> QED BY <2>1, <2>2, <3>1, DeltaSumEmpty
  <2>3. CASE SignupGrant # 0
    <3>1. {e \in ledger : e.user = u} = {} \cup {grant(u)}
      BY <1>1, <1>2, <2>3
    <3>2. IsFiniteSet({}) /\ grant(u) \notin {} /\ \A e \in {} \cup {grant(u)} : e.delta \in Int
      BY <1>2, <2>1, FS_EmptySet
    <3>3. DeltaSum({} \cup {grant(u)}) = DeltaSum({}) + grant(u).delta
      BY <3>2, DeltaSumAdd
    <3> QED BY <1>2, <2>1, <3>1, <3>3, DeltaSumEmpty
  <2> QED BY <2>2, <2>3
<1> QED BY <1>3, <1>4 DEF BalanceIsLedgerSum

LedgerSound == IsFiniteSet(ledger) /\ BalanceIsLedgerSum

\* Every balance is the sum of the entries of its account: record_credit_entry changes the account
\* and appends the entry in one transaction, or neither.
THEOREM LedgerTheorem == Spec => []BalanceIsLedgerSum
<1>1. TypeOK /\ LedgerSound /\ [Next]_vars => LedgerSound'
  <2> SUFFICES ASSUME TypeOK, IsFiniteSet(ledger), BalanceIsLedgerSum, [Next]_vars
               PROVE  IsFiniteSet(ledger') /\ BalanceIsLedgerSum'
    BY DEF LedgerSound
  <2>1. CASE UNCHANGED creditVars
    BY <2>1 DEF creditVars, BalanceIsLedgerSum
  <2>2. ASSUME NEW u \in Users, NEW delta \in Int, NEW key, RecordCreditEntry(u, delta, key)
        PROVE  IsFiniteSet(ledger') /\ BalanceIsLedgerSum'
    BY <2>2, BookingBalances
  <2>3. \/ UNCHANGED creditVars
        \/ \E u \in Users : \E delta \in Int : \E key : RecordCreditEntry(u, delta, key)
    BY CreditStep
  <2> QED BY <2>1, <2>2, <2>3, Zenon
<1>2. LedgerSound => BalanceIsLedgerSum
  BY DEF LedgerSound
<1>3. Init => LedgerSound
  BY LedgerInit DEF LedgerSound
<1> QED BY <1>1, <1>2, <1>3, TypeCorrect, PTL DEF Spec

RewardEntries(c) == {e \in ledger : \E t \in Users : e.key = RewardKey(c, t)}

\* The rewards of a campaign are one entry of its reward for every approved tester.
LEMMA RewardsOfApproved ==
    ASSUME TypeOK, RewardIffApproved, NEW c \in Campaigns
    PROVE  /\ IsFiniteSet(RewardEntries(c))
           /\ Cardinality(RewardEntries(c)) <= Cardinality(Approved(assignment[c]))
           /\ \A e \in RewardEntries(c) : e.delta = campaign[c].reward
<1>1. ASSUME NEW e \in RewardEntries(c)
      PROVE  /\ e.user \in Approved(assignment[c])
             /\ e = [key |-> RewardKey(c, e.user), user |-> e.user, delta |-> campaign[c].reward]
  <2>1. PICK t \in Users : e \in ledger /\ e.key = RewardKey(c, t)
    BY DEF RewardEntries
  <2>2. Row(c, t).status = "approved"
    BY <2>1 DEF RewardIffApproved, Posted
  <2> DEFINE paid == [key |-> RewardKey(c, t), user |-> t, delta |-> campaign[c].reward]
  <2>3. paid \in ledger /\ paid.key = RewardKey(c, t) /\ paid.user = t
    BY <2>2 DEF RewardIffApproved
  <2>4. e = paid
    BY <2>1, <2>3 DEF RewardIffApproved
  <2> QED BY <2>2, <2>3, <2>4 DEF Approved, Row
<1>2. Approved(assignment[c]) \in SUBSET Users
  BY DEF Approved
<1>3. IsFiniteSet(Approved(assignment[c]))
  BY <1>2, RowsFinite
<1> DEFINE f == [e \in RewardEntries(c) |-> e.user]
<1>4. f \in Injection(RewardEntries(c), Approved(assignment[c]))
  <2>1. f \in [RewardEntries(c) -> Approved(assignment[c])]
    BY <1>1
  <2>2. ASSUME NEW e \in RewardEntries(c), NEW d \in RewardEntries(c), f[e] = f[d] PROVE e = d
    BY <1>1, <2>2
  <2> QED BY <2>1, <2>2 DEF Injection, IsInjective
<1>5. /\ IsFiniteSet(RewardEntries(c))
      /\ Cardinality(RewardEntries(c)) <= Cardinality(Approved(assignment[c]))
  BY <1>3, <1>4, FS_Injection
<1>6. \A e \in RewardEntries(c) : e.delta = campaign[c].reward
  BY <1>1
<1> QED BY <1>5, <1>6

\* The rewards of a campaign never exceed what its owner paid for them when publishing it, but for
\* the rejections that a moderator has overturned (publish_campaign, create_review,
\* resolve_dispute): there are no more approved testers than seats.
THEOREM CoverTheorem == Spec => []RewardsCovered
<1>1. ASSUME TypeOK, RewardIffApproved, Capacity PROVE RewardsCovered
  <2> SUFFICES ASSUME NEW c \in Campaigns
               PROVE  DeltaSum(RewardEntries(c))
                        <= campaign[c].reward * (campaign[c].target + Cardinality(AppealWins(c)))
    BY DEF RewardsCovered, RewardEntries
  <2> DEFINE reward == campaign[c].reward
             paid == Cardinality(RewardEntries(c))
             seats == campaign[c].target + Cardinality(AppealWins(c))
  <2>1. reward \in Nat /\ campaign[c].target \in Nat
    BY <1>1 DEF TypeOK, Campaign
  <2>2. DeltaSum(RewardEntries(c)) = reward * paid
    BY <1>1, <2>1, RewardsOfApproved, DeltaSumEqual
  <2>3. /\ AppealWins(c) \in SUBSET Users /\ Charged(c) \in SUBSET Users
        /\ Approved(assignment[c]) \in SUBSET (Charged(c) \cup AppealWins(c))
    BY DEF AppealWins, Charged, Approved, Occupied, OccupiedStatus
  <2>4. /\ IsFiniteSet(AppealWins(c)) /\ Cardinality(AppealWins(c)) \in Nat
        /\ IsFiniteSet(Charged(c)) /\ Cardinality(Charged(c)) \in Nat
    BY <2>3, RowsFinite
  <2>5. Charged(c) \cap AppealWins(c) = {}
    BY DEF Charged
  <2>6. /\ IsFiniteSet(Charged(c) \cup AppealWins(c))
        /\ Cardinality(Charged(c) \cup AppealWins(c))
             = Cardinality(Charged(c)) + Cardinality(AppealWins(c))
    <3>1. /\ IsFiniteSet(Charged(c) \cup AppealWins(c))
          /\ Cardinality(Charged(c) \cup AppealWins(c))
               = Cardinality(Charged(c)) + Cardinality(AppealWins(c))
                   - Cardinality(Charged(c) \cap AppealWins(c))
      BY <2>4, FS_Union
    <3>2. Cardinality(Charged(c) \cap AppealWins(c)) = 0
      BY <2>5, FS_EmptySet
    <3> QED BY <2>4, <3>1, <3>2
  <2>7. /\ Cardinality(Approved(assignment[c])) \in Nat
        /\ Cardinality(Approved(assignment[c])) <= Cardinality(Charged(c)) + Cardinality(AppealWins(c))
    BY <2>3, <2>6, FS_Subset, FS_CardinalityType
  <2>8. Cardinality(Charged(c)) <= campaign[c].target
    BY <1>1 DEF Capacity, Charged
  <2>9. paid \in Nat /\ seats \in Nat /\ paid <= seats
    <3>1. paid \in Nat /\ paid <= Cardinality(Approved(assignment[c]))
      BY <1>1, RewardsOfApproved, FS_CardinalityType
    <3> QED BY <2>1, <2>4, <2>7, <2>8, <3>1
  <2> HIDE DEF reward, paid, seats
  <2>10. reward * paid <= reward * seats
    <3> DEFINE free == seats - paid
    <3>1. free \in Nat /\ seats = paid + free
      BY <2>9
    <3> HIDE DEF free
    <3>2. reward * seats = reward * paid + reward * free
      BY <2>1, <2>9, <3>1
    <3>3. reward * paid \in Nat /\ reward * free \in Nat
      BY <2>1, <2>9, <3>1
    <3> QED BY <3>2, <3>3
  <2> QED BY <2>2, <2>10 DEF reward, seats
<1> QED BY <1>1, TypeCorrect, RewardTheorem, CapacityTheorem, PTL
=============================================================================
