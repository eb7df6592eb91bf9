------------------------------ MODULE Entities ------------------------------
(***************************************************************************)
(* The database of the exchange: the rows of app/models/entities.py whose  *)
(* values steer a service, the status enumerations of app/models/enums.py, *)
(* and the row counts that several services take.                          *)
(*                                                                         *)
(* A table is a function from the key of its rows to their values.  The    *)
(* row that does not exist yet has the status "none".  An assignment is    *)
(* identified by its campaign and its tester (unique constraint            *)
(* uq_campaign_tester), a dispute by its assignment (open_dispute admits   *)
(* one), a submission by its assignment and version, a review by its       *)
(* submission (unique).  Names, texts and display timestamps are left out. *)
(***************************************************************************)
EXTENDS Integers, FiniteSets, Sequences

CONSTANTS
    Users,          \* profiles (app/models/entities.py, class Profile)
    Moderators,     \* settings.moderator_user_ids
    Campaigns,      \* campaigns, each under its unique slug
    NoUser,         \* the NULL of a column that refers to a profile
    Targets,        \* values of target_testers offered by an owner
    Rewards,        \* values of reward_credits offered by an owner
    Terms,          \* contracts: review_window (ticks), minimum_days, required_sessions
    SignupGrant,    \* settings.signup_credit_grant
    TicksPerDay,    \* clock ticks in one UTC day
    MaxTime,        \* bound: last tick of the clock
    MaxVersions,    \* bound: submissions of one assignment
    MaxSuspended    \* bound: profiles suspended at the same time

\* CampaignCreate and ContractUpsert in app/schemas/api.py bound these fields.
ASSUME UsersAssumption == IsFiniteSet(Users) /\ NoUser \notin Users /\ Moderators \subseteq Users
ASSUME OfferAssumption == Targets \subseteq Nat \ {0} /\ Rewards \subseteq Nat \ {0}
AnyTerms == [review_window : Nat \ {0}, minimum_days : Nat, required_sessions : Nat \ {0}]
ASSUME TermsAssumption == Terms \subseteq AnyTerms
ASSUME ClockAssumption == TicksPerDay \in Nat \ {0} /\ MaxTime \in Nat
ASSUME BoundAssumption == SignupGrant \in Nat /\ MaxVersions \in Nat /\ MaxSuspended \in Nat

VARIABLES
    campaign,       \* campaigns: status, owner, target, reward
    contract,       \* testing_contracts: status and terms
    assignment,     \* assignments, by campaign and tester
    submissions,    \* evidence_submissions with their reviews, by assignment, in version order
    sessions,       \* testing_sessions: the days recorded, by assignment
    dispute,        \* disputes, by assignment
    balance,        \* credit_accounts
    ledger,         \* credit_ledger_entries
    notifications,  \* notifications
    audit,          \* audit_events
    suspended,      \* profiles with is_suspended
    now             \* the clock, in ticks

campaignVars == <<campaign, contract>>
workVars     == <<assignment, submissions, sessions>>
creditVars   == <<balance, ledger>>
vars == <<campaign, contract, assignment, submissions, sessions, dispute,
          balance, ledger, notifications, audit, suspended, now>>

-----------------------------------------------------------------------------
(* Enumerations and rows *)

Null == -1      \* the NULL of a timestamp column

CampaignStatus   == {"none", "draft", "published", "paused", "completed", "cancelled"}
ContractStatus   == {"none", "draft", "locked"}
AssignmentStatus == {"none", "applied", "accepted", "in_progress", "submitted",
                     "changes_requested", "approved", "rejected", "cancelled"}
OccupiedStatus   == {"accepted", "in_progress", "submitted", "changes_requested", "approved"}
ActiveStatus     == {"accepted", "in_progress", "submitted", "changes_requested"}
SubmissionStatus == {"submitted", "changes_requested", "approved", "rejected"}
Decision         == {"approved", "changes_requested", "rejected"}
DisputeStatus    == {"none", "open", "under_review", "resolved", "rejected"}
ActiveDispute    == {"open", "under_review"}
Remedy           == {"null", "none", "award_tester"}

Campaign   == [status : CampaignStatus, owner : Users \cup {NoUser}, target : Nat, reward : Nat]
NoTerms    == [review_window |-> 1, minimum_days |-> 0, required_sessions |-> 1]
Contract   == [status : ContractStatus, terms : AnyTerms]
\* accepted_at and completed_at are only ever tested for NULL.
Assignment == [status : AssignmentStatus, accepted_at : BOOLEAN,
               started_at : Nat \cup {Null}, completed_at : BOOLEAN]
Submission == [status : SubmissionStatus, submitted_at : Nat, review : Decision \cup {"none"}]
Dispute    == [status : DisputeStatus, version : Nat, assigned_to : Users \cup {NoUser},
               remedy : Remedy]
\* The idempotency key of an entry is its type with the row it refers to.
LedgerKey  == ({"signup_grant"} \X Users) \cup ({"posting"} \X Campaigns)
                 \cup ({"reward"} \X (Campaigns \X Users))
LedgerEntry  == [key : LedgerKey, user : Users, delta : Int]
Kind == {"application_received", "application_accepted", "application_declined",
         "application_closed", "tester_withdrew", "submission_received", "submission_reviewed",
         "dispute_opened", "dispute_resolved"}
Action == {"campaign.created", "campaign.updated", "contract.saved", "campaign.published",
           "campaign.paused", "campaign.resumed", "campaign.closed", "campaign.completed",
           "assignment.applied", "assignment.accepted", "assignment.declined",
           "assignment.withdrawn", "assignment.started", "testing_session.recorded",
           "submission.created", "submission.approved", "submission.changes_requested",
           "submission.rejected", "dispute.opened", "dispute.claimed", "dispute.resolved",
           "dispute.rejected", "moderation.evidence_opened", "profile.suspended",
           "profile.restored"}
Notification == [user : Users, kind : Kind, assignment : Campaigns \X Users, version : Nat]
AuditEvent   == [actor : Users, action : Action,
                 entity : Campaigns \cup (Campaigns \X Users) \cup Users]

NoCampaign   == [status |-> "none", owner |-> NoUser, target |-> 0, reward |-> 0]
NoContract   == [status |-> "none", terms |-> NoTerms]
NoAssignment == [status |-> "none", accepted_at |-> FALSE, started_at |-> Null,
                 completed_at |-> FALSE]
NoDispute    == [status |-> "none", version |-> 0, assigned_to |-> NoUser, remedy |-> "null"]

\* Every participant has signed up and, when there is one, has received the signup grant.
SignupEntries == IF SignupGrant = 0 THEN {}
                 ELSE {[key |-> <<"signup_grant", u>>, user |-> u, delta |-> SignupGrant] :
                         u \in Users}

Init ==
    /\ campaign = [c \in Campaigns |-> NoCampaign]
    /\ contract = [c \in Campaigns |-> NoContract]
    /\ assignment = [c \in Campaigns |-> [t \in Users |-> NoAssignment]]
    /\ submissions = [c \in Campaigns |-> [t \in Users |-> <<>>]]
    /\ sessions = [c \in Campaigns |-> [t \in Users |-> {}]]
    /\ dispute = [c \in Campaigns |-> [t \in Users |-> NoDispute]]
    /\ balance = [u \in Users |-> SignupGrant]
    /\ ledger = SignupEntries
    /\ notifications = {}
    /\ audit = {}
    /\ suspended = {}
    /\ now = 0

\* Every column holds a value of its type, and no balance is negative (ck_credit_balance_nonnegative).
TypeOK ==
    /\ campaign \in [Campaigns -> Campaign]
    /\ contract \in [Campaigns -> Contract]
    /\ assignment \in [Campaigns -> [Users -> Assignment]]
    /\ submissions \in [Campaigns -> [Users -> Seq(Submission)]]
    /\ sessions \in [Campaigns -> [Users -> SUBSET Nat]]
    /\ dispute \in [Campaigns -> [Users -> Dispute]]
    /\ balance \in [Users -> Nat]
    /\ ledger \subseteq LedgerEntry
    /\ notifications \subseteq Notification
    /\ audit \subseteq AuditEvent
    /\ suspended \subseteq Users
    /\ now \in Nat

\* The table with one row written, keyed by campaign and tester.
Put(table, c, t, row) == [table EXCEPT ![c][t] = row]

-----------------------------------------------------------------------------
(* Counts that the services take over the assignments of one campaign *)

\* count(Assignment) with status in OCCUPIED_ASSIGNMENT_STATUSES
Occupied(rows) == {t \in Users : rows[t].status \in OccupiedStatus}

\* count(Assignment) with status in ACTIVE_TESTING_ASSIGNMENT_STATUSES
ActiveTesters(rows) == {t \in Users : rows[t].status \in ActiveStatus}

Approved(rows) == {t \in Users : rows[t].status = "approved"}

EverAccepted(rows) == {t \in Users : rows[t].accepted_at}

\* The guard occupied_slots < target_testers of apply, accept and resume.
SeatFree_OffByOne(c) == Cardinality(Occupied(assignment[c])) <= campaign[c].target
SeatFree(c) == Cardinality(Occupied(assignment[c])) < campaign[c].target

Pending(rows) == {t \in Users : rows[t].status = "applied"}

\* datetime.now(UTC).date()
Today == now \div TicksPerDay
=============================================================================
