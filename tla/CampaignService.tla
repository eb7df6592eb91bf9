-------------------------- MODULE CampaignService --------------------------
(***************************************************************************)
(* app/services/campaigns.py: a campaign from its draft to its completion. *)
(* An action is one request that succeeds: its transaction commits whole.  *)
(* A request that raises is rolled back by get_db and is no step; neither  *)
(* is one that returns an existing row (publishing twice).                 *)
(***************************************************************************)
EXTENDS Credits

\* campaigns.py writes no other table than these, the ledger, the audit and the inbox.
unchangedByOwner == <<submissions, sessions, dispute, suspended, now>>

-----------------------------------------------------------------------------
(* Drafting *)

DraftRow(u, target, reward) ==
    [status |-> "draft", owner |-> u, target |-> target, reward |-> reward]

CreateCampaign(u, c, target, reward) ==
    /\ Authenticated(u)
    /\ campaign[c].status = "none"
    /\ campaign' = [campaign EXCEPT ![c] = DraftRow(u, target, reward)]
    /\ AddAuditEvents({Audited(u, "campaign.created", c)})
    /\ UNCHANGED <<contract, assignment, creditVars, notifications, unchangedByOwner>>

UpdateCampaign_AnyStatus(u, c, target, reward) ==
    /\ Authenticated(u)
    /\ Owns(u, c)
    /\ campaign' = [campaign EXCEPT ![c].target = target, ![c].reward = reward]
    /\ AddAuditEvents({Audited(u, "campaign.updated", c)})
    /\ UNCHANGED <<contract, assignment, creditVars, notifications, unchangedByOwner>>

UpdateCampaign(u, c, target, reward) ==
    /\ Authenticated(u)
    /\ Owns(u, c)
    /\ campaign[c].status = "draft"
    /\ campaign' = [campaign EXCEPT ![c].target = target, ![c].reward = reward]
    /\ AddAuditEvents({Audited(u, "campaign.updated", c)})
    /\ UNCHANGED <<contract, assignment, creditVars, notifications, unchangedByOwner>>

UpsertContract(u, c, terms) ==
    /\ Authenticated(u)
    /\ Owns(u, c)
    /\ campaign[c].status = "draft"
    /\ contract[c].status # "locked"
    /\ contract' = [contract EXCEPT ![c] = [status |-> "draft", terms |-> terms]]
    /\ AddAuditEvents({Audited(u, "contract.saved", c)})
    /\ UNCHANGED <<campaign, assignment, creditVars, notifications, unchangedByOwner>>

-----------------------------------------------------------------------------
(* Publication: the posting is spent, the contract locked *)

PostingCost_RewardOnly(target, reward) == reward
PostingCost(target, reward) == target * reward

PublishCampaign(u, c) ==
    /\ Authenticated(u)
    /\ Owns(u, c)
    /\ campaign[c].status = "draft"
    /\ contract[c].status # "none"
    /\ RecordCreditEntry(u, -PostingCost(campaign[c].target, campaign[c].reward), PostingKey(c))
    /\ campaign' = [campaign EXCEPT ![c].status = "published"]
    /\ contract' = [contract EXCEPT ![c].status = "locked"]
    /\ AddAuditEvents({Audited(u, "campaign.published", c)})
    /\ UNCHANGED <<assignment, notifications, unchangedByOwner>>

\* launch_campaign: create, save the contract and publish in one transaction.
LaunchCampaign(u, c, target, reward, terms) ==
    /\ Authenticated(u)
    /\ campaign[c].status = "none"
    /\ RecordCreditEntry(u, -PostingCost(target, reward), PostingKey(c))
    /\ campaign' = [campaign EXCEPT ![c] =
                      [DraftRow(u, target, reward) EXCEPT !.status = "published"]]
    /\ contract' = [contract EXCEPT ![c] = [status |-> "locked", terms |-> terms]]
    /\ AddAuditEvents({Audited(u, action, c) :
                         action \in {"campaign.created", "contract.saved", "campaign.published"}})
    /\ UNCHANGED <<assignment, notifications, unchangedByOwner>>

-----------------------------------------------------------------------------
(* Completion *)

TargetReached(camp, rows) ==
    /\ camp.status \in {"published", "paused"}
    /\ Cardinality(Approved(rows)) >= camp.target

ClosedWorkSettled_AnyTime(camp, rows) == camp.status = "cancelled"

ClosedWorkSettled(camp, rows) ==
    /\ camp.status = "cancelled"
    /\ ActiveTesters(rows) = {}
    /\ EverAccepted(rows) # {}

CompletionDue_OneLate(camp, rows) ==
    \/ /\ camp.status \in {"published", "paused"}
       /\ Cardinality(Approved(rows)) > camp.target
    \/ ClosedWorkSettled(camp, rows)

CompletionDue(camp, rows) == TargetReached(camp, rows) \/ ClosedWorkSettled(camp, rows)

\* maybe_complete_campaign, on the row and the assignments as the transaction sees them:
\* the row it leaves and the audit events it appends.
MaybeCompleted(camp, rows) ==
    IF CompletionDue(camp, rows) THEN [camp EXCEPT !.status = "completed"] ELSE camp

CompletionAudit(u, c, camp, rows) ==
    IF CompletionDue(camp, rows) THEN {Audited(u, "campaign.completed", c)} ELSE {}

-----------------------------------------------------------------------------
(* transition_campaign *)

PauseCampaign(u, c) ==
    /\ Authenticated(u)
    /\ Owns(u, c)
    /\ campaign[c].status = "published"
    /\ campaign' = [campaign EXCEPT ![c].status = "paused"]
    /\ AddAuditEvents({Audited(u, "campaign.paused", c)})
    /\ UNCHANGED <<contract, assignment, creditVars, notifications, unchangedByOwner>>

ResumeCampaign(u, c) ==
    /\ Authenticated(u)
    /\ Owns(u, c)
    /\ campaign[c].status = "paused"
    /\ SeatFree(c)
    /\ campaign' = [campaign EXCEPT ![c].status = "published"]
    /\ AddAuditEvents({Audited(u, "campaign.resumed", c)})
    /\ UNCHANGED <<contract, assignment, creditVars, notifications, unchangedByOwner>>

\* Closing cancels every pending application and tells its tester.
Cancelled(row) == [row EXCEPT !.status = "cancelled", !.completed_at = TRUE]

Closing_KeepsApplications(rows) == rows

Closing(rows) ==
    [t \in Users |-> IF t \in Pending(rows) THEN Cancelled(rows[t]) ELSE rows[t]]

CloseCampaign(u, c) ==
    LET closed  == [campaign[c] EXCEPT !.status = "cancelled"]
        rows    == Closing(assignment[c])
        pending == Pending(assignment[c])
    IN  /\ Authenticated(u)
        /\ Owns(u, c)
        /\ campaign[c].status \in {"published", "paused"}
        /\ assignment' = [assignment EXCEPT ![c] = rows]
        /\ campaign' = [campaign EXCEPT ![c] = MaybeCompleted(closed, rows)]
        /\ AddAuditEvents({Audited(u, "assignment.declined", <<c, t>>) : t \in pending}
                            \cup {Audited(u, "campaign.closed", c)}
                            \cup CompletionAudit(u, c, closed, rows))
        /\ AddNotifications({Notified(t, "application_closed", c, t, 0) : t \in pending})
        /\ UNCHANGED <<contract, creditVars, unchangedByOwner>>
=============================================================================
