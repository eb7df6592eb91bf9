------------------------------ MODULE Workflow ------------------------------
(***************************************************************************)
(* app/services/workflow.py: a tester's assignment, from the application   *)
(* over the recorded sessions and the submitted evidence to the owner's    *)
(* review or the tester's escalation.  c is the campaign and t the tester  *)
(* of the assignment.                                                      *)
(***************************************************************************)
EXTENDS CampaignService

Row(c, t) == assignment[c][t]
SetStatus(c, t, status) == Put(assignment, c, t, [Row(c, t) EXCEPT !.status = status])

Versions(c, t) == Len(submissions[c][t])
Latest(c, t) == submissions[c][t][Versions(c, t)]
WriteVersion(c, t, v, row) == Put(submissions, c, t, [submissions[c][t] EXCEPT ![v] = row])

\* The payload of a request is valid; what a valid one contains is not distinguished.
ToOwner(kind, c, t, version) == Notified(campaign[c].owner, kind, c, t, version)
ToTester(kind, c, t, version) == Notified(t, kind, c, t, version)

-----------------------------------------------------------------------------
(* Recruitment *)

ApplyToCampaign_AnyStatus(t, c) ==
    /\ Authenticated(t)
    /\ ~Owns(t, c)
    /\ Row(c, t).status = "none"
    /\ SeatFree(c)
    /\ assignment' = SetStatus(c, t, "applied")
    /\ AddAuditEvents({Audited(t, "assignment.applied", <<c, t>>)})
    /\ AddNotifications({ToOwner("application_received", c, t, 0)})
    /\ UNCHANGED <<campaignVars, creditVars, unchangedByOwner>>

ApplyToCampaign(t, c) ==
    /\ Authenticated(t)
    /\ campaign[c].status = "published"
    /\ ~Owns(t, c)
    /\ Row(c, t).status = "none"
    /\ SeatFree(c)
    /\ assignment' = SetStatus(c, t, "applied")
    /\ AddAuditEvents({Audited(t, "assignment.applied", <<c, t>>)})
    /\ AddNotifications({ToOwner("application_received", c, t, 0)})
    /\ UNCHANGED <<campaignVars, creditVars, unchangedByOwner>>

AcceptAssignment(u, c, t) ==
    /\ Authenticated(u)
    /\ Owns(u, c)
    /\ campaign[c].status = "published"
    /\ Row(c, t).status = "applied"
    /\ SeatFree(c)
    /\ assignment' = Put(assignment, c, t,
                         [Row(c, t) EXCEPT !.status = "accepted", !.accepted_at = TRUE])
    /\ AddAuditEvents({Audited(u, "assignment.accepted", <<c, t>>)})
    /\ AddNotifications({ToTester("application_accepted", c, t, 0)})
    /\ UNCHANGED <<campaignVars, creditVars, unchangedByOwner>>

\* Declining does not look at the campaign's status.
DeclineAssignment(u, c, t) ==
    /\ Authenticated(u)
    /\ Owns(u, c)
    /\ Row(c, t).status = "applied"
    /\ assignment' = Put(assignment, c, t, Cancelled(Row(c, t)))
    /\ AddAuditEvents({Audited(u, "assignment.declined", <<c, t>>)})
    /\ AddNotifications({ToTester("application_declined", c, t, 0)})
    /\ UNCHANGED <<campaignVars, creditVars, unchangedByOwner>>

Withdrawable_Submitted == {"applied", "accepted", "in_progress", "changes_requested", "submitted"}
Withdrawable == {"applied", "accepted", "in_progress", "changes_requested"}

\* The session does not autoflush, and withdraw_assignment leaves the flush before its counts to
\* add_notification, which flushes only a message that is new.
Flushed(message, c) == IF message \in notifications THEN assignment[c] ELSE assignment'[c]

WithdrawAssignment(t, c) ==
    LET message == ToOwner("tester_withdrew", c, t, 0)
    IN  /\ Authenticated(t)
        /\ Row(c, t).status \in Withdrawable
        /\ assignment' = Put(assignment, c, t, Cancelled(Row(c, t)))
        /\ campaign' = [campaign EXCEPT ![c] = MaybeCompleted(@, Flushed(message, c))]
        /\ AddAuditEvents({Audited(t, "assignment.withdrawn", <<c, t>>)}
                            \cup CompletionAudit(t, c, campaign[c], Flushed(message, c)))
        /\ AddNotifications({message})
        /\ UNCHANGED <<contract, creditVars, unchangedByOwner>>

-----------------------------------------------------------------------------
(* Testing *)

\* The first session is the day of the start (uq_testing_session_day admits one a day).
StartAssignment(t, c) ==
    /\ Authenticated(t)
    /\ Row(c, t).status = "accepted"
    /\ Today \notin sessions[c][t]
    /\ assignment' = Put(assignment, c, t,
                         [Row(c, t) EXCEPT !.status = "in_progress", !.started_at = now])
    /\ sessions' = Put(sessions, c, t, sessions[c][t] \cup {Today})
    /\ AddAuditEvents({Audited(t, "assignment.started", <<c, t>>)})
    /\ UNCHANGED <<campaignVars, creditVars, submissions, dispute, notifications, suspended, now>>

Testing(c, t) == Row(c, t).status \in {"in_progress", "changes_requested"}

RecordTestingSession(t, c) ==
    /\ Authenticated(t)
    /\ Testing(c, t)
    /\ Today \notin sessions[c][t]
    /\ sessions' = Put(sessions, c, t, sessions[c][t] \cup {Today})
    /\ AddAuditEvents({Audited(t, "testing_session.recorded", <<c, t>>)})
    /\ UNCHANGED <<campaignVars, creditVars, assignment, submissions, dispute, notifications,
                   suspended, now>>

ContractFulfilled_NoDuration(c, t) ==
    /\ Row(c, t).started_at # Null
    /\ Cardinality(sessions[c][t]) >= contract[c].terms.required_sessions

\* The checks of create_submission against the locked contract.
ContractFulfilled(c, t) ==
    /\ Row(c, t).started_at # Null
    /\ now >= Row(c, t).started_at + contract[c].terms.minimum_days * TicksPerDay
    /\ Cardinality(sessions[c][t]) >= contract[c].terms.required_sessions

CreateSubmission(t, c) ==
    /\ Authenticated(t)
    /\ Testing(c, t)
    /\ ContractFulfilled(c, t)
    /\ Versions(c, t) < MaxVersions
    /\ submissions' = Put(submissions, c, t,
                          Append(submissions[c][t],
                                 [status |-> "submitted", submitted_at |-> now,
                                  review |-> "none"]))
    /\ assignment' = SetStatus(c, t, "submitted")
    /\ AddAuditEvents({Audited(t, "submission.created", <<c, t>>)})
    /\ AddNotifications({ToOwner("submission_received", c, t, Versions(c, t) + 1)})
    /\ UNCHANGED <<campaignVars, creditVars, sessions, dispute, suspended, now>>

-----------------------------------------------------------------------------
(* Review and escalation *)

NoActiveDispute_OpenOnly(c, t) == dispute[c][t].status # "open"
NoActiveDispute(c, t) == dispute[c][t].status \notin ActiveDispute

Reviewable_AnyVersion(u, c, t, v) ==
    /\ Authenticated(u)
    /\ Owns(u, c)
    /\ NoActiveDispute(c, t)
    /\ v \in DOMAIN submissions[c][t]
    /\ Row(c, t).status = "submitted"

\* The owner may decide on version v of the submission.
Reviewable(u, c, t, v) ==
    /\ Authenticated(u)
    /\ Owns(u, c)
    /\ NoActiveDispute(c, t)
    /\ v \in DOMAIN submissions[c][t]
    /\ submissions[c][t][v].status = "submitted"
    /\ Row(c, t).status = "submitted"

\* The review row, the status of the submission and the message to its tester.
Reviewed(u, c, t, v, decision) ==
    /\ submissions' = WriteVersion(c, t, v, [submissions[c][t][v] EXCEPT !.status = decision,
                                                                      !.review = decision])
    /\ AddNotifications({ToTester("submission_reviewed", c, t, v)})
    /\ UNCHANGED <<contract, sessions, dispute, suspended, now>>

ApprovedRow(row) == [row EXCEPT !.status = "approved", !.completed_at = TRUE]

ApproveSubmission(u, c, t, v) ==
    /\ Reviewable(u, c, t, v)
    /\ Reviewed(u, c, t, v, "approved")
    /\ assignment' = Put(assignment, c, t, ApprovedRow(Row(c, t)))
    /\ PayReward(c, t)
    /\ campaign' = [campaign EXCEPT ![c] = MaybeCompleted(@, assignment'[c])]
    /\ AddAuditEvents({Audited(u, "submission.approved", <<c, t>>)}
                        \cup CompletionAudit(u, c, campaign[c], assignment'[c]))

\* The other decisions leave the campaign, the account and completed_at alone.
RequestChanges(u, c, t, v) ==
    /\ Reviewable(u, c, t, v)
    /\ Reviewed(u, c, t, v, "changes_requested")
    /\ assignment' = SetStatus(c, t, "changes_requested")
    /\ AddAuditEvents({Audited(u, "submission.changes_requested", <<c, t>>)})
    /\ UNCHANGED <<campaign, creditVars>>

RejectSubmission(u, c, t, v) ==
    /\ Reviewable(u, c, t, v)
    /\ Reviewed(u, c, t, v, "rejected")
    /\ assignment' = SetStatus(c, t, "rejected")
    /\ AddAuditEvents({Audited(u, "submission.rejected", <<c, t>>)})
    /\ UNCHANGED <<campaign, creditVars>>

Overdue_InDays(c, t, v) ==
    now >= submissions[c][t][v].submitted_at + contract[c].terms.review_window * TicksPerDay

Overdue(c, t, v) ==
    now >= submissions[c][t][v].submitted_at + contract[c].terms.review_window

\* A pending submission may be escalated once overdue, a rejected one at any time.
Escalatable(c, t, v) ==
    \/ /\ Row(c, t).status = "submitted"
       /\ submissions[c][t][v].status = "submitted"
       /\ Overdue(c, t, v)
    \/ /\ Row(c, t).status = "rejected"
       /\ submissions[c][t][v].status = "rejected"

OpenDispute(t, c, v) ==
    /\ Authenticated(t)
    /\ v \in DOMAIN submissions[c][t]
    /\ Escalatable(c, t, v)
    /\ dispute[c][t].status = "none"
    /\ dispute' = Put(dispute, c, t, [dispute[c][t] EXCEPT !.status = "open", !.version = v])
    /\ AddAuditEvents({Audited(t, "dispute.opened", <<c, t>>)})
    /\ AddNotifications({ToOwner("dispute_opened", c, t, 0)})
    /\ UNCHANGED <<campaignVars, creditVars, workVars, suspended, now>>
=============================================================================
