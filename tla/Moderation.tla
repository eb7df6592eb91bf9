----------------------------- MODULE Moderation -----------------------------
(***************************************************************************)
(* app/services/moderation.py: the moderators' dispute queue, and the      *)
(* suspension of participants in app/services/profiles.py.                 *)
(***************************************************************************)
EXTENDS Workflow

\* Claiming again one's own dispute returns it as it is and is no step.
ClaimDispute(m, c, t) ==
    /\ Moderating(m)
    /\ dispute[c][t].status = "open"
    /\ dispute' = Put(dispute, c, t,
                      [dispute[c][t] EXCEPT !.status = "under_review", !.assigned_to = m])
    /\ AddAuditEvents({Audited(m, "dispute.claimed", <<c, t>>)})
    /\ UNCHANGED <<campaignVars, creditVars, workVars, notifications, suspended, now>>

Resolvable_AnyModerator(m, c, t) ==
    /\ Moderating(m)
    /\ dispute[c][t].status \in ActiveDispute

Resolvable(m, c, t) ==
    /\ Moderating(m)
    /\ dispute[c][t].status = "under_review"
    /\ dispute[c][t].assigned_to = m

Verdict == [resolved |-> "dispute.resolved", rejected |-> "dispute.rejected"]

\* The end of resolve_dispute: the verdict, its audit event and the message to both parties.
Resolved(m, c, t, outcome, remedy, completion) ==
    /\ dispute' = Put(dispute, c, t,
                      [dispute[c][t] EXCEPT !.status = outcome, !.remedy = remedy])
    /\ AddAuditEvents({Audited(m, Verdict[outcome], <<c, t>>)} \cup completion)
    /\ AddNotifications({ToTester("dispute_resolved", c, t, 0), ToOwner("dispute_resolved", c, t, 0)})
    /\ UNCHANGED <<contract, sessions, suspended, now>>

\* The disputed submission gets its verdict; a review of it, if any, stays as it was.
Decide(c, t, verdict) ==
    LET v == dispute[c][t].version
    IN  /\ v \in DOMAIN submissions[c][t]
        /\ submissions' = WriteVersion(c, t, v, [submissions[c][t][v] EXCEPT !.status = verdict])

\* No award on overdue work: the submission and its assignment are rejected.
RejectOverdueWork(m, c, t) ==
    /\ Resolvable(m, c, t)
    /\ Row(c, t).status = "submitted"
    /\ Decide(c, t, "rejected")
    /\ assignment' = Put(assignment, c, t,
                         [Row(c, t) EXCEPT !.status = "rejected", !.completed_at = TRUE])
    /\ Resolved(m, c, t, "rejected", "none", {})
    /\ UNCHANGED <<campaign, creditVars>>

\* No award on rejected work: only the dispute is closed.
CloseWithoutAward(m, c, t, outcome) ==
    /\ Resolvable(m, c, t)
    /\ Row(c, t).status # "submitted"
    /\ Resolved(m, c, t, outcome, "none", {})
    /\ UNCHANGED <<campaign, creditVars, assignment, submissions>>

AwardTester(m, c, t) ==
    /\ Resolvable(m, c, t)
    /\ Row(c, t).status \in {"rejected", "submitted"}
    /\ Decide(c, t, "approved")
    /\ assignment' = Put(assignment, c, t, ApprovedRow(Row(c, t)))
    /\ PayReward(c, t)
    /\ campaign' = [campaign EXCEPT ![c] = MaybeCompleted(@, assignment'[c])]
    /\ Resolved(m, c, t, "resolved", "award_tester",
                CompletionAudit(m, c, campaign[c], assignment'[c]))

-----------------------------------------------------------------------------
(* Participants *)

SuspendParticipant_Self(m, u) ==
    /\ Moderating(m)
    /\ Cardinality(suspended \cup {u}) <= MaxSuspended
    /\ suspended' = suspended \cup {u}
    /\ AddAuditEvents({Audited(m, "profile.suspended", u)})
    /\ UNCHANGED <<campaignVars, creditVars, workVars, dispute, notifications, now>>

\* Suspending again a suspended profile only rewrites its reason and appends to the audit.
SuspendParticipant(m, u) ==
    /\ Moderating(m)
    /\ u # m
    /\ Cardinality(suspended \cup {u}) <= MaxSuspended
    /\ suspended' = suspended \cup {u}
    /\ AddAuditEvents({Audited(m, "profile.suspended", u)})
    /\ UNCHANGED <<campaignVars, creditVars, workVars, dispute, notifications, now>>

RestoreParticipant(m, u) ==
    /\ Moderating(m)
    /\ suspended' = suspended \ {u}
    /\ AddAuditEvents({Audited(m, "profile.restored", u)})
    /\ UNCHANGED <<campaignVars, creditVars, workVars, dispute, notifications, now>>
=============================================================================
