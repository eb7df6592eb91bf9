------------------------------- MODULE Common -------------------------------
(***************************************************************************)
(* What every service shares: the authentication dependency of             *)
(* app/core/auth.py and the audit and notification rows of                 *)
(* app/services/common.py and notifications.py.                            *)
(***************************************************************************)
EXTENDS Entities

\* get_active_user: a suspended profile is turned away before its handler runs.
Authenticated(u) == u \notin suspended

\* get_moderator: an active user on the moderators' allow list.
Moderating(m) == m \in Moderators /\ Authenticated(m)

\* require_campaign_owner
Owns(u, c) == campaign[c].owner = u

Audited(u, action, entity) == [actor |-> u, action |-> action, entity |-> entity]

\* add_audit_event for each event of a set: rows are only ever appended.
AddAuditEvents(events) == audit' = audit \cup events

\* A notification's idempotency key names its kind and the row it is about.
Notified(u, kind, c, t, version) ==
    [user |-> u, kind |-> kind, assignment |-> <<c, t>>, version |-> version]

\* add_notification for each message of a set; one that exists already is returned as it is.
AddNotifications(messages) == notifications' = notifications \cup messages
=============================================================================
