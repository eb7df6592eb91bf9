------------------------------ MODULE Evidence ------------------------------
(***************************************************************************)
(* The exchange with what a submission contains: evidence items, the files *)
(* they name, and the private bucket that keeps the files.                 *)
(*                                                                         *)
(* A participant talks to the storage service directly; its row policies   *)
(* (migrations/versions/d82e41f6a903_repair_release_security.sql) look at  *)
(* what the exchange has committed.  A deletion is admitted by its policy, *)
(* and takes the file away later.  A request of the exchange never looks   *)
(* at the bucket.                                                          *)
(***************************************************************************)
EXTENDS Exchange, Quality

CONSTANTS
    Files,          \* file names
    Payloads,       \* contents that testers submit: a summary and a set of items
    TasksOf,        \* by contract: its tasks, and those that require evidence
    MaxObjects      \* bound: files kept at the same time

VARIABLES
    content,        \* evidence_items with the summary, by assignment, in version order
    objects,        \* the bucket: the keys of its files
    removing        \* keys whose deletion is admitted and not done

storageVars == <<objects, removing>>
evidenceVars == <<vars, content, objects, removing>>

ASSUME TasksAssumption ==
    \A terms \in Terms : TasksOf[terms].required \subseteq TasksOf[terms].all

\* A key is the folder of an assignment and a file name.
Keys == {<<<<c, t>>, f>> : c \in Campaigns, t \in Users, f \in Files}
FolderOf(key) == key[1]

EvidenceInit ==
    /\ Init
    /\ content = [c \in Campaigns |-> [t \in Users |-> <<>>]]
    /\ objects = {}
    /\ removing = {}

Tasks(c) == TasksOf[contract[c].terms]

\* The keys that the items of an assignment's submissions name.
AttachedBy(c, t) ==
    {item.key : item \in UNION {content[c][t][v].items : v \in DOMAIN content[c][t]}} \ {NoKey}
Attached == UNION {AttachedBy(c, t) : c \in Campaigns, t \in Users}

-----------------------------------------------------------------------------
(* Submitting *)

\* _validate_storage_key: the key lies in the folder of the assignment.
ValidStorageKey_AnyFolder(c, t, key) == key \in Keys
ValidStorageKey(c, t, key) == FolderOf(key) = <<c, t>>

TasksCovered_AnyTask(c, items) == CoveredTasks(items) # {}

TasksCovered(c, items) ==
    /\ CoveredTasks(items) \subseteq Tasks(c).all
    /\ Tasks(c).required \subseteq CoveredTasks(items)

\* The checks of create_submission on its payload; whether a file exists is not one.
Acceptable(c, t, payload) ==
    /\ TasksCovered(c, payload.items)
    /\ \A item \in payload.items :
         /\ HasContent(item)
         /\ item.key # NoKey => ValidStorageKey(c, t, item.key)

SubmitEvidence(t, c, payload) ==
    /\ CreateSubmission(t, c)
    /\ Acceptable(c, t, payload)
    /\ content' = Put(content, c, t, Append(content[c][t], payload))
    /\ UNCHANGED storageVars

\* Every other request of the exchange.
OtherRequest ==
    /\ Next
    /\ \A c \in Campaigns, t \in Users : Len(submissions'[c][t]) = Versions(c, t)
    /\ UNCHANGED <<content, storageVars>>

-----------------------------------------------------------------------------
(* The bucket and its policies *)

\* testexchange_can_read_evidence
CanRead(u, key) ==
    /\ u \notin suspended
    /\ \E c \in Campaigns, t \in Users :
         /\ FolderOf(key) = <<c, t>>
         /\ Row(c, t).status # "none"
         /\ u = t \/ Owns(u, c)

\* testexchange_can_upload_evidence
CanUpload(u, key) ==
    /\ u \notin suspended
    /\ \E c \in Campaigns :
         /\ FolderOf(key) = <<c, u>>
         /\ Row(c, u).status \in {"accepted", "in_progress", "changes_requested"}

CanDelete_Attached(u, key) ==
    /\ u \notin suspended
    /\ \E c \in Campaigns :
         /\ FolderOf(key) = <<c, u>>
         /\ Row(c, u).status \in {"in_progress", "changes_requested"}

\* testexchange_can_delete_orphan_evidence
CanDelete(u, key) ==
    /\ u \notin suspended
    /\ \E c \in Campaigns :
         /\ FolderOf(key) = <<c, u>>
         /\ Row(c, u).status \in {"in_progress", "changes_requested"}
    /\ key \notin Attached

\* There is no policy for an update: a key is only written once.
Upload(u, key) ==
    /\ CanUpload(u, key)
    /\ key \notin objects
    /\ Cardinality(objects) < MaxObjects
    /\ objects' = objects \cup {key}
    /\ UNCHANGED <<vars, content, removing>>

AdmitDeletion(u, key) ==
    /\ key \in objects
    /\ CanDelete(u, key)
    /\ removing' = removing \cup {key}
    /\ UNCHANGED <<vars, content, objects>>

Delete(key) ==
    /\ key \in removing
    /\ objects' = objects \ {key}
    /\ removing' = removing \ {key}
    /\ UNCHANGED <<vars, content>>

\* moderator_evidence_url: a file of the disputed assignment, its key checked again.
Signable(c, t, key) ==
    /\ dispute[c][t].status # "none"
    /\ key \in AttachedBy(c, t)
    /\ ValidStorageKey(c, t, key)

OpenAttachment(m, c, t, key) ==
    /\ Moderating(m)
    /\ Signable(c, t, key)
    /\ AddAuditEvents({Audited(m, "moderation.evidence_opened", <<c, t>>)})
    /\ UNCHANGED <<campaignVars, creditVars, workVars, dispute, notifications, suspended, now,
                   content, storageVars>>

-----------------------------------------------------------------------------

EvidenceNext ==
    \/ OtherRequest
    \/ \E t \in Users, c \in Campaigns, payload \in Payloads : SubmitEvidence(t, c, payload)
    \/ \E u \in Users, key \in Keys : Upload(u, key) \/ AdmitDeletion(u, key)
    \/ \E key \in Keys : Delete(key)
    \/ \E m \in Moderators, c \in Campaigns, t \in Users, key \in Keys : OpenAttachment(m, c, t, key)

EvidenceSpec == EvidenceInit /\ [][EvidenceNext]_evidenceVars

-----------------------------------------------------------------------------
\* What is attached to a submission can be opened by its tester and the owner of its campaign, and
\* by no other participant; in a dispute a moderator can open it too.  The exchange's check of
\* the key and the policies of the bucket must agree for it.
AttachmentsPrivate ==
    \A c \in Campaigns, t \in Users : \A key \in AttachedBy(c, t) :
        /\ {u \in Users : CanRead(u, key)} = {t, campaign[c].owner} \ suspended
        /\ dispute[c][t].status # "none" => Signable(c, t, key)

\* A file that is attached while nobody is about to delete it is never deleted.
Secured(key) == key \in objects \cap Attached /\ key \notin removing
AttachedStays == [][\A key \in Keys : Secured(key) => Secured(key)']_evidenceVars

\* The report on a stored submission never flags what create_submission has refused: it holds the
\* submission against the contract of now, and create_submission did against the one of then.
StoredWorkScoresHalf ==
    \A c \in Campaigns, t \in Users : \A v \in 1 .. Versions(c, t) :
        LET report == Report(submissions[c][t][v].status, content[c][t][v], Tasks(c).required)
        IN  /\ {"required_task_coverage", "evidence_content"} \subseteq report.checks
            /\ report.score >= 50

\* The report calls for a review exactly of the work that the owner or a moderator may decide:
\* the latest version of an assignment that is submitted.
ReportFollowsWork ==
    \A c \in Campaigns, t \in Users : \A v \in 1 .. Versions(c, t) :
        LET report == Report(submissions[c][t][v].status, content[c][t][v], Tasks(c).required)
        IN  report.status # "already_reviewed" <=>
              Row(c, t).status = "submitted" /\ v = Versions(c, t)

\* "DELETE is limited to uploads that have no evidence_items row, so submitted evidence remains
\* immutable" (docs/supabase-storage-policies.sql): no attached file is ever deleted.
EvidenceImmutable ==
    [][\A key \in objects : key \in Attached => key \in objects']_evidenceVars
=============================================================================
