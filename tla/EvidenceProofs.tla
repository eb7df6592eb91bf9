--------------------------- MODULE EvidenceProofs ---------------------------
(***************************************************************************)
(* Theorems about what submissions contain, the bucket and the report on   *)
(* the stored work, for every set of users, files and contents.  The steps *)
(* of Evidence are steps of Exchange but for the moderator's link, which   *)
(* leaves no more than an audit event.                                     *)
(***************************************************************************)
EXTENDS Evidence, ExchangeProofs

\* The exchange as Evidence sees it stays in the states that the other theorems are about.
ExchangeInv == TypeOK /\ References /\ WorkSound /\ ContractSound

\* A content is acceptable under given tasks.
Fits(tasks, c, t, payload) ==
    /\ CoveredTasks(payload.items) \subseteq tasks.all
    /\ tasks.required \subseteq CoveredTasks(payload.items)
    /\ \A item \in payload.items :
         HasContent(item) /\ (item.key # NoKey => FolderOf(item.key) = <<c, t>>)

\* Every version has its content, and that is acceptable under the contract of now.
ContentSound ==
    /\ content \in [Campaigns -> [Users -> Seq(Payloads)]]
    /\ \A c \in Campaigns, t \in Users :
         /\ Len(content[c][t]) = Versions(c, t)
         /\ \A v \in 1 .. Versions(c, t) : Fits(Tasks(c), c, t, content[c][t][v])

EvidenceInv == ExchangeInv /\ ContentSound

-----------------------------------------------------------------------------
(* The steps of Evidence *)

\* A step of the exchange; a link to an attachment is not one.
LEMMA EvidenceSteps ==
    ASSUME [EvidenceNext]_evidenceVars
    PROVE  \/ [Next]_vars
           \/ \E m \in Moderators, c \in Campaigns, t \in Users, key \in Keys :
                OpenAttachment(m, c, t, key)
<1>1. ASSUME NEW t \in Users, NEW c \in Campaigns, NEW payload \in Payloads,
             SubmitEvidence(t, c, payload)
      PROVE  Next
  BY <1>1 DEF SubmitEvidence, Next, TesterStep
<1>2. OtherRequest => Next
  BY DEF OtherRequest
<1>3. ASSUME NEW u \in Users, NEW key \in Keys, Upload(u, key) \/ AdmitDeletion(u, key)
      PROVE  UNCHANGED vars
  BY <1>3 DEF Upload, AdmitDeletion
<1>4. ASSUME NEW key \in Keys, Delete(key) PROVE UNCHANGED vars
  BY <1>4 DEF Delete
<1>5. UNCHANGED evidenceVars => UNCHANGED vars
  BY DEF evidenceVars
<1> QED BY <1>1, <1>2, <1>3, <1>4, <1>5 DEF EvidenceNext

\* The link leaves everything but the audit alone.
LEMMA LinkStep ==
    ASSUME ExchangeInv, NEW m \in Moderators, NEW c \in Campaigns, NEW t \in Users, NEW key,
           OpenAttachment(m, c, t, key)
    PROVE  ExchangeInv' /\ UNCHANGED <<content, objects, removing, submissions, contract>>
<1>1. UNCHANGED <<campaign, contract, assignment, submissions, sessions, dispute, balance, ledger,
                  notifications, suspended, now, content, objects, removing>>
  BY DEF OpenAttachment, campaignVars, creditVars, workVars, storageVars
<1>2. audit' \subseteq AuditEvent
  <2>1. AddAuditEvents({Audited(m, "moderation.evidence_opened", <<c, t>>)})
    BY DEF OpenAttachment
  <2>2. m \in Users
    BY UsersAssumption
  <2>3. "moderation.evidence_opened" \in Action
    BY DEF Action
  <2> QED BY <2>1, <2>2, <2>3, SingleEventType DEF ExchangeInv
<1>3. TypeOK'
  BY <1>1, <1>2 DEF TypeOK, ExchangeInv
<1>4. References'
  BY <1>1 DEF References, Row, ExchangeInv
<1>5. WorkSound'
  BY <1>1 DEF WorkSound, VersionsAgree, DisputeAgrees, Row, ExchangeInv
<1>6. ContractSound'
  BY <1>1 DEF ContractSound, Met, Versions, Row, ExchangeInv
<1> QED BY <1>1, <1>3, <1>4, <1>5, <1>6 DEF ExchangeInv

\* The steps of the composition, those on files included, keep the invariants of Exchange.
LEMMA ExchangeInvStep ==
    ASSUME ExchangeInv, [EvidenceNext]_evidenceVars
    PROVE  ExchangeInv'
<1>1. ASSUME [Next]_vars PROVE ExchangeInv'
  <2>1. TypeOK' /\ References'
    BY <1>1, TypeStep, ReferencesStep DEF ExchangeInv
  <2>2. WorkSound'
    BY <1>1, WorkSoundStep DEF ExchangeInv
  <2>3. ContractSound'
    BY <1>1, <2>1, ContractSoundStep DEF ExchangeInv
  <2> QED BY <2>1, <2>2, <2>3 DEF ExchangeInv
<1> QED BY <1>1, LinkStep, EvidenceSteps

-----------------------------------------------------------------------------
(* The content of a version *)

\* The contract of submitted work is locked.
LEMMA ContractStays ==
    ASSUME ExchangeInv, [Next]_vars, NEW c \in Campaigns, NEW t \in Users, Versions(c, t) > 0
    PROVE  contract'[c] = contract[c]
<1>1. Row(c, t).status # "none"
  <2>1. Row(c, t).status = "none" => submissions[c][t] = <<>>
    BY DEF ExchangeInv, ContractSound
  <2> QED BY <2>1 DEF Versions
<1> QED BY <1>1, ContractStep DEF ExchangeInv, References, Drafted

\* A submission brings its content with it.
LEMMA SubmitContent ==
    ASSUME EvidenceInv, NEW t \in Users, NEW c \in Campaigns, NEW payload \in Payloads,
           SubmitEvidence(t, c, payload)
    PROVE  ContentSound'
<1>1. /\ CreateSubmission(t, c) /\ Acceptable(c, t, payload)
      /\ content' = Put(content, c, t, Append(content[c][t], payload))
  BY DEF SubmitEvidence
<1> DEFINE version == [status |-> "submitted", submitted_at |-> now, review |-> "none"]
<1>2. /\ submissions' = Put(submissions, c, t, Append(submissions[c][t], version))
      /\ UNCHANGED contract
  BY <1>1 DEF CreateSubmission, campaignVars
<1>3. /\ content \in [Campaigns -> [Users -> Seq(Payloads)]]
      /\ submissions \in [Campaigns -> [Users -> Seq(Submission)]]
  BY WorkTables DEF EvidenceInv, ContentSound, ExchangeInv
<1>4. content' \in [Campaigns -> [Users -> Seq(Payloads)]]
  <2>1. Append(content[c][t], payload) \in Seq(Payloads)
    BY <1>3
  <2> QED BY <1>1, <1>3, <2>1 DEF Put
<1>5. Fits(Tasks(c), c, t, payload)
  BY <1>1 DEF Acceptable, TasksCovered, ValidStorageKey, Fits
<1>6. ASSUME NEW d \in Campaigns, NEW w \in Users
      PROVE  /\ Len(content'[d][w]) = Len(submissions'[d][w])
             /\ \A v \in 1 .. Len(submissions'[d][w]) : Fits(Tasks(d), d, w, content'[d][w][v])
  <2>1. /\ Len(content[d][w]) = Len(submissions[d][w])
        /\ \A v \in 1 .. Len(submissions[d][w]) : Fits(Tasks(d), d, w, content[d][w][v])
    BY DEF EvidenceInv, ContentSound, Versions
  <2>2. CASE d = c /\ w = t
    <3>1. /\ content'[c][t] = Append(content[c][t], payload)
          /\ submissions'[c][t] = Append(submissions[c][t], version)
      BY <1>1, <1>2, <1>3 DEF Put
    <3>2. /\ Len(content'[c][t]) = Len(submissions[c][t]) + 1
          /\ Len(submissions'[c][t]) = Len(submissions[c][t]) + 1
          /\ Len(submissions[c][t]) \in Nat
      BY <1>3, <2>1, <2>2, <3>1
    <3>3. \A v \in 1 .. Len(submissions[c][t]) : content'[c][t][v] = content[c][t][v]
      BY <1>3, <2>1, <2>2, <3>1
    <3>4. content'[c][t][Len(submissions[c][t]) + 1] = payload
      BY <1>3, <2>1, <2>2, <3>1
    <3>5. ASSUME NEW v \in 1 .. Len(submissions[c][t]) + 1
          PROVE  Fits(Tasks(c), c, t, content'[c][t][v])
      <4>1. CASE v = Len(submissions[c][t]) + 1
        BY <1>5, <3>4, <4>1
      <4>2. CASE v # Len(submissions[c][t]) + 1
        <5>1. v \in 1 .. Len(submissions[c][t])
          BY <3>2, <4>2
        <5> QED BY <2>1, <2>2, <3>3, <5>1
      <4> QED BY <4>1, <4>2
    <3> QED BY <2>2, <3>2, <3>5
  <2>3. CASE ~(d = c /\ w = t)
    <3>1. content'[d][w] = content[d][w] /\ submissions'[d][w] = submissions[d][w]
      BY <1>1, <1>2, <1>3, <2>3 DEF Put
    <3> QED BY <2>1, <3>1
  <2> QED BY <2>2, <2>3
<1>7. \A d \in Campaigns : Tasks(d)' = Tasks(d)
  BY <1>2 DEF Tasks
<1> QED BY <1>4, <1>6, <1>7 DEF ContentSound, Versions

\* No other step changes contents, or how many versions there are.
LEMMA KeptContent ==
    ASSUME EvidenceInv, [EvidenceNext]_evidenceVars, UNCHANGED content,
           \A c \in Campaigns, t \in Users :
              /\ Len(submissions'[c][t]) = Versions(c, t)
              /\ Versions(c, t) > 0 => UNCHANGED contract[c]
    PROVE  ContentSound'
<1>1. ASSUME NEW c \in Campaigns, NEW t \in Users, NEW v \in 1 .. Versions(c, t)
      PROVE  Fits(Tasks(c)', c, t, content'[c][t][v])
  <2>1. Fits(Tasks(c), c, t, content[c][t][v])
    BY DEF EvidenceInv, ContentSound
  <2>2. Versions(c, t) > 0
    BY WorkTables DEF EvidenceInv, ExchangeInv, Versions
  <2>3. Tasks(c)' = Tasks(c)
    BY <2>2 DEF Tasks
  <2> QED BY <2>1, <2>3
<1>2. \A c \in Campaigns, t \in Users : Len(content[c][t]) = Versions(c, t)
  BY DEF EvidenceInv, ContentSound
<1>3. content \in [Campaigns -> [Users -> Seq(Payloads)]]
  BY DEF EvidenceInv, ContentSound
<1> QED BY <1>1, <1>2, <1>3 DEF ContentSound, Versions

\* They keep the content of the submissions in accordance with their contracts.
LEMMA EvidenceInvStep ==
    ASSUME EvidenceInv, [EvidenceNext]_evidenceVars
    PROVE  EvidenceInv'
<1>1. ExchangeInv'
  BY ExchangeInvStep DEF EvidenceInv
<1>2. ASSUME UNCHANGED <<submissions, content, contract>> PROVE ContentSound'
  BY <1>2, KeptContent DEF Versions
<1>3. ASSUME OtherRequest PROVE ContentSound'
  <2>1. Next /\ UNCHANGED content
          /\ \A c \in Campaigns, t \in Users : Len(submissions'[c][t]) = Versions(c, t)
    BY <1>3 DEF OtherRequest
  <2>2. \A c \in Campaigns, t \in Users : Versions(c, t) > 0 => UNCHANGED contract[c]
    BY <2>1, ContractStays DEF EvidenceInv
  <2> QED BY <2>1, <2>2, KeptContent
<1>4. ASSUME NEW u \in Users, NEW key \in Keys, Upload(u, key) \/ AdmitDeletion(u, key)
      PROVE  UNCHANGED <<submissions, content, contract>>
  BY <1>4 DEF Upload, AdmitDeletion, vars
<1>5. ASSUME NEW key \in Keys, Delete(key) PROVE UNCHANGED <<submissions, content, contract>>
  BY <1>5 DEF Delete, vars
<1>6. ASSUME NEW m \in Moderators, NEW c \in Campaigns, NEW t \in Users, NEW key \in Keys,
             OpenAttachment(m, c, t, key)
      PROVE  UNCHANGED <<submissions, content, contract>>
  BY <1>6, LinkStep DEF EvidenceInv
<1>7. UNCHANGED evidenceVars => UNCHANGED <<submissions, content, contract>>
  BY DEF evidenceVars, vars
<1>8. ContentSound'
  <2>1. ASSUME NEW t \in Users, NEW c \in Campaigns, NEW payload \in Payloads,
               SubmitEvidence(t, c, payload)
        PROVE  ContentSound'
    BY <2>1, SubmitContent
  <2>2. UNCHANGED <<submissions, content, contract>> => ContentSound'
    BY <1>2
  <2> QED BY <1>3, <1>4, <1>5, <1>6, <1>7, <2>1, <2>2 DEF EvidenceNext
<1> QED BY <1>1, <1>8 DEF EvidenceInv

\* The inductive invariant of the composition holds in every state.
LEMMA EvidenceInvTheorem == EvidenceSpec => []EvidenceInv
<1>1. EvidenceInit => EvidenceInv
  <2> SUFFICES ASSUME EvidenceInit PROVE EvidenceInv
    OBVIOUS
  <2>1. TypeOK /\ References /\ WorkSound
    BY InitType, WorkSoundInit DEF EvidenceInit
  <2>2. ContractSound
    BY FS_EmptySet DEF EvidenceInit, Init, ContractSound, Row, Versions, Met
  <2>3. ContentSound
    BY DEF EvidenceInit, Init, ContentSound, Versions
  <2> QED BY <2>1, <2>2, <2>3 DEF EvidenceInv, ExchangeInv
<1>2. EvidenceInv /\ [EvidenceNext]_evidenceVars => EvidenceInv'
  BY EvidenceInvStep
<1> QED BY <1>1, <1>2, PTL DEF EvidenceSpec

-----------------------------------------------------------------------------
(* Who may open what is attached *)

\* Every attached file lies in the folder of its assignment, which exists.
LEMMA AttachedFolder ==
    ASSUME EvidenceInv, NEW c \in Campaigns, NEW t \in Users, NEW key \in AttachedBy(c, t)
    PROVE  /\ FolderOf(key) = <<c, t>>
           /\ Row(c, t).status # "none"
           /\ campaign[c].owner \in Users
<1>1. PICK v \in DOMAIN content[c][t] :
        \E item \in content[c][t][v].items : item.key = key /\ key # NoKey
  BY DEF AttachedBy
<1>2. content[c][t] \in Seq(Payloads) /\ Len(content[c][t]) = Versions(c, t)
  BY DEF EvidenceInv, ContentSound
<1>3. v \in 1 .. Versions(c, t)
  BY <1>2
<1>4. Fits(Tasks(c), c, t, content[c][t][v])
  BY <1>3 DEF EvidenceInv, ContentSound
<1>5. FolderOf(key) = <<c, t>>
  BY <1>1, <1>4 DEF Fits
<1>6. Row(c, t).status # "none"
  <2>1. Row(c, t).status = "none" => submissions[c][t] = <<>>
    BY DEF EvidenceInv, ExchangeInv, ContractSound
  <2> QED BY <1>3, <2>1 DEF Versions
<1>7. campaign[c].owner \in Users
  BY <1>6 DEF EvidenceInv, ExchangeInv, References
<1> QED BY <1>5, <1>6, <1>7

\* What is attached can be opened by its tester and the owner of its campaign alone, and by a
\* moderator in a dispute (create_submission, the policies of the bucket, moderator_evidence_url).
THEOREM PrivacyTheorem == EvidenceSpec => []AttachmentsPrivate
<1>1. ASSUME EvidenceInv PROVE AttachmentsPrivate
  <2> SUFFICES ASSUME NEW c \in Campaigns, NEW t \in Users, NEW key \in AttachedBy(c, t)
               PROVE  /\ {u \in Users : CanRead(u, key)} = {t, campaign[c].owner} \ suspended
                      /\ dispute[c][t].status # "none" => Signable(c, t, key)
    BY DEF AttachmentsPrivate
  <2>1. /\ FolderOf(key) = <<c, t>> /\ Row(c, t).status # "none"
        /\ campaign[c].owner \in Users
    BY <1>1, AttachedFolder
  <2>2. \A u \in Users : CanRead(u, key) <=> u \notin suspended /\ (u = t \/ campaign[c].owner = u)
    BY <2>1 DEF CanRead, Owns
  <2>3. dispute[c][t].status # "none" => Signable(c, t, key)
    BY <2>1 DEF Signable, ValidStorageKey
  <2> QED BY <2>1, <2>2, <2>3
<1> QED BY <1>1, EvidenceInvTheorem, PTL

-----------------------------------------------------------------------------
(* What is attached stays *)

\* Contents are only appended to, so that what is attached stays attached.
LEMMA AttachedGrows ==
    ASSUME EvidenceInv, [EvidenceNext]_evidenceVars
    PROVE  Attached \subseteq Attached'
<1>1. ASSUME NEW t \in Users, NEW c \in Campaigns, NEW payload \in Payloads,
             SubmitEvidence(t, c, payload), NEW d \in Campaigns, NEW w \in Users
      PROVE  AttachedBy(d, w) \subseteq AttachedBy(d, w)'
  <2>1. /\ content \in [Campaigns -> [Users -> Seq(Payloads)]]
        /\ content' = Put(content, c, t, Append(content[c][t], payload))
    BY <1>1 DEF EvidenceInv, ContentSound, SubmitEvidence
  <2>2. content'[d][w] = content[d][w] \/ content'[d][w] = Append(content[d][w], payload)
    BY <2>1 DEF Put
  <2>3. /\ DOMAIN content[d][w] \subseteq DOMAIN content'[d][w]
        /\ \A v \in DOMAIN content[d][w] : content'[d][w][v] = content[d][w][v]
    <3>1. content[d][w] \in Seq(Payloads)
      BY <2>1
    <3>2. CASE content'[d][w] = content[d][w]
      BY <3>2
    <3>3. CASE content'[d][w] = Append(content[d][w], payload)
      BY <3>1, <3>3
    <3> QED BY <2>2, <3>2, <3>3
  <2>4. ASSUME NEW key \in AttachedBy(d, w) PROVE key \in AttachedBy(d, w)'
    <3>1. PICK v \in DOMAIN content[d][w] :
            \E item \in content[d][w][v].items : item.key = key /\ key # NoKey
      BY DEF AttachedBy
    <3>2. v \in DOMAIN content'[d][w] /\ content'[d][w][v].items = content[d][w][v].items
      BY <2>3, <3>1
    <3> QED BY <3>1, <3>2 DEF AttachedBy
  <2> QED BY <2>4
<1>2. CASE UNCHANGED content
  BY <1>2 DEF Attached, AttachedBy
<1>3. ASSUME ~ \E t \in Users, c \in Campaigns, payload \in Payloads : SubmitEvidence(t, c, payload)
      PROVE  UNCHANGED content
  <2>1. ASSUME NEW u \in Users, NEW key \in Keys, Upload(u, key) \/ AdmitDeletion(u, key)
        PROVE  UNCHANGED content
    BY <2>1 DEF Upload, AdmitDeletion
  <2>2. ASSUME NEW key \in Keys, Delete(key) PROVE UNCHANGED content
    BY <2>2 DEF Delete
  <2>3. ASSUME NEW m \in Moderators, NEW c \in Campaigns, NEW t \in Users, NEW key \in Keys,
               OpenAttachment(m, c, t, key)
        PROVE  UNCHANGED content
    BY <2>3 DEF OpenAttachment
  <2>4. OtherRequest \/ UNCHANGED evidenceVars => UNCHANGED content
    BY DEF OtherRequest, evidenceVars
  <2> QED BY <1>3, <2>1, <2>2, <2>3, <2>4 DEF EvidenceNext
<1>4. CASE \E t \in Users, c \in Campaigns, payload \in Payloads : SubmitEvidence(t, c, payload)
  BY <1>1, <1>4 DEF Attached
<1> QED BY <1>2, <1>3, <1>4

\* A step that deletes, or admits a deletion, spares what is secured.
LEMMA SecuredStep ==
    ASSUME EvidenceInv, [EvidenceNext]_evidenceVars, NEW key \in Keys, Secured(key)
    PROVE  Secured(key)'
<1>1. key \in objects /\ key \in Attached /\ key \notin removing
  BY DEF Secured
<1>2. key \in Attached'
  BY <1>1, AttachedGrows
<1>3. ASSUME UNCHANGED storageVars PROVE key \in objects' /\ key \notin removing'
  BY <1>1, <1>3 DEF storageVars
<1>4. ASSUME NEW u \in Users, NEW k \in Keys, Upload(u, k)
      PROVE  key \in objects' /\ key \notin removing'
  BY <1>1, <1>4 DEF Upload
<1>5. ASSUME NEW u \in Users, NEW k \in Keys, AdmitDeletion(u, k)
      PROVE  key \in objects' /\ key \notin removing'
  BY <1>1, <1>5 DEF AdmitDeletion, CanDelete
<1>6. ASSUME NEW k \in Keys, Delete(k) PROVE key \in objects' /\ key \notin removing'
  BY <1>1, <1>6 DEF Delete
<1>7. ASSUME \/ OtherRequest \/ UNCHANGED evidenceVars
             \/ \E t \in Users, c \in Campaigns, payload \in Payloads : SubmitEvidence(t, c, payload)
             \/ \E m \in Moderators, c \in Campaigns, t \in Users, k \in Keys :
                   OpenAttachment(m, c, t, k)
      PROVE  UNCHANGED storageVars
  BY <1>7 DEF OtherRequest, evidenceVars, SubmitEvidence, OpenAttachment, storageVars
<1>8. key \in objects' /\ key \notin removing'
  BY <1>3, <1>4, <1>5, <1>6, <1>7 DEF EvidenceNext
<1> QED BY <1>2, <1>8 DEF Secured

\* A file that is attached while nobody is about to delete it stays (create_submission, the
\* policy for deletions, and that there is none for updates).
THEOREM AttachmentTheorem == EvidenceSpec => AttachedStays
<1>1. EvidenceInv /\ [EvidenceNext]_evidenceVars =>
        [\A key \in Keys : Secured(key) => Secured(key)']_evidenceVars
  BY SecuredStep
<1> QED BY <1>1, EvidenceInvTheorem, PTL DEF EvidenceSpec, AttachedStays

-----------------------------------------------------------------------------
(* The report on stored work *)

\* What create_submission has refused is not flagged (build_submission_quality_check).
THEOREM StoredWorkTheorem == EvidenceSpec => []StoredWorkScoresHalf
<1>1. ASSUME EvidenceInv PROVE StoredWorkScoresHalf
  <2> SUFFICES ASSUME NEW c \in Campaigns, NEW t \in Users, NEW v \in 1 .. Versions(c, t)
               PROVE  LET report == Report(submissions[c][t][v].status, content[c][t][v],
                                           Tasks(c).required)
                      IN  /\ {"required_task_coverage", "evidence_content"} \subseteq report.checks
                          /\ report.score >= 50
    BY DEF StoredWorkScoresHalf
  <2> DEFINE payload == content[c][t][v]
             passed == PassedChecks(payload.summary, payload.items, Tasks(c).required)
             refused == {"required_task_coverage", "evidence_content"}
             codes == {"required_task_coverage", "evidence_content", "summary_specificity",
                       "concrete_observation"}
  <2>1. Fits(Tasks(c), c, t, payload)
    BY <1>1 DEF EvidenceInv, ContentSound
  <2>2. /\ Tasks(c).required \subseteq CoveredTasks(payload.items)
        /\ \A item \in payload.items : HasContent(item)
    BY <2>1 DEF Fits
  <2>3. refused \subseteq passed /\ passed \subseteq codes
    BY <2>2 DEF PassedChecks
  <2>4. IsFiniteSet(refused) /\ Cardinality(refused) = 2
    <3>1. IsFiniteSet({"required_task_coverage"}) /\ Cardinality({"required_task_coverage"}) = 1
      BY FS_Singleton
    <3>2. refused = {"required_task_coverage"} \cup {"evidence_content"}
            /\ "evidence_content" \notin {"required_task_coverage"}
      OBVIOUS
    <3> QED BY <3>1, <3>2, FS_AddElement
  <2>5. IsFiniteSet(codes)
    <3>1. codes = refused \cup {"summary_specificity", "concrete_observation"}
      OBVIOUS
    <3>2. IsFiniteSet({"summary_specificity"} \cup {"concrete_observation"})
      BY FS_Singleton, FS_AddElement
    <3>3. {"summary_specificity"} \cup {"concrete_observation"} =
            {"summary_specificity", "concrete_observation"}
      OBVIOUS
    <3>4. IsFiniteSet({"summary_specificity", "concrete_observation"})
      BY <3>2, <3>3
    <3> HIDE DEF refused, codes
    <3>5. IsFiniteSet(refused \cup {"summary_specificity", "concrete_observation"})
      BY <2>4, <3>4, FS_Union
    <3> QED BY <3>1, <3>5
  <2> HIDE DEF codes, refused, passed
  <2>6. IsFiniteSet(passed)
    BY <2>3, <2>5, FS_Subset
  <2>7. Cardinality(passed) \in Nat /\ 2 <= Cardinality(passed)
    BY <2>3, <2>4, <2>6, FS_Subset, FS_CardinalityType
  <2>8. 25 * Cardinality(passed) >= 50
    BY <2>7
  <2> QED BY <2>3, <2>8 DEF Report, passed, refused
<1> QED BY <1>1, EvidenceInvTheorem, PTL

\* The report calls for a review of exactly the work that may be decided.
THEOREM ReportTheorem == EvidenceSpec => []ReportFollowsWork
<1>1. ASSUME EvidenceInv PROVE ReportFollowsWork
  <2> SUFFICES ASSUME NEW c \in Campaigns, NEW t \in Users, NEW v \in 1 .. Versions(c, t)
               PROVE  Report(submissions[c][t][v].status, content[c][t][v],
                             Tasks(c).required).status # "already_reviewed"
                        <=> Row(c, t).status = "submitted" /\ v = Versions(c, t)
    BY DEF ReportFollowsWork
  <2>1. /\ submissions[c][t] \in Seq(Submission) /\ Len(submissions[c][t]) \in Nat
        /\ VersionsAgree(c, t)
    BY <1>1, WorkTables DEF EvidenceInv, ExchangeInv, WorkSound
  <2>2. submissions[c][t][v].status = "submitted"
          <=> Row(c, t).status = "submitted" /\ v = Versions(c, t)
    BY <2>1 DEF VersionsAgree, Agree, Versions, Settled
  <2>3. Report(submissions[c][t][v].status, content[c][t][v],
               Tasks(c).required).status # "already_reviewed"
          <=> submissions[c][t][v].status = "submitted"
    BY DEF Report
  <2> QED BY <2>2, <2>3
<1> QED BY <1>1, EvidenceInvTheorem, PTL
=============================================================================
