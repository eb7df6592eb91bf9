---------------------------- MODULE RacesProofs ----------------------------
(***************************************************************************)
(* Theorems about ExchangeRaces: what the requests that check without a    *)
(* lock cannot disturb.                                                    *)
(***************************************************************************)
EXTENDS ExchangeRaces, ExchangeProofs

-----------------------------------------------------------------------------
(* What a publication leaves, whatever its price *)

\* A campaign is out of its draft exactly when its posting is paid and its contract locked.
PublicationSound ==
    \A c \in Campaigns :
        IF Drafted(c) THEN ~Posted(PostingKey(c)) /\ contract[c].status # "locked"
                      ELSE Posted(PostingKey(c)) /\ contract[c].status = "locked"

\* Publishing posts the cost of a draft, and locks its contract.
LEMMA PublishPosts ==
    ASSUME TypeOK, PublicationSound, NEW u \in Users, NEW c \in Campaigns, Publishes(u, c)
    PROVE  /\ campaign'[c].status = "published" /\ contract'[c].status = "locked"
           /\ \E delta : Enters(PostingKey(c), u, delta)
           /\ \A d \in Campaigns \ {c} : campaign'[d] = campaign[d] /\ contract'[d] = contract[d]
<1>1. /\ campaign \in [Campaigns -> Campaign] /\ campaign[c] \in Campaign
      /\ contract \in [Campaigns -> Contract] /\ contract[c] \in Contract
  BY DEF TypeOK
<1>2. ~Posted(PostingKey(c))
  BY DEF Publishes, PublishCampaign, LaunchCampaign, PublicationSound, Drafted
<1>3. \A d \in Campaigns \ {c} : campaign'[d] = campaign[d] /\ contract'[d] = contract[d]
  BY <1>1 DEF Publishes, PublishCampaign, LaunchCampaign
<1>4. CASE PublishCampaign(u, c)
  <2>1. /\ campaign'[c] = [campaign[c] EXCEPT !.status = "published"]
        /\ contract'[c] = [contract[c] EXCEPT !.status = "locked"]
    BY <1>1, <1>4 DEF PublishCampaign
  <2>2. campaign'[c].status = "published" /\ contract'[c].status = "locked"
    BY <1>1, <2>1 DEF Campaign, Contract
  <2>3. \E delta : Enters(PostingKey(c), u, delta)
    BY <1>2, <1>4 DEF PublishCampaign, RecordCreditEntry, Booked, Enters
  <2> QED BY <1>3, <2>2, <2>3
<1>5. ASSUME NEW target \in Targets, NEW reward \in Rewards, NEW terms \in Terms,
             LaunchCampaign(u, c, target, reward, terms)
      PROVE  /\ campaign'[c].status = "published" /\ contract'[c].status = "locked"
             /\ \E delta : Enters(PostingKey(c), u, delta)
  <2>1. campaign'[c].status = "published" /\ contract'[c].status = "locked"
    BY <1>1, <1>5 DEF LaunchCampaign, DraftRow
  <2>2. \E delta : Enters(PostingKey(c), u, delta)
    BY <1>2, <1>5 DEF LaunchCampaign, RecordCreditEntry, Booked, Enters
  <2> QED BY <2>1, <2>2
<1> QED BY <1>3, <1>4, <1>5 DEF Publishes

\* Every step of Exchange keeps the publications sound.
LEMMA PublicationStep ==
    ASSUME TypeOK, PaidOnce, PublicationSound, [Next]_vars
    PROVE  PublicationSound'
<1>1. ASSUME NEW u \in Users, NEW c \in Campaigns, Publishes(u, c)
      PROVE  PublicationSound'
  <2>1. /\ campaign'[c].status = "published" /\ contract'[c].status = "locked"
        /\ \E delta : Enters(PostingKey(c), u, delta)
        /\ \A d \in Campaigns \ {c} : campaign'[d] = campaign[d] /\ contract'[d] = contract[d]
    BY <1>1, PublishPosts
  <2>2. /\ \A k : k # PostingKey(c) => (Posted(k) <=> Posted(k)')
        /\ Posted(PostingKey(c))'
    BY <2>1, EntersUnique
  <2>3. \A d \in Campaigns \ {c} : Posted(PostingKey(d)) <=> Posted(PostingKey(d))'
    BY <2>2, KeysDiffer DEF PostingKey
  <2> QED BY <2>1, <2>2, <2>3 DEF PublicationSound, Drafted, PostingKey
<1>2. CASE \A u \in Users, c \in Campaigns : ~Publishes(u, c)
  <2>1. \/ UNCHANGED ledger
        \/ \E c \in Campaigns, t \in Users : Enters(RewardKey(c, t), t, campaign[c].reward)
    BY <1>2, WorkStep, ApprovesEnters
  <2>2. ASSUME NEW d \in Campaigns PROVE Posted(PostingKey(d)) <=> Posted(PostingKey(d))'
    <3>1. CASE UNCHANGED ledger
      BY <3>1 DEF Posted, PostingKey
    <3>2. ASSUME NEW c \in Campaigns, NEW t \in Users,
                 Enters(RewardKey(c, t), t, campaign[c].reward)
          PROVE  Posted(PostingKey(d)) <=> Posted(PostingKey(d))'
      BY <3>2, EntersUnique, KeysDiffer DEF PostingKey
    <3> QED BY <2>1, <3>1, <3>2
  <2>3. ASSUME NEW d \in Campaigns, Drafted(d)
        PROVE  Drafted(d)' /\ contract'[d].status # "locked"
    BY <1>2, <2>3, DraftStep DEF PublicationSound, Drafted
  <2>4. ASSUME NEW d \in Campaigns, ~Drafted(d)
        PROVE  ~Drafted(d)' /\ contract'[d] = contract[d]
    BY <2>4, ContractStep, OfferStep DEF Drafted
  <2> QED BY <2>2, <2>3, <2>4 DEF PublicationSound, PostingKey
<1> QED BY <1>1, <1>2

\* Every step of Exchange pays what it approves, once, and nothing else.
LEMMA PaidStep ==
    ASSUME TypeOK, PaidOnce, [Next]_vars
    PROVE  PaidOnce'
<1> DEFINE Right(d, w) == assignment'[d][w].status = "approved" <=> Posted(RewardKey(d, w))'
           Unique == \A e, f \in ledger' : e.key = f.key => e = f
<1>1. SUFFICES Unique /\ \A d \in Campaigns, w \in Users : Right(d, w)
  BY DEF PaidOnce, Row, RewardKey
<1>2. /\ \A d \in Campaigns, w \in Users : Row(d, w).status = "approved" <=> Posted(RewardKey(d, w))
      /\ \A e, f \in ledger : e.key = f.key => e = f
  BY DEF PaidOnce
<1>3. CASE UNCHANGED ledger /\ \A d \in Campaigns, w \in Users : Moved(d, w)
  <2>1. ASSUME NEW d \in Campaigns, NEW w \in Users PROVE Right(d, w)
    <3>1. assignment'[d][w].status = "approved" <=> Row(d, w).status = "approved"
      BY <1>3 DEF Moved, MovesTo
    <3>2. Posted(RewardKey(d, w)) <=> Posted(RewardKey(d, w))'
      BY <1>3 DEF Posted, RewardKey
    <3> QED BY <1>2, <3>1, <3>2
  <2> QED BY <1>2, <1>3, <2>1
<1>4. ASSUME NEW u \in Users, NEW c \in Campaigns, Publishes(u, c), UNCHANGED assignment
      PROVE  Unique /\ \A d \in Campaigns, w \in Users : Right(d, w)
  <2>1. CASE UNCHANGED ledger
    BY <1>2, <1>4, <2>1 DEF Posted, Row, RewardKey
  <2>2. ASSUME NEW x \in Campaigns, NEW y \in Users, NEW delta, Enters(PostingKey(x), y, delta)
        PROVE  Unique /\ \A d \in Campaigns, w \in Users : Right(d, w)
    <3>1. Unique /\ \A k : k # PostingKey(x) => (Posted(k) <=> Posted(k)')
      BY <2>2, EntersUnique
    <3>2. ASSUME NEW d \in Campaigns, NEW w \in Users PROVE Right(d, w)
      <4>1. Posted(RewardKey(d, w)) <=> Posted(RewardKey(d, w))'
        BY <3>1, KeysDiffer DEF RewardKey
      <4> QED BY <1>2, <1>4, <4>1 DEF Row
    <3> QED BY <3>1, <3>2
  <2> QED BY <1>4, <2>1, <2>2, PublishesEnters
<1>5. ASSUME NEW c \in Campaigns, NEW t \in Users, Approves(c, t)
      PROVE  Unique /\ \A d \in Campaigns, w \in Users : Right(d, w)
  <2>1. Enters(RewardKey(c, t), t, campaign[c].reward)
    BY <1>5, ApprovesEnters
  <2>2. /\ Unique
        /\ \A k : k # RewardKey(c, t) => (Posted(k) <=> Posted(k)')
        /\ Posted(RewardKey(c, t))'
    BY <2>1, EntersUnique
  <2>3. ASSUME NEW d \in Campaigns, NEW w \in Users PROVE Right(d, w)
    <3>1. CASE d = c /\ w = t
      <4>1. assignment'[c][t] = ApprovedRow(Row(c, t))
        BY <1>5 DEF Approves, Put, TypeOK
      <4>2. assignment'[c][t].status = "approved"
        BY <4>1, RowType DEF ApprovedRow, Assignment
      <4> QED BY <2>2, <3>1, <4>2
    <3>2. CASE d # c \/ w # t
      <4>1. assignment'[d][w] = assignment[d][w]
        BY <1>5, <3>2 DEF Approves, Put, TypeOK
      <4>2. RewardKey(d, w) # RewardKey(c, t)
        BY <3>2, KeysDiffer
      <4>3. Posted(RewardKey(d, w)) <=> Posted(RewardKey(d, w))'
        BY <2>2, <4>2 DEF RewardKey
      <4> QED BY <1>2, <4>1, <4>3 DEF Row
    <3> QED BY <3>1, <3>2
  <2> QED BY <2>2, <2>3
<1> QED BY <1>3, <1>4, <1>5, WorkStep

-----------------------------------------------------------------------------
(* What is true of the requests under way *)

\* A start under way is one of today, of an assignment that is accepted still, or has been withdrawn
\* since, or has its session of the day.
StartSound(r) ==
    /\ r.campaign \in Campaigns /\ r.tester \in Users
    /\ r.day = Today
    /\ \/ Row(r.campaign, r.tester).status \in {"accepted", "cancelled"}
       \/ Today \in sessions[r.campaign][r.tester]

UpdateSound(r) ==
    /\ r.campaign \in Campaigns /\ r.owner \in Users
    /\ r.seen \in Campaign /\ r.target \in Targets /\ r.reward \in Rewards

UpsertSound(r) ==
    /\ r.campaign \in Campaigns /\ r.owner \in Users
    /\ r.seen \in Contract /\ r.terms \in Terms

RequestSound(r) ==
    /\ r.op = "start" => StartSound(r)
    /\ r.op = "update" => UpdateSound(r)
    /\ r.op = "upsert" => UpsertSound(r)

\* The tables, as far as no race disturbs them.
TablesSound == TypeOK /\ References /\ WorkSound /\ PaidOnce /\ PublicationSound

\* The inductive invariant.
RacesInv == TablesSound /\ \A r \in inFlight : RequestSound(r)

-----------------------------------------------------------------------------
(* The steps of Exchange *)

\* An accepted or cancelled assignment stays one, or is started with the session of the day.
LEMMA StartOvertaken ==
    ASSUME TypeOK, [Next]_vars, now' = now, NEW c \in Campaigns, NEW t \in Users,
           Row(c, t).status \in {"accepted", "cancelled"}
    PROVE  \/ assignment'[c][t].status \in {"accepted", "cancelled"}
           \/ Today \in sessions'[c][t]
<1> DEFINE old == assignment[c][t]
           new == assignment'[c][t]
<1>1. \/ new.status \in {"accepted", "cancelled"}
      \/ old.status = "accepted" /\ new.status = "in_progress"
  <2>1. ASSUME NEW d \in Campaigns, NEW w \in Users, Approves(d, w)
        PROVE  new = old
    <3>1. d # c \/ w # t
      BY <2>1 DEF Approves
    <3> QED BY <2>1, <3>1 DEF Approves, Put, TypeOK
  <2>2. Moved(c, t) \/ new = old
    BY <2>1, WorkStep
  <2> QED BY <2>2 DEF Moved, MovesTo, Row
<1>2. CASE old.status = "accepted" /\ new.status = "in_progress"
  <2>1. Writes(c, t)
    BY <1>2, WritesRow
  <2>2. StartAssignment(t, c)
    <3> HIDE DEF old, new
    <3>1. ASSUME NEW u \in Users
          PROVE  /\ ~AcceptAssignment(u, c, t)
                 /\ ~DeclineAssignment(u, c, t)
                 /\ ~(CloseCampaign(u, c) /\ t \in Pending(assignment[c]))
                 /\ \A v \in DOMAIN submissions[c][t] :
                      /\ ~ApproveSubmission(u, c, t, v)
                      /\ ~RequestChanges(u, c, t, v)
                      /\ ~RejectSubmission(u, c, t, v)
      BY <1>2, WrittenStatus DEF old, new
    <3>2. /\ ~ApplyToCampaign(t, c) /\ ~WithdrawAssignment(t, c) /\ ~CreateSubmission(t, c)
          /\ \A m \in Moderators : ~RejectOverdueWork(m, c, t) /\ ~AwardTester(m, c, t)
      BY <1>2, WrittenStatus, UsersAssumption DEF old, new
    <3> QED BY <2>1, <3>1, <3>2 DEF Writes
  <2>3. sessions'[c][t] = sessions[c][t] \cup {Today}
    BY <2>2, WorkTables DEF StartAssignment, Put
  <2> QED BY <2>3
<1> QED BY <1>1, <1>2

\* A step of Exchange within one tick leaves the requests under way sound.
LEMMA RequestsKept ==
    ASSUME TypeOK, [Next]_vars, now' = now, NEW r, RequestSound(r)
    PROVE  RequestSound(r)'
<1>1. ASSUME StartSound(r) PROVE StartSound(r)'
  <2> DEFINE c == r.campaign
             t == r.tester
  <2>1. c \in Campaigns /\ t \in Users /\ r.day = Today
    BY <1>1 DEF StartSound
  <2>2. Today' = Today
    BY DEF Today
  <2>3. SessionMove(c, t)
    BY <2>1, SessionStep
  <2>4. sessions[c][t] \subseteq sessions'[c][t]
    BY <2>3 DEF SessionMove
  <2>5. \/ assignment'[c][t].status \in {"accepted", "cancelled"}
        \/ Today \in sessions'[c][t]
    <3>1. CASE Today \in sessions[c][t]
      BY <2>4, <3>1
    <3>2. CASE Row(c, t).status \in {"accepted", "cancelled"}
      BY <2>1, <3>2, StartOvertaken
    <3> QED BY <1>1, <3>1, <3>2 DEF StartSound
  <2> QED BY <2>1, <2>2, <2>5 DEF StartSound, Row
<1> QED BY <1>1 DEF RequestSound, UpdateSound, UpsertSound

\* A step of Exchange keeps the tables sound.
LEMMA TablesStep ==
    ASSUME TablesSound, [Next]_vars
    PROVE  TablesSound'
BY TypeStep, ReferencesStep, WorkSoundStep, PaidStep, PublicationStep DEF TablesSound

-----------------------------------------------------------------------------
(* The requests in two steps *)

\* What a request reads, it reads from sound tables.
LEMMA ReadsSound ==
    ASSUME TypeOK, NEW u \in Users, NEW c \in Campaigns, RaceReads(u, c)
    PROVE  UNCHANGED vars /\ \A r \in inFlight' : r \in inFlight \/ RequestSound(r)
<1>1. campaign[c] \in Campaign /\ contract[c] \in Contract
  BY DEF TypeOK
<1>2. ASSUME NEW request, Begin(request), RequestSound(request)
      PROVE  UNCHANGED vars /\ \A r \in inFlight' : r \in inFlight \/ RequestSound(r)
  BY <1>2 DEF Begin
<1>3. ASSUME StartReads(u, c)
      PROVE  UNCHANGED vars /\ \A r \in inFlight' : r \in inFlight \/ RequestSound(r)
  <2> DEFINE r == [op |-> "start", tester |-> u, campaign |-> c, day |-> Today]
  <2>1. RequestSound(r)
    BY <1>3 DEF RequestSound, StartSound, StartReads
  <2>2. Begin(r)
    BY <1>3 DEF StartReads
  <2> HIDE DEF r
  <2> QED BY <1>2, <2>1, <2>2
<1>4. ASSUME NEW target \in Targets, NEW reward \in Rewards, UpdateReads(u, c, target, reward)
      PROVE  UNCHANGED vars /\ \A r \in inFlight' : r \in inFlight \/ RequestSound(r)
  <2> DEFINE r == [op |-> "update", owner |-> u, campaign |-> c, seen |-> campaign[c],
                   target |-> target, reward |-> reward]
  <2>1. RequestSound(r)
    BY <1>1 DEF RequestSound, UpdateSound
  <2>2. Begin(r)
    BY <1>4 DEF UpdateReads
  <2> HIDE DEF r
  <2> QED BY <1>2, <2>1, <2>2
<1>5. ASSUME NEW terms \in Terms, UpsertReads(u, c, terms)
      PROVE  UNCHANGED vars /\ \A r \in inFlight' : r \in inFlight \/ RequestSound(r)
  <2> DEFINE r == [op |-> "upsert", owner |-> u, campaign |-> c, seen |-> contract[c],
                   terms |-> terms]
  <2>1. RequestSound(r)
    BY <1>1 DEF RequestSound, UpsertSound
  <2>2. Begin(r)
    BY <1>5 DEF UpsertReads
  <2> HIDE DEF r
  <2> QED BY <1>2, <2>1, <2>2
<1> QED BY <1>3, <1>4, <1>5 DEF RaceReads

\* The requests under way stay sound when a request leaves the clock and the assignments alone.
LEMMA RequestsApart ==
    ASSUME NEW r, RequestSound(r), UNCHANGED <<assignment, sessions, now>>
    PROVE  RequestSound(r)'
BY DEF RequestSound, StartSound, UpdateSound, UpsertSound, Row, Today

\* A start is turned away by the session of the day, or writes an accepted or withdrawn assignment.
LEMMA StartWritesSound ==
    ASSUME RacesInv, NEW r \in inFlight, r.op = "start", StartWrites(r)
    PROVE  TablesSound' /\ \A q \in inFlight : RequestSound(q)'
<1> DEFINE c == r.campaign
           t == r.tester
           row == [Row(c, t) EXCEPT !.status = "in_progress", !.started_at = now]
<1>1. CASE Fail(r)
  <2>1. UNCHANGED vars
    BY <1>1 DEF Fail
  <2>2. [Next]_vars /\ now' = now
    BY <2>1 DEF vars
  <2>3. \A q \in inFlight : RequestSound(q)'
    BY <2>1, RequestsApart DEF vars, RacesInv
  <2> QED BY <2>2, <2>3, TablesStep DEF RacesInv
<1>2. CASE r.day \notin sessions[c][t] /\ ~Fail(r)
  <2>1. /\ c \in Campaigns /\ t \in Users /\ r.day = Today
        /\ TypeOK /\ References /\ WorkSound /\ PaidOnce /\ PublicationSound
    BY DEF RacesInv, TablesSound, RequestSound, StartSound
  <2>2. Row(c, t).status \in {"accepted", "cancelled"} /\ Row(c, t) \in Assignment
    BY <1>2, <2>1, RowType DEF RacesInv, RequestSound, StartSound
  <2>3. /\ assignment' = Put(assignment, c, t, row)
        /\ sessions' = Put(sessions, c, t, sessions[c][t] \cup {Today})
        /\ AddAuditEvents({Audited(t, "assignment.started", <<c, t>>)})
        /\ UNCHANGED <<campaignVars, creditVars, submissions, dispute, notifications, suspended, now>>
    BY <1>2, <2>1 DEF StartWrites
  <2>4. row \in Assignment /\ row.status = "in_progress"
    BY <2>1, <2>2 DEF Assignment, AssignmentStatus, TypeOK
  <2>5. \A d \in Campaigns, w \in Users :
          /\ assignment'[d][w] = IF d = c /\ w = t THEN row ELSE assignment[d][w]
          /\ sessions'[d][w] = IF d = c /\ w = t THEN sessions[c][t] \cup {Today} ELSE sessions[d][w]
    BY <2>1, <2>3, WorkTables DEF Put
  <2> HIDE DEF row
  <2>6. TypeOK'
    <3>1. assignment' \in [Campaigns -> [Users -> Assignment]]
      BY <2>1, <2>3, <2>4, PutType DEF TypeOK
    <3>2. sessions' \in [Campaigns -> [Users -> SUBSET Nat]]
      <4>1. sessions \in [Campaigns -> [Users -> SUBSET Nat]]
        BY <2>1, WorkTables
      <4>2. sessions[c][t] \cup {Today} \in SUBSET Nat
        BY <2>1, <4>1, TodayType
      <4> QED BY <2>1, <2>3, <4>1, <4>2, PutType
    <3>3. audit' \subseteq AuditEvent
      BY <2>1, <2>3, SingleEventType DEF Action
    <3> QED BY <2>1, <2>3, <3>1, <3>2, <3>3 DEF TypeOK, campaignVars, creditVars
  <2>7. References'
    BY <2>1, <2>2, <2>3, <2>4, <2>5 DEF References, Row, campaignVars
  <2>8. WorkSound'
    <3> SUFFICES ASSUME NEW d \in Campaigns, NEW w \in Users
                 PROVE  (VersionsAgree(d, w) /\ DisputeAgrees(d, w))'
      BY DEF WorkSound
    <3>1. VersionsAgree(d, w) /\ DisputeAgrees(d, w) /\ dispute[d][w] \in Dispute
      BY <2>1, WorkTables DEF WorkSound
    <3>2. CASE d = c /\ w = t
      <4>1. dispute[c][t].status = "none"
        BY <2>2, <3>1, <3>2 DEF DisputeAgrees, ActiveDispute, Dispute, DisputeStatus
      <4>2. VersionsAgree(c, t)'
        BY <2>1, <2>2, <2>3, <2>4, <2>5, <3>1, <3>2 DEF VersionsAgree, Agree, Row, Settled
      <4> QED BY <2>3, <3>2, <4>1, <4>2 DEF DisputeAgrees, ActiveDispute
    <3>3. CASE d # c \/ w # t
      <4>1. assignment'[d][w] = assignment[d][w]
        BY <2>5, <3>3
      <4> QED BY <2>3, <3>1, <4>1 DEF VersionsAgree, DisputeAgrees, Row
    <3> QED BY <3>2, <3>3
  <2>9. PaidOnce'
    <3>1. PaidOnce /\ UNCHANGED ledger
      BY <2>1, <2>3 DEF creditVars
    <3>2. \A d \in Campaigns, w \in Users :
            assignment'[d][w].status = "approved" <=> assignment[d][w].status = "approved"
      BY <2>2, <2>4, <2>5 DEF Row
    <3> QED BY <3>1, <3>2 DEF PaidOnce, Row, Posted, RewardKey
  <2>10. PublicationSound'
    BY <2>1, <2>3 DEF PublicationSound, Drafted, Posted, PostingKey, campaignVars, creditVars
  <2>11. ASSUME NEW q \in inFlight PROVE RequestSound(q)'
    <3>1. Today' = Today
      BY <2>3 DEF Today
    <3>2. ASSUME StartSound(q) PROVE StartSound(q)'
      <4> DEFINE d == q.campaign
                 w == q.tester
      <4>1. d \in Campaigns /\ w \in Users /\ q.day = Today
        BY <3>2 DEF StartSound
      <4>2. CASE d = c /\ w = t
        BY <2>5, <3>1, <4>1, <4>2 DEF StartSound
      <4>3. CASE d # c \/ w # t
        BY <2>5, <3>1, <3>2, <4>1, <4>3 DEF StartSound, Row
      <4> QED BY <4>2, <4>3
    <3> QED BY <3>2 DEF RacesInv, RequestSound, UpdateSound, UpsertSound
  <2> QED BY <2>6, <2>7, <2>8, <2>9, <2>10, <2>11 DEF TablesSound
<1> QED BY <1>1, <1>2 DEF StartWrites

\* An edit of the draft writes its offer alone, whatever has become of the draft.
LEMMA UpdateWritesSound ==
    ASSUME TablesSound, NEW r, UpdateSound(r), UpdateWrites(r)
    PROVE  TablesSound'
<1> DEFINE c == r.campaign
           row == [campaign[c] EXCEPT !.target = Written(r.seen.target, r.target, @),
                                      !.reward = Written(r.seen.reward, r.reward, @)]
<1>1. /\ c \in Campaigns /\ r.owner \in Users
      /\ TypeOK /\ References /\ WorkSound /\ PaidOnce /\ PublicationSound
      /\ campaign \in [Campaigns -> Campaign] /\ campaign[c] \in Campaign
  BY DEF TablesSound, UpdateSound, TypeOK
<1>2. r.target \in Nat /\ r.reward \in Nat
  BY OfferAssumption DEF UpdateSound
<1>3. /\ campaign' = [campaign EXCEPT ![c] = row]
      /\ AddAuditEvents({Audited(r.owner, "campaign.updated", c)})
      /\ UNCHANGED <<contract, workVars, creditVars, dispute, notifications, suspended, now>>
  <2>1. campaign' = [campaign EXCEPT ![c].target = Written(r.seen.target, r.target, @),
                                     ![c].reward = Written(r.seen.reward, r.reward, @)]
    BY DEF UpdateWrites
  <2>2. campaign' = [campaign EXCEPT ![c] = row]
    BY <1>1, <2>1
  <2> QED BY <2>2 DEF UpdateWrites
<1>4. row \in Campaign /\ row.status = campaign[c].status /\ row.owner = campaign[c].owner
  BY <1>1, <1>2 DEF Written, Campaign
<1> HIDE DEF row
<1>5. \A d \in Campaigns : /\ campaign'[d].status = campaign[d].status
                           /\ campaign'[d].owner = campaign[d].owner
  BY <1>1, <1>3, <1>4
<1>6. TypeOK'
  <2>1. campaign' \in [Campaigns -> Campaign]
    BY <1>1, <1>3, <1>4
  <2>2. Audited(r.owner, "campaign.updated", c) \in AuditEvent
    BY <1>1 DEF Audited, AuditEvent, Action
  <2>3. audit' \subseteq AuditEvent
    BY <1>1, <1>3, <2>2 DEF AddAuditEvents, TypeOK
  <2> QED BY <1>1, <1>3, <2>1, <2>3 DEF TypeOK, workVars, creditVars
<1>7. References'
  BY <1>1, <1>3, <1>5 DEF References, Row, workVars
<1>8. WorkSound'
  BY <1>1, <1>3 DEF WorkSound, VersionsAgree, DisputeAgrees, Row, workVars
<1>9. PaidOnce'
  BY <1>1, <1>3 DEF PaidOnce, Row, Posted, RewardKey, workVars, creditVars
<1>10. PublicationSound'
  BY <1>1, <1>3, <1>5 DEF PublicationSound, Drafted, Posted, PostingKey, creditVars
<1> QED BY <1>6, <1>7, <1>8, <1>9, <1>10 DEF TablesSound

\* A save of the contract writes its terms, or the first contract of a draft.
LEMMA UpsertWritesSound ==
    ASSUME TablesSound, NEW r, UpsertSound(r), UpsertWrites(r)
    PROVE  TablesSound'
<1> DEFINE c == r.campaign
           merged == [f \in DOMAIN r.terms |->
                        Written(r.seen.terms[f], r.terms[f], contract[c].terms[f])]
           row == IF r.seen.status = "none" THEN [status |-> "draft", terms |-> r.terms]
                                            ELSE [contract[c] EXCEPT !.terms = merged]
<1>1. /\ c \in Campaigns /\ r.owner \in Users
      /\ TypeOK /\ References /\ WorkSound /\ PaidOnce /\ PublicationSound
      /\ contract \in [Campaigns -> Contract] /\ contract[c] \in Contract
  BY DEF TablesSound, UpsertSound, TypeOK
<1>2. r.terms \in AnyTerms /\ r.seen.terms \in AnyTerms /\ contract[c].terms \in AnyTerms
  BY <1>1, TermsAssumption DEF UpsertSound, Contract
<1>3. merged \in AnyTerms
  <2>1. /\ DOMAIN r.terms = {"review_window", "minimum_days", "required_sessions"}
        /\ \A f \in {"review_window", "required_sessions"} :
             /\ r.terms[f] \in Nat \ {0} /\ contract[c].terms[f] \in Nat \ {0}
        /\ r.terms["minimum_days"] \in Nat /\ contract[c].terms["minimum_days"] \in Nat
    BY <1>2 DEF AnyTerms
  <2>2. merged = [review_window |-> merged["review_window"],
                  minimum_days |-> merged["minimum_days"],
                  required_sessions |-> merged["required_sessions"]]
    BY <2>1
  <2>3. /\ merged["review_window"] \in Nat \ {0}
        /\ merged["minimum_days"] \in Nat
        /\ merged["required_sessions"] \in Nat \ {0}
    BY <2>1 DEF Written
  <2> HIDE DEF merged
  <2> QED BY <2>2, <2>3 DEF AnyTerms
<1> HIDE DEF merged
<1>4. CASE Fail(r)
  <2>1. [Next]_vars
    BY <1>4 DEF Fail
  <2> QED BY <2>1, TablesStep
<1>5. CASE /\ r.seen.status = "none" => contract[c].status = "none"
           /\ contract' = [contract EXCEPT ![c] = row]
           /\ AddAuditEvents({Audited(r.owner, "contract.saved", c)})
           /\ UNCHANGED <<campaign, workVars, creditVars, dispute, notifications, suspended, now>>
  <2>1. /\ row \in Contract
        /\ row.status = "locked" <=> contract[c].status = "locked"
    <3>1. CASE r.seen.status = "none"
      BY <1>2, <1>5, <3>1 DEF Contract, ContractStatus
    <3>2. CASE r.seen.status # "none"
      BY <1>1, <1>3, <3>2 DEF Contract
    <3> QED BY <3>1, <3>2
  <2> HIDE DEF row
  <2>2. TypeOK'
    <3>1. contract' \in [Campaigns -> Contract]
      BY <1>1, <1>5, <2>1
    <3>2. Audited(r.owner, "contract.saved", c) \in AuditEvent
      BY <1>1 DEF Audited, AuditEvent, Action
    <3>3. audit' \subseteq AuditEvent
      BY <1>1, <1>5, <3>2 DEF AddAuditEvents, TypeOK
    <3> QED BY <1>1, <1>5, <3>1, <3>3 DEF TypeOK, workVars, creditVars
  <2>3. References'
    BY <1>1, <1>5 DEF References, Row, workVars
  <2>4. WorkSound'
    BY <1>1, <1>5 DEF WorkSound, VersionsAgree, DisputeAgrees, Row, workVars
  <2>5. PaidOnce'
    BY <1>1, <1>5 DEF PaidOnce, Row, Posted, RewardKey, workVars, creditVars
  <2>6. \A d \in Campaigns : contract'[d].status = "locked" <=> contract[d].status = "locked"
    BY <1>1, <1>5, <2>1
  <2>7. PublicationSound'
    BY <1>1, <1>5, <2>6 DEF PublicationSound, Drafted, Posted, PostingKey, creditVars
  <2> QED BY <2>2, <2>3, <2>4, <2>5, <2>7 DEF TablesSound
<1> QED BY <1>4, <1>5 DEF UpsertWrites, merged

-----------------------------------------------------------------------------
(* The theorems *)

\* Nothing is published, paid or under way at the start.
LEMMA RacesInit == RaceInit => RacesInv
<1> SUFFICES ASSUME RaceInit PROVE RacesInv
  OBVIOUS
<1>1. Init /\ inFlight = {}
  BY DEF RaceInit
<1>2. PublicationSound
  BY <1>1, FundedInit DEF PromiseFunded, PublicationSound, Drafted, Init, NoCampaign
<1> QED BY <1>1, <1>2, InitType, WorkSoundInit, RewardInit, RewardIsPaid DEF RacesInv, TablesSound

\* Every step keeps RacesInv.
LEMMA RacesStep == RacesInv /\ [RaceNext]_raceVars => RacesInv'
<1> SUFFICES ASSUME RacesInv, [RaceNext]_raceVars PROVE RacesInv'
  OBVIOUS
<1>1. TablesSound /\ TypeOK
  BY DEF RacesInv, TablesSound
<1>2. ASSUME [Next]_vars, UNCHANGED inFlight, now' # now => inFlight = {}
      PROVE  RacesInv'
  <2>1. TablesSound'
    BY <1>1, <1>2, TablesStep
  <2>2. \A r \in inFlight : RequestSound(r)'
    BY <1>1, <1>2, RequestsKept DEF RacesInv
  <2> QED BY <1>2, <2>1, <2>2 DEF RacesInv
<1>3. ASSUME NEW u \in Users, NEW c \in Campaigns, RaceReads(u, c)
      PROVE  RacesInv'
  <2>1. UNCHANGED vars /\ \A r \in inFlight' : r \in inFlight \/ RequestSound(r)
    BY <1>1, <1>3, ReadsSound
  <2>2. TablesSound'
    BY <1>1, <2>1, TablesStep
  <2>3. \A r \in inFlight' : RequestSound(r)'
    BY <2>1, RequestsApart DEF RacesInv, vars
  <2> QED BY <2>2, <2>3 DEF RacesInv
<1>4. ASSUME NEW r \in inFlight, RaceWrites(r)
      PROVE  RacesInv'
  <2>1. inFlight' \subseteq inFlight
    BY <1>4 DEF RaceWrites, StartWrites, UpdateWrites, UpsertWrites, Fail, End
  <2>2. CASE r.op = "start" /\ StartWrites(r)
    BY <2>1, <2>2, StartWritesSound DEF RacesInv
  <2>3. CASE r.op = "update" /\ UpdateWrites(r)
    <3>1. TablesSound'
      BY <1>1, <2>3, UpdateWritesSound DEF RacesInv, RequestSound
    <3>2. UNCHANGED <<assignment, sessions, now>>
      BY <2>3 DEF UpdateWrites, workVars
    <3> QED BY <2>1, <3>1, <3>2, RequestsApart DEF RacesInv
  <2>4. CASE r.op = "upsert" /\ UpsertWrites(r)
    <3>1. TablesSound'
      BY <1>1, <2>4, UpsertWritesSound DEF RacesInv, RequestSound
    <3>2. UNCHANGED <<assignment, sessions, now>>
      BY <2>4 DEF UpsertWrites, Fail, workVars, vars
    <3> QED BY <2>1, <3>1, <3>2, RequestsApart DEF RacesInv
  <2> QED BY <1>4, <2>2, <2>3, <2>4 DEF RaceWrites
<1>5. CASE UNCHANGED raceVars
  <2>1. [Next]_vars /\ UNCHANGED inFlight /\ now' = now
    BY <1>5 DEF raceVars, vars
  <2> QED BY <1>2, <2>1
<1> QED BY <1>2, <1>3, <1>4, <1>5 DEF RaceNext

\* RacesInv always holds.
LEMMA RacesAlways == RaceSpec => []RacesInv
BY RacesInit, RacesStep, PTL DEF RaceSpec

\* However starts, edits of a draft and of its contract overlap with other requests, work and its
\* disputes agree, and what is approved is paid once (start_assignment, update_campaign,
\* upsert_contract).
THEOREM EvidenceRacesTheorem == RaceSpec => []EvidenceSurvivesRaces
<1>1. ASSUME RacesInv PROVE EvidenceSurvivesRaces
  <2>1. WorkSound /\ PaidOnce
    BY <1>1 DEF RacesInv, TablesSound
  <2>2. LatestSubmissionDecides
    BY <2>1 DEF WorkSound, VersionsAgree, Agree, LatestSubmissionDecides, Versions, Latest, Settled
  <2>3. DisputeMatchesWork
    BY <2>1 DEF WorkSound, DisputeAgrees, DisputeMatchesWork, Versions
  <2> QED BY <2>1, <2>2, <2>3 DEF PaidOnce, EvidenceSurvivesRaces
<1> QED BY <1>1, RacesAlways, PTL

\* However they overlap, a campaign is out of its draft exactly when its contract is locked and its
\* posting paid, once.
THEOREM PublicationRacesTheorem == RaceSpec => []PublicationSurvivesRaces
<1>1. ASSUME RacesInv PROVE PublicationSurvivesRaces
  <2> SUFFICES ASSUME NEW c \in Campaigns
               PROVE  LET published == campaign[c].status \notin {"none", "draft"}
                      IN  /\ contract[c].status = "locked" <=> published
                          /\ Cardinality({e \in ledger : e.key = PostingKey(c)})
                               = IF published THEN 1 ELSE 0
    BY DEF PublicationSurvivesRaces
  <2> DEFINE entries == {e \in ledger : e.key = PostingKey(c)}
  <2>1. PublicationSound /\ PaidOnce
    BY <1>1 DEF RacesInv, TablesSound
  <2>2. CASE Drafted(c)
    <3>1. entries = {} /\ contract[c].status # "locked"
      BY <2>1, <2>2 DEF PublicationSound, Posted
    <3>2. Cardinality(entries) = 0
      BY <3>1, FS_EmptySet
    <3> QED BY <2>2, <3>1, <3>2 DEF Drafted
  <2>3. CASE ~Drafted(c)
    <3>1. Posted(PostingKey(c)) /\ contract[c].status = "locked"
      BY <2>1, <2>3 DEF PublicationSound
    <3>2. PICK e \in ledger : e.key = PostingKey(c)
      BY <3>1 DEF Posted
    <3>3. entries = {e}
      BY <2>1, <3>2 DEF PaidOnce
    <3>4. Cardinality(entries) = 1
      BY <3>3, FS_Singleton
    <3> QED BY <2>3, <3>1, <3>4 DEF Drafted
  <2> QED BY <2>2, <2>3
<1> QED BY <1>1, RacesAlways, PTL
=============================================================================
