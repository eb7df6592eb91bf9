--------------------------- MODULE ExchangeRaces ---------------------------
(***************************************************************************)
(* The exchange with the three requests that check a row without locking   *)
(* it: start_assignment, update_campaign and upsert_contract load their    *)
(* row with db.get or a plain SELECT, and write at the flush what they     *)
(* decided then.  READ COMMITTED lets any other request commit in between, *)
(* and the UPDATE, which only names the primary key and the columns that   *)
(* differ from what was loaded, overwrites it.                             *)
(*                                                                         *)
(* A request under way is a record of what it has read and means to write. *)
(* It ends within the clock tick it began in.                              *)
(***************************************************************************)
EXTENDS Exchange

CONSTANTS
    Racing,         \* the operations of {"start", "update", "upsert"} run in two steps
    MaxInFlight     \* bound: requests under way at the same time

VARIABLE inFlight   \* requests that have read and not yet written

raceVars == <<vars, inFlight>>

ASSUME RaceAssumption == Racing \subseteq {"start", "update", "upsert"} /\ MaxInFlight \in Nat

RaceInit == Init /\ inFlight = {}

Begin(request) ==
    /\ request.op \in Racing
    /\ Cardinality(inFlight) < MaxInFlight
    /\ inFlight' = inFlight \cup {request}
    /\ UNCHANGED vars

End(request) == inFlight' = inFlight \ {request}

\* A unique constraint or another error rolls the request back.
Fail(request) == End(request) /\ UNCHANGED vars

-----------------------------------------------------------------------------
(* start_assignment *)

StartReads(t, c) ==
    /\ Authenticated(t)
    /\ Row(c, t).status = "accepted"
    /\ Begin([op |-> "start", tester |-> t, campaign |-> c, day |-> Today])

StartWrites_NoUniqueDay(r) ==
    LET c == r.campaign  t == r.tester
    IN  /\ End(r)
        /\ assignment' = Put(assignment, c, t,
                             [Row(c, t) EXCEPT !.status = "in_progress", !.started_at = now])
        /\ sessions' = Put(sessions, c, t, sessions[c][t] \cup {r.day})
        /\ AddAuditEvents({Audited(t, "assignment.started", <<c, t>>)})
        /\ UNCHANGED <<campaignVars, creditVars, submissions, dispute, notifications,
                       suspended, now>>

StartWrites(r) ==
    LET c == r.campaign  t == r.tester
    IN  \/ /\ r.day \in sessions[c][t]
           /\ Fail(r)
        \/ /\ r.day \notin sessions[c][t]
           /\ End(r)
           /\ assignment' = Put(assignment, c, t,
                                [Row(c, t) EXCEPT !.status = "in_progress", !.started_at = now])
           /\ sessions' = Put(sessions, c, t, sessions[c][t] \cup {r.day})
           /\ AddAuditEvents({Audited(t, "assignment.started", <<c, t>>)})
           /\ UNCHANGED <<campaignVars, creditVars, submissions, dispute, notifications,
                          suspended, now>>

-----------------------------------------------------------------------------
(* update_campaign *)

UpdateReads(u, c, target, reward) ==
    /\ Authenticated(u)
    /\ Owns(u, c)
    /\ campaign[c].status = "draft"
    /\ Begin([op |-> "update", owner |-> u, campaign |-> c, seen |-> campaign[c],
              target |-> target, reward |-> reward])

\* The column is written only when the request changes the value it has loaded.
Written(loaded, wanted, current) == IF wanted # loaded THEN wanted ELSE current

UpdateWrites_WholeRow(r) ==
    LET c == r.campaign
    IN  /\ End(r)
        /\ campaign' = [campaign EXCEPT ![c] =
                          [r.seen EXCEPT !.target = r.target, !.reward = r.reward]]
        /\ AddAuditEvents({Audited(r.owner, "campaign.updated", c)})
        /\ UNCHANGED <<contract, workVars, creditVars, dispute, notifications, suspended, now>>

UpdateWrites(r) ==
    LET c == r.campaign
    IN  /\ End(r)
        /\ campaign' = [campaign EXCEPT ![c].target = Written(r.seen.target, r.target, @),
                                        ![c].reward = Written(r.seen.reward, r.reward, @)]
        /\ AddAuditEvents({Audited(r.owner, "campaign.updated", c)})
        /\ UNCHANGED <<contract, workVars, creditVars, dispute, notifications, suspended, now>>

-----------------------------------------------------------------------------
(* upsert_contract *)

UpsertReads(u, c, terms) ==
    /\ Authenticated(u)
    /\ Owns(u, c)
    /\ campaign[c].status = "draft"
    /\ contract[c].status # "locked"
    /\ Begin([op |-> "upsert", owner |-> u, campaign |-> c, seen |-> contract[c],
              terms |-> terms])

\* The first contract of a campaign is inserted (its campaign_id is unique); a later one is
\* written column by column, and its status, which the request does not touch, stays as it is.
UpsertWrites(r) ==
    LET c == r.campaign
        merged == [f \in DOMAIN r.terms |->
                     Written(r.seen.terms[f], r.terms[f], contract[c].terms[f])]
    IN  \/ /\ r.seen.status = "none"
           /\ contract[c].status # "none"
           /\ Fail(r)
        \/ /\ r.seen.status = "none" => contract[c].status = "none"
           /\ End(r)
           /\ contract' = [contract EXCEPT ![c] =
                IF r.seen.status = "none" THEN [status |-> "draft", terms |-> r.terms]
                                          ELSE [@ EXCEPT !.terms = merged]]
           /\ AddAuditEvents({Audited(r.owner, "contract.saved", c)})
           /\ UNCHANGED <<campaign, workVars, creditVars, dispute, notifications, suspended, now>>

-----------------------------------------------------------------------------
RaceReads(u, c) ==
    \/ StartReads(u, c)
    \/ \E target \in Targets, reward \in Rewards : UpdateReads(u, c, target, reward)
    \/ \E terms \in Terms : UpsertReads(u, c, terms)

RaceWrites(r) ==
    \/ r.op = "start"  /\ StartWrites(r)
    \/ r.op = "update" /\ UpdateWrites(r)
    \/ r.op = "upsert" /\ UpsertWrites(r)

RaceNext ==
    \/ /\ Next
       /\ now' # now => inFlight = {}
       /\ UNCHANGED inFlight
    \/ \E u \in Users, c \in Campaigns : RaceReads(u, c)
    \/ \E r \in inFlight : RaceWrites(r)

RaceSpec == RaceInit /\ [][RaceNext]_raceVars

-----------------------------------------------------------------------------
\* A second start, or one that a withdrawal overtakes, never disturbs evidence, its review or
\* its dispute, and approved work is paid, once, and no other: the unique testing session of the
\* day turns the second start away.
EvidenceSurvivesRaces ==
    /\ LatestSubmissionDecides
    /\ DisputeMatchesWork
    /\ \A e, f \in ledger : e.key = f.key => e = f
    /\ \A c \in Campaigns, t \in Users :
         Row(c, t).status = "approved" <=> Posted(RewardKey(c, t))

\* An edit of the draft that ends after the publication leaves the campaign published, its contract
\* locked and its posting paid once: of the row it loaded it writes no more than it changed.
PublicationSurvivesRaces ==
    \A c \in Campaigns :
        LET published == campaign[c].status \notin {"none", "draft"}
        IN  /\ contract[c].status = "locked" <=> published
            /\ Cardinality({e \in ledger : e.key = PostingKey(c)}) = IF published THEN 1 ELSE 0

\* "The database and service layer enforce these transitions" (docs/backend-guide.md, Testing
\* workflow): an assignment only moves along the documented lifecycle.
TransitionsEnforced ==
    [][\A c \in Campaigns, t \in Users :
          [Lifecycle(c, t)!LifecycleNext]_<<Row(c, t).status, Posted(RewardKey(c, t))>>]_raceVars
=============================================================================
