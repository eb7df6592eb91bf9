------------------------- MODULE BetaAdmissionProofs -------------------------
(***************************************************************************)
(* The seats of the beta are counted right and never exceeded, for any     *)
(* identities, usernames, threads and size of the cohort.                  *)
(***************************************************************************)
EXTENDS BetaAdmission, FiniteSetTheorems, TLAPS

\* What a request has read is still so when it writes: the profiles are as many as it has seen,
\* below the limit when it inserts, and the one that it updates is there.
Fresh ==
    \A r \in Requests :
        /\ At(r, "insert") \/ (At(r, "seed") /\ seats = Absent) =>
              request[r].seen = Cardinality(Members)
        /\ At(r, "update") => request[r].user \in Members
        /\ At(r, "insert") => request[r].seen < MaxUsers

BetaInv == BetaTypeOK /\ SeatsCounted /\ Fresh

-----------------------------------------------------------------------------
\* A request has the fields that its place calls for.
LEMMA Fields ==
    ASSUME BetaTypeOK, NEW r \in Requests
    PROVE  /\ At(r, "admit") \/ At(r, "update") \/ At(r, "seed") \/ At(r, "insert") =>
                request[r].user \in Users /\ request[r].name \in Names
           /\ At(r, "seed") \/ At(r, "insert") => request[r].seen \in Nat
           /\ At(r, "join") => request[r].email \in Emails
<1>1. request[r] \in Request
  BY DEF BetaTypeOK
<1>2. CASE request[r] \in {Idle}
  BY <1>2 DEF Idle, At
<1>3. CASE request[r] \in [at : {"admit", "update"}, user : Users, name : Names]
  BY <1>3 DEF At
<1>4. CASE request[r] \in [at : {"seed", "insert"}, user : Users, name : Names, seen : Nat]
  BY <1>4 DEF At
<1>5. CASE request[r] \in [at : {"join"}, email : Emails]
  BY <1>5 DEF At
<1> QED
  BY <1>1, <1>2, <1>3, <1>4, <1>5 DEF Request

\* The profiles are finitely many.
LEMMA MembersFinite == IsFiniteSet(Members) /\ Cardinality(Members) \in Nat
<1>1. Members \subseteq Users
  BY DEF Members
<1> QED
  BY <1>1, NamesAssumption, FS_Subset, FS_CardinalityType

\* A thread that moves on leaves the others where they are.
LEMMA GoMovesOne ==
    ASSUME BetaTypeOK, NEW r \in Requests, NEW record \in Request, Go(r, record)
    PROVE  /\ request' \in [Requests -> Request]
           /\ request'[r] = record
           /\ \A q \in Requests \ {r} : request'[q] = request[q]
  BY DEF BetaTypeOK, Go

\* The records that a request may be given are requests.
LEMMA RecordsAreRequests ==
    /\ Idle \in Request
    /\ \A place \in {"admit", "update"}, u \in Users, name \in Names :
          [at |-> place, user |-> u, name |-> name] \in Request
    /\ \A place \in {"seed", "insert"}, u \in Users, name \in Names, n \in Nat :
          [at |-> place, user |-> u, name |-> name, seen |-> n] \in Request
    /\ \A e \in Emails : [at |-> "join", email |-> e] \in Request
  BY DEF Request

-----------------------------------------------------------------------------
\* Admit, from the row or from the count of the fallback, goes on with a number that is right.
LEMMA AdmitStep ==
    ASSUME BetaInv, NEW r \in Requests, NEW claimed \in Nat,
           At(r, "admit") \/ At(r, "seed"), RowFree, Admit(r, claimed),
           claimed = Cardinality(Members),
           UNCHANGED <<profile, seats, waitlist, told>>
    PROVE  BetaInv'
<1> USE DEF BetaInv
<1>1. request[r].user \in Users /\ request[r].name \in Names
  BY Fields
<1>2. Members' = Members
  BY DEF Members
<1>3. CASE Full(claimed) /\ End(r) /\ UNCHANGED holder
  <2>1. /\ request' \in [Requests -> Request]
        /\ request'[r] = Idle
        /\ \A q \in Requests \ {r} : request'[q] = request[q]
    BY <1>3, GoMovesOne, RecordsAreRequests DEF End
  <2>2. \A q \in Requests : ~At(q, "insert")
    BY RequestsAssumption DEF BetaTypeOK, RowFree
  <2>3. BetaTypeOK'
    BY <1>3, <2>1, <2>2 DEF BetaTypeOK, At, Idle
  <2> QED
    BY <1>2, <2>1, <2>3 DEF SeatsCounted, Fresh, At, Idle
<1>4. CASE /\ ~Full(claimed)
           /\ Go(r, [at |-> "insert", user |-> request[r].user, name |-> request[r].name,
                     seen |-> claimed])
           /\ holder' = r
  <2> DEFINE new == [at |-> "insert", user |-> request[r].user, name |-> request[r].name,
                     seen |-> claimed]
  <2>1. /\ request' \in [Requests -> Request]
        /\ request'[r] = new
        /\ \A q \in Requests \ {r} : request'[q] = request[q]
    BY <1>1, <1>4, GoMovesOne, RecordsAreRequests
  <2>2. \A q \in Requests : ~At(q, "insert")
    BY RequestsAssumption DEF BetaTypeOK, RowFree
  <2>3. BetaTypeOK'
    BY <1>4, <2>1, <2>2 DEF BetaTypeOK, At
  <2> QED
    BY <1>2, <1>4, <2>1, <2>3, MaxUsersAssumption DEF SeatsCounted, Fresh, At, Full
<1> QED
  BY <1>3, <1>4 DEF Admit

\* A step of a request that leaves the profiles, the row and its lock alone and does not go to
\* the row keeps the invariant.
LEMMA AsideStep ==
    ASSUME BetaInv, NEW r \in Requests, NEW record \in Request, Go(r, record),
           record.at \notin {"seed", "insert"}, ~At(r, "insert"),
           record.at = "update" => record.user \in Members,
           profile' \in [Users -> Names \cup {NoName}], Members' = Members,
           waitlist' \in [Emails -> Requests \cup {NoRequest}],
           told' \subseteq Emails \X Requests,
           UNCHANGED <<seats, holder>>
    PROVE  BetaInv'
<1>1. /\ request' \in [Requests -> Request]
      /\ request'[r] = record
      /\ \A q \in Requests \ {r} : request'[q] = request[q]
  BY GoMovesOne DEF BetaInv
<1>2. BetaTypeOK'
  BY <1>1 DEF BetaInv, BetaTypeOK, At
<1> QED
  BY <1>1, <1>2 DEF BetaInv, SeatsCounted, Fresh, At

\* The first reads send the request on its way.
LEMMA SignUpStep ==
    ASSUME BetaInv, NEW r \in Requests, NEW u \in Users, NEW name \in Names, SignUp(r, u, name)
    PROVE  BetaInv'
<1> DEFINE record == [at |-> IF u \in Members THEN "update" ELSE "admit",
                      user |-> u, name |-> name]
<1>1. /\ record \in Request /\ record.at \in {"update", "admit"}
      /\ record.at = "update" => record.user \in Members
  BY RecordsAreRequests
<1>2. Go(r, record) /\ At(r, "idle") /\ UNCHANGED <<profile, seats, holder, waitlist, told>>
  BY DEF SignUp
<1>3. Members' = Members
  BY <1>2 DEF Members
<1> HIDE DEF record
<1> QED
  BY <1>1, <1>2, <1>3, AsideStep DEF BetaInv, BetaTypeOK, At

\* An update renames a profile and makes none.
LEMMA UpdateStep ==
    ASSUME BetaInv, NEW r \in Requests, Update(r)
    PROVE  BetaInv' /\ Members' = Members
<1>1. /\ request[r].user \in Users /\ request[r].name \in Names /\ At(r, "update")
      /\ request[r].user \in Members
  BY Fields DEF Update, BetaInv, Fresh
<1>2. Go(r, Idle) /\ UNCHANGED <<seats, holder, waitlist, told>>
  BY DEF Update, End
<1>3. \/ UNCHANGED profile
      \/ profile' = [profile EXCEPT ![request[r].user] = request[r].name]
  BY DEF Update
<1>4. profile' \in [Users -> Names \cup {NoName}]
  BY <1>1, <1>3 DEF BetaInv, BetaTypeOK
<1>5. Members' = Members
  BY <1>1, <1>3, NamesAssumption DEF BetaInv, BetaTypeOK, Members
<1>6. Idle \in Request /\ Idle.at = "idle"
  BY RecordsAreRequests DEF Idle
<1> QED
  BY <1>1, <1>2, <1>4, <1>5, <1>6, AsideStep DEF BetaInv, BetaTypeOK, At

\* The singleton row, when there is one, tells the number of the profiles; the fallback counts them.
LEMMA LockRowStep ==
    ASSUME BetaInv, NEW r \in Requests, LockRow(r)
    PROVE  BetaInv' /\ Members' = Members
<1>1. /\ At(r, "admit") /\ UNCHANGED <<profile, seats, waitlist, told>>
      /\ request[r].user \in Users /\ request[r].name \in Names
  BY Fields DEF LockRow, BetaInv
<1>2. Members' = Members
  BY <1>1 DEF Members
<1>3. CASE seats # Absent /\ RowFree /\ Admit(r, seats)
  <2>1. seats \in Nat /\ seats = Cardinality(Members)
    BY <1>3 DEF BetaInv, BetaTypeOK, SeatsCounted
  <2> QED
    BY <1>1, <1>2, <1>3, <2>1, AdmitStep
<1>4. CASE /\ seats = Absent
           /\ Go(r, [at |-> "seed", user |-> request[r].user, name |-> request[r].name,
                     seen |-> Cardinality(Members)])
           /\ UNCHANGED holder
  <2> DEFINE new == [at |-> "seed", user |-> request[r].user, name |-> request[r].name,
                     seen |-> Cardinality(Members)]
  <2>1. new \in Request
    BY <1>1, MembersFinite, RecordsAreRequests
  <2>2. /\ request' \in [Requests -> Request]
        /\ request'[r] = new
        /\ \A q \in Requests \ {r} : request'[q] = request[q]
    BY <1>4, <2>1, GoMovesOne DEF BetaInv
  <2>3. new.at = "seed" /\ new.seen = Cardinality(Members)
    OBVIOUS
  <2> HIDE DEF new
  <2>4. BetaTypeOK'
    BY <1>1, <1>4, <2>2, <2>3 DEF BetaInv, BetaTypeOK, At
  <2> QED
    BY <1>1, <1>2, <2>2, <2>3, <2>4 DEF BetaInv, SeatsCounted, Fresh, At
<1> QED
  BY <1>2, <1>3, <1>4 DEF LockRow

\* The fallback goes on with its count only while there is no row, or fails.
LEMMA SeedRowStep ==
    ASSUME BetaInv, NEW r \in Requests, SeedRow(r)
    PROVE  BetaInv' /\ Members' = Members
<1>1. At(r, "seed") /\ UNCHANGED <<profile, seats, waitlist, told>>
  BY DEF SeedRow
<1>2. Members' = Members
  BY <1>1 DEF Members
<1>3. CASE seats # Absent /\ End(r) /\ UNCHANGED holder
  <2>1. Idle \in Request /\ Idle.at = "idle" /\ Go(r, Idle)
    BY <1>3, RecordsAreRequests DEF Idle, End
  <2> QED
    BY <1>1, <1>2, <1>3, <2>1, AsideStep DEF BetaInv, BetaTypeOK, At
<1>4. CASE seats = Absent /\ RowFree /\ Admit(r, request[r].seen)
  <2>1. request[r].seen \in Nat /\ request[r].seen = Cardinality(Members)
    BY <1>1, <1>4, Fields DEF BetaInv, Fresh
  <2> QED
    BY <1>1, <1>2, <1>4, <2>1, AdmitStep
<1> QED
  BY <1>2, <1>3, <1>4 DEF SeedRow

\* The insertion adds one profile to those counted, below the limit, or none.
LEMMA InsertProfileStep ==
    ASSUME BetaInv, NEW r \in Requests, InsertProfile(r)
    PROVE  /\ BetaInv'
           /\ Members' # Members => Cardinality(Members') = request[r].seen + 1
<1> DEFINE u == request[r].user
<1>1. /\ At(r, "insert") /\ u \in Users /\ request[r].name \in Names
      /\ request[r].seen = Cardinality(Members) /\ request[r].seen \in Nat
      /\ holder = r
  BY Fields DEF InsertProfile, BetaInv, BetaTypeOK, Fresh
<1>2. Go(r, Idle) /\ holder' = NoRequest /\ UNCHANGED <<waitlist, told>>
  BY DEF InsertProfile, End
<1>3. /\ request' \in [Requests -> Request]
      /\ request'[r] = Idle
      /\ \A q \in Requests \ {r} : request'[q] = request[q]
  BY <1>2, GoMovesOne, RecordsAreRequests DEF BetaInv
<1>4. \A q \in Requests : ~At(q, "insert")'
  BY <1>1, <1>3 DEF BetaInv, BetaTypeOK, At, Idle
<1>5. CASE Rejected(r)
  <2>1. UNCHANGED <<profile, seats>>
    BY <1>5 DEF InsertProfile
  <2>2. Members' = Members
    BY <2>1 DEF Members
  <2>3. BetaTypeOK'
    BY <1>2, <1>3, <1>4, <2>1, RequestsAssumption DEF BetaInv, BetaTypeOK
  <2> QED
    BY <1>3, <2>1, <2>2, <2>3 DEF BetaInv, SeatsCounted, Fresh, At, Idle
<1>6. CASE ~Rejected(r)
  <2>1. /\ u \notin Members
        /\ profile' = [profile EXCEPT ![u] = request[r].name]
        /\ seats' = request[r].seen + 1
    BY <1>6 DEF InsertProfile, Rejected
  <2>2. Members' = Members \cup {u}
    BY <1>1, <2>1, NamesAssumption DEF BetaInv, BetaTypeOK, Members
  <2>3. Cardinality(Members') = request[r].seen + 1
    BY <1>1, <2>1, <2>2, MembersFinite, FS_AddElement
  <2>4. BetaTypeOK'
    BY <1>1, <1>2, <1>3, <1>4, <2>1, RequestsAssumption DEF BetaInv, BetaTypeOK
  <2>5. SeatsCounted'
    BY <2>1, <2>3 DEF SeatsCounted
  <2>6. seats' # Absent
    BY <1>1, <2>1 DEF Absent
  <2>7. Fresh'
    BY <1>3, <1>4, <2>2, <2>6 DEF BetaInv, Fresh, At, Idle
  <2> QED
    BY <2>3, <2>4, <2>5, <2>7 DEF BetaInv
<1> QED
  BY <1>5, <1>6

\* The waitlist has no part in the admission.
LEMMA WaitlistStep ==
    ASSUME BetaInv, NEW r \in Requests,
           Join(r) \/ \E e \in Emails : LookUp(r, e)
    PROVE  BetaInv' /\ Members' = Members
<1>1. Idle \in Request /\ Idle.at = "idle"
  BY RecordsAreRequests DEF Idle
<1>2. ASSUME Join(r) PROVE BetaInv' /\ Members' = Members
  <2>1. request[r].email \in Emails /\ At(r, "join")
    BY <1>2, Fields DEF Join, BetaInv
  <2>2. /\ Go(r, Idle) /\ UNCHANGED <<profile, seats, holder>>
        /\ waitlist' \in [Emails -> Requests \cup {NoRequest}]
        /\ waitlist'[request[r].email] \in Requests
    BY <1>2, <2>1 DEF Join, End, BetaInv, BetaTypeOK
  <2>3. told' \subseteq Emails \X Requests
    BY <1>2, <2>1, <2>2 DEF Join, Tell, BetaInv, BetaTypeOK
  <2>4. Members' = Members
    BY <2>2 DEF Members
  <2> QED
    BY <1>1, <2>1, <2>2, <2>3, <2>4, AsideStep DEF BetaInv, BetaTypeOK, At
<1>3. ASSUME NEW e \in Emails, LookUp(r, e) PROVE BetaInv' /\ Members' = Members
  <2> DEFINE record == IF waitlist[e] # NoRequest THEN Idle ELSE [at |-> "join", email |-> e]
  <2>1. record \in Request /\ record.at \in {"idle", "join"}
    BY <1>1, RecordsAreRequests
  <2>2. Go(r, record) /\ At(r, "idle") /\ UNCHANGED <<profile, seats, holder, waitlist>>
    BY <1>3 DEF LookUp, End
  <2>3. told' \subseteq Emails \X Requests
    BY <1>3 DEF LookUp, Tell, BetaInv, BetaTypeOK
  <2>4. Members' = Members
    BY <2>2 DEF Members
  <2> HIDE DEF record
  <2> QED
    BY <2>1, <2>2, <2>3, <2>4, AsideStep DEF BetaInv, BetaTypeOK, At
<1> QED
  BY <1>2, <1>3

-----------------------------------------------------------------------------
\* Every step keeps the invariant, and only an insertion changes who is a member.
LEMMA BetaStep ==
    ASSUME BetaInv, [BetaNext]_betaVars
    PROVE  /\ BetaInv'
           /\ Members' # Members =>
                \E r \in Requests : At(r, "insert") /\ Cardinality(Members') = request[r].seen + 1
<1>1. CASE UNCHANGED betaVars
  BY <1>1 DEF betaVars, BetaInv, BetaTypeOK, SeatsCounted, Fresh, Members, At
<1>2. ASSUME NEW r \in Requests, NEW u \in Users, NEW name \in Names, SignUp(r, u, name)
      PROVE  BetaInv' /\ Members' = Members
  BY <1>2, SignUpStep DEF SignUp, Members
<1>3. ASSUME NEW r \in Requests, InsertProfile(r)
      PROVE  /\ BetaInv'
             /\ Members' # Members => At(r, "insert") /\ Cardinality(Members') = request[r].seen + 1
  BY <1>3, InsertProfileStep DEF InsertProfile
<1> QED
  BY <1>1, <1>2, <1>3, UpdateStep, LockRowStep, SeedRowStep, WaitlistStep
  DEF BetaNext, Begin, Proceed

\* The invariant holds at the start, with the row seeded or missing.
LEMMA BetaStart == BetaInit => BetaInv
<1> SUFFICES ASSUME BetaInit PROVE BetaInv
  OBVIOUS
<1>1. \A r \in Requests : request[r] = Idle /\ Idle \in Request
  BY RecordsAreRequests DEF BetaInit
<1>2. BetaTypeOK
  BY <1>1, MembersFinite, RequestsAssumption DEF BetaInit, BetaTypeOK, At, Idle
<1> QED
  BY <1>1, <1>2 DEF BetaInit, BetaInv, SeatsCounted, Fresh, At, Idle

\* The singleton row counts the profiles, whichever requests race for it.
THEOREM SeatsTheorem == BetaSpec => []SeatsCounted
<1>1. BetaInv => SeatsCounted
  BY DEF BetaInv
<1> QED
  BY <1>1, BetaStart, BetaStep, PTL DEF BetaSpec

\* However many requests race for the last seat, nobody is admitted beyond the cohort.
THEOREM CohortTheorem == BetaSpec => CohortRespected
<1>1. BetaInv /\ [BetaNext]_betaVars =>
        [Members' # Members => Cardinality(Members') <= MaxUsers]_betaVars
  <2> SUFFICES ASSUME BetaInv, [BetaNext]_betaVars, Members' # Members
               PROVE  Cardinality(Members') <= MaxUsers
    OBVIOUS
  <2>1. PICK r \in Requests : At(r, "insert") /\ Cardinality(Members') = request[r].seen + 1
    BY BetaStep
  <2>2. request[r].seen \in Nat /\ request[r].seen < MaxUsers
    BY <2>1, Fields DEF BetaInv, Fresh
  <2> QED
    BY <2>1, <2>2, MaxUsersAssumption
<1> QED
  BY <1>1, BetaStart, BetaStep, PTL DEF BetaSpec, CohortRespected

\* A request that is turned away before it inserts has found the cohort full.
LEMMA TurnedAway ==
    ASSUME BetaInv, BetaNext, NEW r \in Requests, At(r, "idle")',
           At(r, "admit") \/ (At(r, "seed") /\ seats = Absent)
    PROVE  Cardinality(Members) >= MaxUsers
<1>1. request \in [Requests -> Request]
  BY DEF BetaInv, BetaTypeOK
<1>2. PICK q \in Requests : Begin(q) \/ Proceed(q)
  BY DEF BetaNext
<1>3. \E record : Go(q, record)
  BY <1>2 DEF Begin, Proceed, SignUp, LookUp, Update, LockRow, SeedRow, Admit, InsertProfile, Join, End
<1>4. q = r
  BY <1>1, <1>3 DEF Go, At
<1>5. ASSUME NEW claimed, Admit(r, claimed) PROVE Full(claimed)
  <2>1. CASE Full(claimed)
    BY <2>1
  <2>2. CASE ~Full(claimed)
    <3>1. request'[r].at = "insert"
      BY <1>1, <1>5, <2>2 DEF Admit, Go
    <3> QED
      BY <3>1 DEF At
  <2> QED
    BY <2>1, <2>2
<1>6. LockRow(r) \/ SeedRow(r)
  BY <1>2, <1>4 DEF Begin, Proceed, SignUp, LookUp, Update, InsertProfile, Join, At
<1>7. CASE LockRow(r)
  <2>1. seats # Absent /\ Admit(r, seats)
    <3>1. CASE seats = Absent
      <4>1. request'[r].at = "seed"
        BY <1>1, <1>7, <3>1 DEF LockRow, Go
      <4> QED
        BY <4>1 DEF At
    <3> QED
      BY <1>7, <3>1 DEF LockRow
  <2> QED
    BY <1>5, <2>1 DEF Full, BetaInv, SeatsCounted
<1>8. CASE SeedRow(r)
  <2>1. seats = Absent /\ At(r, "seed") /\ Admit(r, request[r].seen)
    BY <1>8 DEF SeedRow, At
  <2> QED
    BY <1>5, <2>1 DEF Full, BetaInv, Fresh
<1> QED
  BY <1>6, <1>7, <1>8

\* "Full" is only answered when the cohort is full (upsert_profile): no seat is withheld for a
\* request that may yet fail.
THEOREM FullTheorem == BetaSpec => FullIsTrue
<1>1. BetaInv /\ [BetaNext]_betaVars =>
        [\A r \in Requests :
           At(r, "idle")' /\ (At(r, "admit") \/ (At(r, "seed") /\ seats = Absent)) =>
              Cardinality(Members) >= MaxUsers]_betaVars
  BY TurnedAway
<1> QED
  BY <1>1, BetaStart, BetaStep, PTL DEF BetaSpec, FullIsTrue

-----------------------------------------------------------------------------
\* The types, and that the row is held by the one request that is about to insert.
THEOREM BetaTypeCorrect == BetaSpec => []BetaTypeOK
<1>1. BetaInv => BetaTypeOK
  BY DEF BetaInv
<1> QED
  BY <1>1, BetaStart, BetaStep, PTL DEF BetaSpec

\* An entry that was told to a client stays: only an address without an entry is given one.
LEMMA WaitlistKept ==
    ASSUME BetaInv, WaitlistIdempotent, [BetaNext]_betaVars
    PROVE  WaitlistIdempotent'
<1>1. \A t \in told : t[1] \in Emails /\ waitlist[t[1]] = t[2] /\ t[2] # NoRequest
  BY RequestsAssumption DEF BetaInv, BetaTypeOK, WaitlistIdempotent
<1>2. CASE UNCHANGED <<waitlist, told>>
  BY <1>1, <1>2 DEF WaitlistIdempotent
<1>3. ASSUME NEW r \in Requests, NEW e \in Emails, LookUp(r, e) PROVE WaitlistIdempotent'
  <2>1. waitlist' = waitlist /\ (told' = told \/ told' = told \cup {<<e, waitlist[e]>>})
    BY <1>3 DEF LookUp, Tell
  <2> QED
    BY <1>1, <2>1 DEF WaitlistIdempotent
<1>4. ASSUME NEW r \in Requests, Join(r) PROVE WaitlistIdempotent'
  <2> DEFINE e == request[r].email
  <2>1. e \in Emails
    BY <1>4, Fields DEF Join, BetaInv
  <2>2. /\ waitlist' = [waitlist EXCEPT ![e] = IF @ = NoRequest THEN r ELSE @]
        /\ told' = told \cup {<<e, waitlist'[e]>>}
    BY <1>4 DEF Join, Tell
  <2>3. waitlist \in [Emails -> Requests \cup {NoRequest}]
    BY DEF BetaInv, BetaTypeOK
  <2>4. \A t \in told : waitlist'[t[1]] = waitlist[t[1]]
    BY <1>1, <2>1, <2>2, <2>3
  <2> HIDE DEF e
  <2> QED
    BY <1>1, <2>2, <2>4 DEF WaitlistIdempotent
<1>5. UNCHANGED <<waitlist, told>> \/ \E r \in Requests : Join(r) \/ \E e \in Emails : LookUp(r, e)
  BY DEF BetaNext, Begin, Proceed, SignUp, Update, LockRow, SeedRow, InsertProfile, betaVars
<1> QED
  BY <1>2, <1>3, <1>4, <1>5

\* Whoever asks for an address is told of the same entry as everybody before.
THEOREM WaitlistTheorem == BetaSpec => []WaitlistIdempotent
<1>1. BetaInit => WaitlistIdempotent
  BY DEF BetaInit, WaitlistIdempotent
<1> QED
  BY <1>1, BetaStart, BetaStep, WaitlistKept, PTL DEF BetaSpec
=============================================================================
