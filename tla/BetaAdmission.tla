---------------------------- MODULE BetaAdmission ----------------------------
(***************************************************************************)
(* Signing up for the public beta (upsert_profile in                       *)
(* app/services/profiles.py) and its waitlist, with the requests           *)
(* interleaved as READ COMMITTED transactions.                             *)
(*                                                                         *)
(* A request is split where another one's commit can make a difference:    *)
(* after its first reads, at the row it has to lock, and at its writes,    *)
(* which commit with it.  A request that is refused by its first reads,    *)
(* or while registration is paused, has no effect and is no step.  The     *)
(* credit account and the signup grant are written with the profile.       *)
(***************************************************************************)
EXTENDS Integers, FiniteSets

CONSTANTS
    Users,          \* identities that may sign up
    Names,          \* usernames, unique over the profiles
    NoName,         \* an identity without a profile
    Emails,         \* addresses put on the waitlist
    Requests,       \* request threads
    NoRequest,      \* no lock holder; no waitlist entry
    MaxUsers        \* settings.public_beta_max_users

ASSUME NamesAssumption == NoName \notin Names /\ IsFiniteSet(Users)
ASSUME RequestsAssumption == NoRequest \notin Requests
ASSUME MaxUsersAssumption == MaxUsers \in Nat

VARIABLES
    profile,    \* profiles: the username of each identity that has one
    seats,      \* beta_program_state.claimed_seats, or Absent
    holder,     \* the request whose transaction has locked or inserted that row
    waitlist,   \* waitlist_entries: the request that made the entry of an address
    request,    \* what each thread is doing, with what it has read
    told        \* waitlist entries told to clients

betaVars == <<profile, seats, holder, waitlist, request, told>>

Absent == -1
Members == {u \in Users : profile[u] # NoName}

Idle == [at |-> "idle"]
Request ==
    {Idle}
      \cup [at : {"admit", "update"}, user : Users, name : Names]
      \cup [at : {"seed", "insert"}, user : Users, name : Names, seen : Nat]
      \cup [at : {"join"}, email : Emails]

\* The migration seeds the row with the number of the profiles; a database created from the
\* metadata alone lacks it.
BetaInit ==
    /\ profile \in [Users -> Names \cup {NoName}]
    /\ \A u, w \in Members : profile[u] = profile[w] => u = w
    /\ seats \in {Cardinality(Members), Absent}
    /\ holder = NoRequest
    /\ waitlist = [e \in Emails |-> NoRequest]
    /\ request = [r \in Requests |-> Idle]
    /\ told = {}

Taken(name, u) == \E w \in Users \ {u} : profile[w] = name

At(r, place) == request[r].at = place
Go(r, record) == request' = [request EXCEPT ![r] = record]
End(r) == Go(r, Idle)

-----------------------------------------------------------------------------
(* upsert_profile *)

\* The first reads: the username is free, the profile is new or is to be updated.
SignUp(r, u, name) ==
    /\ At(r, "idle")
    /\ ~Taken(name, u)
    /\ Go(r, [at |-> IF u \in Members THEN "update" ELSE "admit", user |-> u, name |-> name])
    /\ UNCHANGED <<profile, seats, holder, waitlist, told>>

\* The unique index on the username has the last word.
Update(r) ==
    LET u == request[r].user  name == request[r].name
    IN  /\ At(r, "update")
        /\ IF Taken(name, u)
           THEN End(r) /\ UNCHANGED profile
           ELSE End(r) /\ profile' = [profile EXCEPT ![u] = name]
        /\ UNCHANGED <<seats, holder, waitlist, told>>

Full_OneOver(claimed) == claimed > MaxUsers
Full_OneShort(claimed) == claimed + 1 >= MaxUsers
Full(claimed) == claimed >= MaxUsers

\* A full cohort raises, and the rollback gives up the lock; else the request goes on with it.
Admit(r, claimed) ==
    \/ /\ Full(claimed)
       /\ End(r)
       /\ UNCHANGED holder
    \/ /\ ~Full(claimed)
       /\ Go(r, [at |-> "insert", user |-> request[r].user, name |-> request[r].name,
                 seen |-> claimed])
       /\ holder' = r

RowFree_Unlocked == TRUE
RowFree == holder = NoRequest

\* SELECT ... FOR UPDATE of the singleton: it waits for whoever has locked the row, and locks
\* nothing when there is no committed row.
LockRow(r) ==
    /\ At(r, "admit")
    /\ \/ seats # Absent /\ RowFree /\ Admit(r, seats)
       \/ /\ seats = Absent
          /\ Go(r, [at |-> "seed", user |-> request[r].user, name |-> request[r].name,
                    seen |-> Cardinality(Members)])
          /\ UNCHANGED holder
    /\ UNCHANGED <<profile, seats, waitlist, told>>

\* The fallback inserts the row: it waits for another's insertion and fails when that commits.
SeedRow(r) ==
    /\ At(r, "seed")
    /\ \/ seats # Absent /\ End(r) /\ UNCHANGED holder
       \/ seats = Absent /\ RowFree /\ Admit(r, request[r].seen)
    /\ UNCHANGED <<profile, seats, waitlist, told>>

Rejected(r) == request[r].user \in Members \/ Taken(request[r].name, request[r].user)

\* The profile is inserted and the transaction committed, or rolled back when one of the keys
\* has been taken since the first reads: with the lock, the claimed seat is given up.
InsertProfile_KeepsLock(r) ==
    /\ At(r, "insert")
    /\ IF Rejected(r)
       THEN End(r) /\ UNCHANGED <<profile, seats, holder>>
       ELSE /\ End(r)
            /\ profile' = [profile EXCEPT ![request[r].user] = request[r].name]
            /\ seats' = request[r].seen + 1
            /\ holder' = NoRequest
    /\ UNCHANGED <<waitlist, told>>

InsertProfile(r) ==
    /\ At(r, "insert")
    /\ IF Rejected(r)
       THEN End(r) /\ UNCHANGED <<profile, seats>>
       ELSE /\ End(r)
            /\ profile' = [profile EXCEPT ![request[r].user] = request[r].name]
            /\ seats' = request[r].seen + 1
    /\ holder' = NoRequest
    /\ UNCHANGED <<waitlist, told>>

-----------------------------------------------------------------------------
(* join_waitlist *)

Tell(e, entry) == told' = told \cup {<<e, entry>>}

LookUp(r, e) ==
    /\ At(r, "idle")
    /\ IF waitlist[e] # NoRequest
       THEN End(r) /\ Tell(e, waitlist[e])
       ELSE Go(r, [at |-> "join", email |-> e]) /\ UNCHANGED told
    /\ UNCHANGED <<profile, seats, holder, waitlist>>

Join_Overwrites(r) ==
    /\ At(r, "join")
    /\ waitlist' = [waitlist EXCEPT ![request[r].email] = r]
    /\ Tell(request[r].email, r)
    /\ End(r)
    /\ UNCHANGED <<profile, seats, holder>>

\* The insertion; when the address has been taken since, the savepoint is rolled back and the
\* other's entry read.
Join(r) ==
    LET e == request[r].email
    IN  /\ At(r, "join")
        /\ waitlist' = [waitlist EXCEPT ![e] = IF @ = NoRequest THEN r ELSE @]
        /\ Tell(e, waitlist'[e])
        /\ End(r)
        /\ UNCHANGED <<profile, seats, holder>>

-----------------------------------------------------------------------------
Begin(r) ==
    \/ \E u \in Users, name \in Names : SignUp(r, u, name)
    \/ \E e \in Emails : LookUp(r, e)

Proceed(r) == Update(r) \/ LockRow(r) \/ SeedRow(r) \/ InsertProfile(r) \/ Join(r)

BetaNext == \E r \in Requests : Begin(r) \/ Proceed(r)

BetaSpec == BetaInit /\ [][BetaNext]_betaVars

\* A thread of the server runs on, and the database hands a lock to those who wait for it in turn.
FairBetaSpec == BetaSpec /\ \A r \in Requests : SF_betaVars(Proceed(r))

-----------------------------------------------------------------------------
\* The types, with the lock held by the one request that is about to insert.
BetaTypeOK ==
    /\ profile \in [Users -> Names \cup {NoName}]
    /\ seats \in Nat \cup {Absent}
    /\ holder \in Requests \cup {NoRequest}
    /\ waitlist \in [Emails -> Requests \cup {NoRequest}]
    /\ request \in [Requests -> Request]
    /\ told \subseteq Emails \X Requests
    /\ \A r \in Requests : holder = r <=> At(r, "insert")

\* The count in the singleton row is the number of the profiles, although every request writes
\* what it computed from an earlier read, and some fail after they have claimed their seat.
SeatsCounted == seats # Absent => seats = Cardinality(Members)

\* Nobody is admitted beyond the configured cohort.
CohortRespected == [][Members' # Members => Cardinality(Members') <= MaxUsers]_betaVars

\* "Full" is only answered when it is so: no seat is withheld for a request that may yet fail.
FullIsTrue ==
    [][\A r \in Requests :
          At(r, "idle")' /\ (At(r, "admit") \/ (At(r, "seed") /\ seats = Absent)) =>
              Cardinality(Members) >= MaxUsers]_betaVars

\* Whoever asks for an address, in whatever order, is told of one and the same entry
\* (docs/backend-guide.md: "an idempotent, normalized-email waitlist").
WaitlistIdempotent == \A t \in told : waitlist[t[1]] = t[2]

\* Every request is answered: none waits for ever on the singleton row.
EveryoneAnswered == \A r \in Requests : ~At(r, "idle") ~> At(r, "idle")
=============================================================================
