\* Two threads, three identities and two seats; no symmetry, for a liveness property.
SPECIFICATION FairBetaSpec
CONSTANTS
    Users = {u1, u2, u3}
    Names = {n1, n2, n3}
    NoName = NoName
    Emails = {e1}
    Requests = {r1, r2}
    NoRequest = NoRequest
    MaxUsers = 2
INVARIANTS
    SeatsCounted
    WaitlistIdempotent
PROPERTIES
    CohortRespected
    FullIsTrue
    EveryoneAnswered
