\* Starts, edits of the draft and of its contract under way, and everything else interleaved.
SPECIFICATION RaceSpec
CONSTANTS
    m1 = m1
    u1 = u1
    u2 = u2
    c1 = c1
    NoUser = NoUser
    Users = {m1, u1, u2}
    Moderators = {m1}
    Campaigns = {c1}
    Targets = {1}
    Rewards = {1, 2}
    Terms <- TwoTerms
    SignupGrant = 2
    TicksPerDay = 1
    MaxTime = 0
    MaxVersions = 1
    MaxSuspended = 0
    Racing = {"start", "update", "upsert"}
    MaxInFlight = 2
SYMMETRY Participants
VIEW WithoutHistory
INVARIANTS
    EvidenceSurvivesRaces
    PublicationSurvivesRaces
