\* An edit of the draft under way while it is published.
SPECIFICATION RaceSpec
CONSTANTS
    m1 = m1
    u1 = u1
    u2 = u2
    c1 = c1
    NoUser = NoUser
    Users = {m1, u1, u2}
    Moderators = {m1}
    Campaigns = {c1}
    Targets = {1, 2}
    Rewards = {1}
    Terms <- TwoTerms
    SignupGrant = 2
    TicksPerDay = 1
    MaxTime = 1
    MaxVersions = 1
    MaxSuspended = 0
    Racing = {"update", "upsert"}
    MaxInFlight = 2
VIEW WithoutHistory
PROPERTIES
    PromiseKept
