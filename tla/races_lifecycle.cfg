\* A start under way while its tester withdraws.
SPECIFICATION RaceSpec
CONSTANTS
    m1 = m1
    u1 = u1
    u2 = u2
    c1 = c1
    NoUser = NoUser
    Users = {m1, u1, u2}
    Moderators = {m1}
    Campaigns = {c1}
    Targets = {1}
    Rewards = {1}
    Terms <- ShortTerms
    SignupGrant = 1
    TicksPerDay = 1
    MaxTime = 1
    MaxVersions = 1
    MaxSuspended = 0
    Racing = {"start"}
    MaxInFlight = 2
VIEW WithoutHistory
PROPERTIES
    TransitionsEnforced
