\* One owner and one tester, either of them the moderator, under a contract of a full day of
\* testing on two days; no symmetry, for a liveness property.
SPECIFICATION FairSpec
CONSTANTS
    m1 = m1
    u1 = u1
    c1 = c1
    NoUser = NoUser
    Users = {m1, u1}
    Moderators = {m1}
    Campaigns = {c1}
    Targets = {1}
    Rewards = {1}
    Terms <- LongTerms
    SignupGrant = 1
    TicksPerDay = 2
    MaxTime = 4
    MaxVersions = 2
    MaxSuspended = 0
INVARIANTS
    ContractHonoured
PROPERTIES
    OverdueWorkDecided
