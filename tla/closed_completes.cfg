\* As exchange_progress: a closed campaign whose last work is rejected.
SPECIFICATION FairSpec
CONSTANTS
    m1 = m1
    u1 = u1
    c1 = c1
    NoUser = NoUser
    Users = {m1, u1}
    Moderators = {m1}
    Campaigns = {c1}
    Targets = {1}
    Rewards = {1}
    Terms <- ShortTerms
    SignupGrant = 1
    TicksPerDay = 2
    MaxTime = 2
    MaxVersions = 1
    MaxSuspended = 0
PROPERTIES
    ClosedCampaignCompletes
