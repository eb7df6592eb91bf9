\* The same participants: an owner who is also the moderator, and two testers who share one campaign.
SPECIFICATION EvidenceSpec
CONSTANTS
    c1 = c1
    f1 = f1
    a = a
    b = b
    NoUser = NoUser
    NoTask = NoTask
    NoKey = NoKey
    Users = {o, t1, t2}
    Moderators = {o}
    Campaigns = {c1}
    Files = {f1}
    Payloads <- Contents
    TasksOf <- TwoContracts
    MaxObjects = 1
    Targets = {2}
    Rewards = {1}
    Terms <- ShortTerms
    SignupGrant = 2
    TicksPerDay = 1
    MaxTime = 0
    MaxVersions = 1
    MaxSuspended = 0
SYMMETRY Testers
VIEW WithoutHistory
PROPERTY
    EvidenceImmutable
