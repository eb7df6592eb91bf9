\* One campaign, three participants of whom one is also a moderator.
SPECIFICATION Spec
CONSTANTS
    m1 = m1
    u1 = u1
    u2 = u2
    c1 = c1
    NoUser = NoUser
    Users = {m1, u1, u2}
    Moderators = {m1}
    Campaigns = {c1}
    Targets = {1, 2, 3}
    Rewards = {1}
    Terms <- ShortTerms
    SignupGrant = 2
    TicksPerDay = 2
    MaxTime = 1
    MaxVersions = 2
    MaxSuspended = 0
SYMMETRY Participants
VIEW WithoutHistory
INVARIANTS
    TypeOK
    References
    Capacity
    RecruitsOnlyBelowTarget
    ClosedCampaignSettles
    RewardIffApproved
    RewardsCovered
    BalanceIsLedgerSum
    PromiseFunded
    LatestSubmissionDecides
    DisputeMatchesWork
PROPERTIES
    LifecycleImplemented
    PromiseKept
    EvidenceKept
    EscalationFreezesWork
