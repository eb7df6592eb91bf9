\* Two threads; an owner who is also the moderator, a tester with a campaign of its own, and an applicant.
SPECIFICATION AtomicSpec
CONSTANTS
    o = o
    t1 = t1
    t2 = t2
    c1 = c1
    c2 = c2
    NoUser = NoUser
    Idle = Idle
    Threads = {w1, w2}
    Users = {o, t1, t2}
    Moderators = {o}
    Campaigns = {c1, c2}
    Targets = {1, 2}
    Rewards = {1}
    Terms <- ShortTerms
    Requests <- AllRequests
    SignupGrant = 2
    TicksPerDay = 1
    MaxTime = 1
    MaxVersions = 1
    MaxSuspended = 0
SYMMETRY Interchangeable
VIEW WithoutHistory
INVARIANTS
    
    NothingStale
PROPERTIES
    RequestsAreAtomic
