\* Two moderators and a tester who may all be suspended and restored; the decisive audit events are
\* part of the state.
SPECIFICATION Spec
CONSTANTS
    m1 = m1
    m2 = m2
    u1 = u1
    c1 = c1
    NoUser = NoUser
    Users = {m1, m2, u1}
    Moderators = {m1, m2}
    Campaigns = {c1}
    Targets = {1}
    Rewards = {1}
    Terms <- ShortTerms
    SignupGrant = 1
    TicksPerDay = 2
    MaxTime = 1
    MaxVersions = 1
    MaxSuspended = 3
VIEW AuditedWork
INVARIANTS
    CompletionEarned
    ApprovalAudited
    
    
