\* Windows of four ticks, of two to the second; a clean-up at every third call.
SPECIFICATION LimiterSpec
CONSTANTS
    Keys = {"ip:read", "ip:write"}
    Limit <- Limits
    WindowSeconds = 2
    TicksPerSecond = 2
    CleanupEvery = 3
    MaxTime = 7
    MaxCalls = 6
\* The behaviours end at their last call and tick.
CHECK_DEADLOCK FALSE
INVARIANTS
    LimiterTypeOK
    BurstBounded
    RetryAfterSuffices
    RemainingIsGranted
PROPERTIES
    CleanupIsInvisible
