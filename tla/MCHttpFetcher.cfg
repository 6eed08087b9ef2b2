CONSTANTS
    g1 = g1
    g2 = g2
    g3 = g3
    g4 = g4
    shared = shared
    example = example
    g5 = g5
    HostOf <- OneHost
    RetriesOf <- OneRetry
    Calls = {g1, g2, g3, g4, g5}
    LimiterOf <- OneLimiter
    PerHostLimit = 2
    MayCancel = TRUE
SPECIFICATION Spec
CHECK_DEADLOCK FALSE
INVARIANT TypeOK
INVARIANT PermitsConserved
INVARIANT PerHostBound
PROPERTY GetsEnd
