SPECIFICATION FairSpec
CONSTANTS
    Call = {c1, c2, c3, c4}
    MaxConcurrent = 2
    HasBreaker = TRUE
    MaxFailures = 1
    HalfOpenMax = 2
INVARIANTS
    PermitsHeld
    NoLostWakeup
    BreakerSound
PROPERTIES
    CallReturns
CHECK_DEADLOCK FALSE
