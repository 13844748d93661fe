SPECIFICATION Spec
SYMMETRY Symmetry
CONSTANTS
    Call = {c1, c2, c3}
    MaxConcurrent = 1
    HasBreaker = FALSE
    MaxFailures = 1
    HalfOpenMax = 1
INVARIANTS
    InflightCapped
CHECK_DEADLOCK FALSE
