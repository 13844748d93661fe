SPECIFICATION CommandsSpec
CONSTANTS
    MaxRequests = 2
    MaxBatch = 2
INVARIANTS
    ConflictChangesNothing
CHECK_DEADLOCK FALSE
