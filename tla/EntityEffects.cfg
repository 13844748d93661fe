SPECIFICATION Spec
SYMMETRY Symmetry
CONSTANTS
    Entity = {e1}
    Runner = {r1, r2, r3}
    Msg = {m1, m2, m3}
    TimerId = {t1}
    None = None
    StopMsg = StopMsg
    SnapshotEvery = 2
    HasHook = TRUE
    Uses = {"Snapshot", "Stash", "Unstash", "Stop", "ReplyDeferred", "throw"}
    MaxSeq = 3
    MaxBatch = 2
    MaxChain = 3
    MaxMailbox = 2
INVARIANTS
    TypeOK
    StateIsReplay
    SnapshotIsReplay
    OutputFollowsJournal
CHECK_DEADLOCK FALSE
