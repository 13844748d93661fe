SPECIFICATION FairSpec
CONSTANTS
    Entity = {e1, e2}
    Runner = {r1, r2, r3}
    Msg = {m1, m2}
    TimerId = {t1}
    None = None
    StopMsg = StopMsg
    SnapshotEvery = 2
    HasHook = FALSE
    Uses = {"tellSelf", "tell", "Run", "throw", "shutdown"}
    MaxSeq = 1
    MaxBatch = 1
    MaxChain = 2
    MaxMailbox = 2
PROPERTIES
    AskAnswered
    ShutdownCompletes
CHECK_DEADLOCK FALSE
