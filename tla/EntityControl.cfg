SPECIFICATION Spec
SYMMETRY Symmetry
CONSTANTS
    Entity = {e1, e2}
    Runner = {r1, r2, r3}
    Msg = {m1, m2, m3}
    TimerId = {t1}
    None = None
    StopMsg = StopMsg
    SnapshotEvery = 2
    HasHook = FALSE
    Uses = {"tell", "ask", "timer", "sync", "Run", "throw", "shutdown"}
    MaxSeq = 2
    MaxBatch = 1
    MaxChain = 2
    MaxMailbox = 2
INVARIANTS
    
    NoAskInDeadMailbox
PROPERTIES
    JournalAppendOnly
CHECK_DEADLOCK FALSE
