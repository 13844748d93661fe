SPECIFICATION Spec
CONSTANTS
    Schemas <- SmallSchemas
    Spans = {"s1", "s2"}
    MaxRetries = 1
    MaxInbound = 2
    MaxRuns = 3
    MaxPetriFaults = 1
    Nodes = {"n1", "n2", "n3"}
    Flows <- SmallFlows
    MaxStarts = 2
    MaxInputs = 1
    MaxNodeFaults = 1
    Procs = {p1, p2}
    MaxCommands = 3
    SnapshotEvery = 2
    MaxSeq = 3
    MaxDbFaults = 1
    MaxClients = 3
    MaxNotices = 2
    Teardowns = {"Infra", "Entities", "Context"}
    HasHttp = TRUE
    InfraChecks = {"db", "cache"}
    ComponentChecks = {"saga"}
    MaxShutdowns = 2
    MaxProbes = 2
    MaxTurns = 2
    Frames <- SmallFrames
    ToolNames = {"t1"}
    LegacyCompat = TRUE
    MaxFrames = 2
    MaxRegisters = 1
    MaxRequests = 4
    MaxChildren = 3
    MaxCloses = 1
    BatchTools <- TwoTools
    Budget = 3
    Costs = {2}
    Concurrency = 2
    MaxCalls = 3
    MaxResets = 1
    MaxAgentCalls = 2
    MaxExecs = 2
    MaxTicks = 1
    Ids = {k1, k2}
    Scopes = {"s1"}
    Contents = {{1, 2, 3}, {1}, {1, 2, 3, 4}}
    Callers = {o1, o2}
    MaxObservations = 3
    MaxEdits = 1
    StreamFrames <- SmallStreamFrames
    MaxLines = 3
INVARIANTS
    TypeOK
    
    NodesSound
    PgStateIsReplay
    
    ShellSound
    McpSound
    SpendAccounted
    ReplayIsFaithful
    CapabilitiesSound
    StreamIsTheAnswer
SYMMETRY ProcSymmetry
CHECK_DEADLOCK FALSE
