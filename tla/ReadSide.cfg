SPECIFICATION Spec
CONSTANTS
    Categories = {0, 1}
    Entities = {"e1"}
    MaxWrites = 3
    PageSize = 2
    MaxCrashes = 1
    MaxRebuilds = 1
    MaxPoison = 1
    WaitFor = 2
    MaxRuns = 2
    Starters = {"s1", "s2"}
    MaxStarts = 1
    Others = 1
    MaxEvents = 2
    MaxAttempts = 1
    MaxFailures = 1
    Subscribers = {"b1"}
    QueueLimit = 1
    PageLimit = 1
    MaxRequests = 2
    MaxBatch = 2
    MaxRows = 4
    MaxDeletes = 1
    Routed = {"e1"}
    Numbers = {1, 2, 4}
    Deadband = 2
    EmitInterval = 1
    Retention = 0
    MaxHaClock = 1
    MaxChanges = 2
    MaxDrops = 1
    MaxStoreFaults = 1
    EventTypes = {"ev"}
    Triggers = {"tr"}
    Commands = {"c1"}
    InitialBackoff = 1
    MaxBackoff = 1
    MaxConnections = 2
    MaxIds = 3
    MaxToggles = 2
    WindowMs = 3
    HopMs = 2
    Values = {0, 1, 2}
    Threshold = 2
    ClearBelow = 1
    SustainMs = 1
    MinIncrement = 1
    IncrementMs = 2
    MaxLag = 2
    MaxClock = 5
    MaxSamples = 3
INVARIANTS
    TypeOK
    
    
    NoSlotLost
    HttpSound
    
    HaClientSound
    WindowsSound
PROPERTIES
    ImplementsViewSpec
    ConsistentEntryKept
CHECK_DEADLOCK FALSE
