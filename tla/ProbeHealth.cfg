SPECIFICATION ShellSpec
CONSTANTS
    Teardowns = {"Infra", "Entities", "Context"}
    HasHttp = TRUE
    InfraChecks = {"db", "cache"}
    ComponentChecks = {"saga"}
    MaxShutdowns = 2
    MaxProbes = 2
    MaxTurns = 2
INVARIANTS
    ComponentFailureIsSeen
CHECK_DEADLOCK FALSE
