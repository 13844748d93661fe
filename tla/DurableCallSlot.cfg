SPECIFICATION FairSpec
CONSTANTS
    MaxAttempts = 3
    MaxCrashes = 2
    MaxFires = 2
    MaxInbox = 3
INVARIANTS
    ResultsOfThisAttempt
    OutcomeIsReal
    ExecutionsBounded
    NotStranded
PROPERTIES
    TerminalIsFinal
    CallFinishes
CHECK_DEADLOCK FALSE
