SPECIFICATION Spec
CONSTANTS
    Categories = {0, 1}
    Entities = {e1}
    MaxWrites = 3
    PageSize = 2
    MaxCrashes = 1
    WaitFor = 2
    MaxRebuilds = 1
    MaxPoison = 1
INVARIANTS
    RetentionSparesTail
CHECK_DEADLOCK FALSE
