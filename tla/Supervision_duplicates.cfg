SPECIFICATION Spec
CONSTANTS
    Sups = {core, watchdog}
    MaxProcs = 2
    MaxFailures = 2
    OwnsTree = FALSE
    MaxEvents = 0
    MaxStandDowns = 0
INVARIANTS
    NoDuplicates
CHECK_DEADLOCK FALSE
