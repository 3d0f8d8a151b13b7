SPECIFICATION Spec
CONSTANTS
    Sups = {core, watchdog}
    MaxProcs = 3
    MaxFailures = 2
    OwnsTree = FALSE
    MaxEvents = 1
    MaxStandDowns = 1
INVARIANTS
    LockExcludes
    DuplicatesAreExplained
    StandDownHolds
    CrashLoopIsCharged
SYMMETRY Interchangeable
CHECK_DEADLOCK FALSE
