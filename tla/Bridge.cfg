SPECIFICATION FairSpec
CONSTANTS
    Ids = {i1, i2}
    Owners = {o1, o2}
    Nobody = nobody
    MaxItems = 2
    MaxAttempts = 2
    Tombstones = 2
    ClaimLimit = 1
    MaxHelpers = 2
    InboxItems = 1
    InboxTombstones = 1
    MaxFaults = 1
INVARIANTS
    NothingVanishes
    DuplicatesAreExplained
PROPERTIES
    InboxRowsComplete
CHECK_DEADLOCK FALSE
