SPECIFICATION ClientsFairSpec
CONSTANTS
    Ids = {i1, i2}
    Owners = {o1, o2}
    Nobody = nobody
    MaxItems = 2
    MaxAttempts = 2
    Tombstones = 1
    ClaimLimit = 2
    MaxEnqueues = 2
    MaxCrashes = 1
INVARIANTS
    DeliveredWasTaken
PROPERTIES
    SettledStaysSettled
    LeaseIsExclusive
    RetainedIsSettled
CHECK_DEADLOCK FALSE
