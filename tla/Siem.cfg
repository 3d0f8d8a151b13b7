SPECIFICATION FairSpec
CONSTANTS
    RingSize = 1
    PrioritySize = 1
    Severities = {"LOW", "MEDIUM", "HIGH"}
    MaxEvents = 2
    MaxRevision = 3
    Ids <- MCIds
    Owners <- MCOwners
    Nobody = 0
    MaxItems = 1
    MaxAttempts = 2
    Tombstones = 3
    ClaimLimit = 1
    BatchSize = 2
    MaxFaults = 1
    MaxLives = 2
INVARIANTS
    NoSilentLoss
    CommittedIsKept
    BatchIsLeased
    RetentionIsBounded
PROPERTIES
    ImplementsContract
    CursorCatchesUp
    CommittedIsSettled
CHECK_DEADLOCK FALSE
