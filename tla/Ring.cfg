SPECIFICATION FairSpec
CONSTANTS
    N = 2
    Batch = 2
    MaxSent = 4
    MaxKills = 1
INVARIANTS
    ReadBehindWrite
    NewestSurvives
    LossIsCounted
    ReplayOnlyAfterRewind
PROPERTIES
    CatchesUp
CHECK_DEADLOCK FALSE
