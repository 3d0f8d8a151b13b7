SPECIFICATION FairSpec
CONSTANTS
    RingSize = 2
    PrioritySize = 1
    Publishers = {p1, p2}
    Subscribers = {s1, s2}
    Severities = {"LOW", "HIGH"}
    MaxEvents = 3
INVARIANTS
    HeardAtMostOnce
    DeltaIsExact
    SeriousOutlivesNoise
    PriorityLaneIsExact
PROPERTIES
    RegisteredIsCalled
CHECK_DEADLOCK FALSE
