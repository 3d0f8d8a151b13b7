SPECIFICATION WFairSpec
CONSTANTS
    op = op
    wd = wd
    Callers = {op, wd}
    Watchers = {}
    Watchdog = wd
    Nobody = Nobody
    MaxActions = 4
    MaxAttempts = 1
    MaxControls = 1
    MaxRestarts = 2
CONSTRAINT FewOrders
INVARIANTS
    BudgetHolds
PROPERTIES
    RevivesOnlyTheSelected
    FaultIsAnswered
CHECK_DEADLOCK FALSE
