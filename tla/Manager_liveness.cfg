SPECIFICATION MFairSpec
CONSTANTS
  c1 = c1
  c2 = c2
  Callers = {c1, c2}
  Watchers = {}
  Nobody = Nobody
  MaxActions = 3
  MaxAttempts = 1
  MaxControls = 2
PROPERTIES
  WaitingWorkerReturns
CHECK_DEADLOCK FALSE
