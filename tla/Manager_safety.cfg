SPECIFICATION MSpec
CONSTANTS
  c1 = c1
  c2 = c2
  Callers = {c1, c2}
  Watchers = {c2}
  Nobody = Nobody
  MaxActions = 3
  MaxAttempts = 1
  MaxControls = 2
INVARIANTS
  OffMeansQuiet
  NoForgottenWorker
CHECK_DEADLOCK FALSE
