SPECIFICATION FairSpec
CONSTANTS
  c2 = c2
  c1 = c1
  Callers = {c1, c2}
  MaxActions = 4
  MaxAttempts = 1
PROPERTIES
  RestartAlwaysCompletes
