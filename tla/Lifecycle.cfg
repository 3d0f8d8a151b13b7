SPECIFICATION FairSpec
CONSTANTS
  c1 = c1
  c2 = c2
  Callers = {c1, c2}
  MaxActions = 4
  MaxAttempts = 2
INVARIANTS
  OneLiveGeneration
  StoppedMeansSignalled
  OneSpawnPerAction
PROPERTIES
  NoRevivalAfterStop
  StopTakesEffect
  RestartCompletes
