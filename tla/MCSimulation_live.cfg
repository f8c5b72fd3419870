SPECIFICATION FairSpec
CONSTANTS
  MaxRuns = 2
  Node = {n1}
  Stopper = {s1}
  MaxCrashes = 0
  OneClient = FALSE
INVARIANT RunningHasTask
PROPERTIES StopsReturn RunsEnd
