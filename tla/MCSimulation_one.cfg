SPECIFICATION Spec
CONSTANTS
  MaxRuns = 2
  Node = {n1}
  Stopper = {s1}
  MaxCrashes = 0
  OneClient = TRUE
INVARIANTS OneSimulationAtATime
