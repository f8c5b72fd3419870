SPECIFICATION Spec
CONSTANTS
  MaxRuns = 2
  Node = {n1, n2}
  Stopper = {s1}
  MaxCrashes = 1
  OneClient = TRUE
INVARIANT TypeOK
PROPERTY ServiceIsApi
SYMMETRY Symmetry
