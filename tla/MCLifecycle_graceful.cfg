SPECIFICATION Spec
CONSTANTS
  FlushEvery <- SmallBuffer
  MaxRounds = 4
  MaxSignals = 1
INVARIANTS GracefulShutdown
