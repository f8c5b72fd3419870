SPECIFICATION FairSpec
CONSTANTS
  FlushEvery <- SmallBuffer
  MaxRounds = 4
  MaxSignals = 2
INVARIANTS TypeOK FileInOrder
PROPERTIES NothingVanishes StopEnds AcceptThreadEnds
