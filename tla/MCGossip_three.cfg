SPECIFICATION FairSpec
CONSTANTS
  a = a
  b = b
  c = c
  Node = {a, b, c}
  Static <- AKnowsBStatically
  FanOut = 1
  MaxRounds <- AllButC
  MaxCrashes = 1
  Garbling = FALSE
INVARIANTS TypeOK BothUpdated
PROPERTIES LossNeedsOverlap LoopNeverStuck HandlersEnd
