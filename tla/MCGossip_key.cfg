SPECIFICATION Spec
CONSTANTS
  a = a
  b = b
  c = c
  Node = {a, b}
  Static <- AKnowsBStatically
  FanOut = 1
  MaxRounds <- OneEach
  MaxCrashes = 0
  Garbling = FALSE
INVARIANTS SameSessionKey
