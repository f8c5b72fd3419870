SPECIFICATION Spec
CONSTANTS
  a = a
  b = b
  c = c
  Node = {a, b}
  Static <- NoStatic
  FanOut = 1
  MaxRounds <- OneEach
  MaxCrashes = 0
  Garbling = FALSE
PROPERTIES ServerMergeKept
