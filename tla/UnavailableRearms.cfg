SPECIFICATION PathSpec
CONSTANTS
  SustainedFor = 1
  Gaps = {1}
  MaxSamples = 5
  PerInterval = 1
  TickMod = 3
  DiffMod = 9
  Threshold = 75
  PipeBound = 1
INVARIANTS
  UnavailableDoesNotRearm
CHECK_DEADLOCK FALSE
