SPECIFICATION PathSpec
CONSTANTS
  SustainedFor = 1
  Gaps = {1}
  MaxSamples = 5
  PerInterval = 1
  TickMod = 2
  DiffMod = 4
  Threshold = 75
  PipeBound = 1
INVARIANTS
  SamplesTrue
  RearmedByLoad
  FiresWhenSustained
PROPERTY StopEndsBoth
CHECK_DEADLOCK FALSE
