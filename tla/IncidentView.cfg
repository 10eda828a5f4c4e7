SPECIFICATION Spec
CONSTANTS
  NoPid = 0
  None = None
  SpikePercent = 8
  TerminalWindow = 1
  MaxEvents = 3
  MaxNodes = 3
  RoundsDown <- ShortProducts
  Kinds <- AllKinds
  MaxLength = 5
INVARIANTS
  SignalKept
  SampledEvenly
  GraphConnected
CHECK_DEADLOCK FALSE
