SPECIFICATION Spec
CONSTANTS
  NoPid = 0
  None = None
  SpikePercent = 8
  TerminalWindow = 1
  MaxEvents = 3
  MaxNodes = 2
  RoundsDown = {}
  Kinds <- AllKinds
  MaxLength = 3
INVARIANTS CrashWinsOutright
CHECK_DEADLOCK FALSE
