SPECIFICATION FairSpec
CONSTANTS
  screen = screen
  terminal = terminal
  reports = reports
  w1 = w1
  w2 = w2
  Workers = {w1, w2}
  None = None
  Toggleable = {screen, terminal}
  Slow = {screen, reports}
  Stuck = {reports}
  Preparing = {terminal, reports}
  SpawnMayFail = TRUE
  Unborn = Unborn
  FailsOpening = {screen, terminal}
  FailsCapturing = {terminal, reports}
  Order <- AllThree
CHECK_DEADLOCK FALSE
INVARIANTS
  OffMeansOff
  DownIsSilent
PROPERTIES
  FlipOnStarts
  Resumes
  FallsSilent
  ShutsDown
