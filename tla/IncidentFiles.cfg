SPECIFICATION ManagerSpec
CONSTANTS
  s1 = s1
  s2 = s2
  q1 = q1
  q2 = q2
  Events = {s1, s2}
  Screens = {s1, s2}
  Failures = {}
  Requests = {q1, q2}
  Storage = Storage
  MaxOpen = 2
  Retention = 4
  PreWindow = 4
  PostWait = 1
  MaxDelay = 1
  MaxTime = 7
  MaxRuns = 0
  SpawnMayFail = TRUE
  CopyMayFail = FALSE
  DeleteMayFail = FALSE
SYMMETRY Symmetry
INVARIANTS
  WindowComplete
  ManagerTypeOK
  SlotsAccounted
  OnlyExpiredUncopied
