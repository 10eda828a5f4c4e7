SPECIFICATION ManagerSpec
CONSTANTS
  s1 = s1
  q1 = q1
  Events = {s1}
  Screens = {s1}
  Failures = {}
  Requests = {q1}
  Storage = Storage
  MaxOpen = 1
  Retention = 1
  PreWindow = 1
  PostWait = 1
  MaxDelay = 0
  MaxTime = 3
  MaxRuns = 0
  SpawnMayFail = FALSE
  CopyMayFail = FALSE
  DeleteMayFail = FALSE
INVARIANTS OwnsItsScreenshots
