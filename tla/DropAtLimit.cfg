SPECIFICATION ManagerSpec
CONSTANTS
  f1 = f1
  q1 = q1
  Events = {f1}
  Screens = {}
  Failures = {f1}
  Requests = {q1}
  Storage = Storage
  MaxOpen = 1
  Retention = 1
  PreWindow = 1
  PostWait = 0
  MaxDelay = 0
  MaxTime = 1
  MaxRuns = 0
  SpawnMayFail = TRUE
  CopyMayFail = FALSE
  DeleteMayFail = FALSE
PROPERTIES DropOnlyAtLimit
