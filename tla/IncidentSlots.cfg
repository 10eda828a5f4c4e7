SPECIFICATION FairManagerSpec
CONSTANTS
  s1 = s1
  f1 = f1
  q1 = q1
  q2 = q2
  Events = {s1, f1}
  Screens = {s1}
  Failures = {f1}
  Requests = {q1, q2}
  Storage = Storage
  MaxOpen = 2
  Retention = 1
  PreWindow = 1
  PostWait = 1
  MaxDelay = 0
  MaxTime = 2
  MaxRuns = 1
  SpawnMayFail = FALSE
  CopyMayFail = TRUE
  DeleteMayFail = TRUE
INVARIANTS
  CopiesDurable
  ImagesTrackBuffer
PROPERTIES
  AdmissionSpec
  SlotsReleased
