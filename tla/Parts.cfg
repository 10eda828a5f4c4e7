SPECIFICATION PartsSpec
CONSTANTS
  e1 = e1
  e2 = e2
  e3 = e3
  e4 = e4
  Events = {e1, e2, e3, e4}
  Retention = 2
  MaxDelay = 1
  MaxTime = 6
  MaxRuns = 1

  Reports = {"r1"}
  Entries = {"l1"}
  OsMalformed = {"l1"}
  Unparsable = {"l1"}
  Second = 2
  PollInterval = 2
  OsLag = 1
  QueryTimeout = 1
  QueryMayFail = TRUE
  DirMayFail = TRUE
  OsMaxTime = 9
  OsMaxRuns = 1
  OsNever = OsNever

  Procs = {"p1", "p2", "p3"}
  PidOf <- MCPidOf
  Flaky = {"p2"}
  Nobody = "nobody"
  Crashing = {"p1"}
  Interval = 1
  PollTime = 1
  PreWindow = 2
  PostWait = 4
  BufferTime = 4
  CrashMaxTime = 9
  CrashNever = CrashNever

  Commands = {"c1", "c2"}
  NotJson = {}
  Rejected = {"c2"}
  Poll = 1
  Idle = 0
  TailLag = 1
  MaxToggles = 2
  TailMaxTime = 5

  Requests = {"q1", "q2", "q3"}
  NoReason = "none"
  Undecodable = {"q3"}
  ReadMayFail = TRUE
  UnlinkMayFail = TRUE
  FireMayRaise = TRUE
  MaxFires = 4
  ManualMaxRuns = 1

  Interfaces = {"en0", "en1"}
  CounterMod = 3
  SumMod = 16
  MaxTraffic = 2
  MaxSamples = 3
INVARIANTS
  ReorderBounded
  WindowKept
  ReportsOnce
  ReportsPrompt
  LogCovered
  DeliveredAtMostTwice
  TerminatedHasEnded
  CrashIsLinked
  LostOnlyIfBroken
  PrivateWhileOff
  BacklogBounded
  EveryRequestFires
  FiresAtMostRequests
  ReasonReported
PROPERTIES
  RetentionBounded
  RateBelievable
CHECK_DEADLOCK FALSE
