SPECIFICATION FairSpec
CONSTANTS
  i1 = i1
  i2 = i2
  i3 = i3
  Incidents = {i1, i2, i3}
  Nobody = Nobody
  Raising = {"raw", "evidence", "investigate", "report", "save", "commit"}
  MaxRuns = 1
INVARIANTS
  RowBacked
  LockHeldByCommitter
PROPERTIES Settles
CHECK_DEADLOCK FALSE
