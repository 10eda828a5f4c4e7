SPECIFICATION Spec
CONSTANTS
  i1 = i1
  Incidents = {i1}
  Nobody = Nobody
  Raising = {"investigate"}
  MaxRuns = 0
INVARIANTS EveryIncidentIndexed
CHECK_DEADLOCK FALSE
