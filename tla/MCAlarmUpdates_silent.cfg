\* A subscription that outlives its connection.
CONSTANTS
  s1 = s1  s2 = s2
  Subs = {s1}
  Permits = 1
  MaxAlarms = 1
  MaxEpoch = 2
  Disturbances = {"close", "break"}
SPECIFICATION Spec
INVARIANTS WaitingMeansUpdating
CHECK_DEADLOCK FALSE
