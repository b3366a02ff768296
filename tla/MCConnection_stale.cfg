\* A reconnect leaves a signal for the next OpenAsync.
CONSTANTS
  o1 = o1  o2 = o2  c1 = c1  t1 = t1
  Opens = {o1, o2}
  Closes = {c1}
  Reconnects = {t1}
  MaxSockets = 3
  AutoReconnect = TRUE
  Disturbances = {"break"}
  Nobody = Nobody
SPECIFICATION Spec
INVARIANTS ConnectedMeansSetUp
CHECK_DEADLOCK FALSE
