\* Two subscriptions and one permit on a connection that is closed or breaks.
CONSTANTS
  s1 = s1  s2 = s2
  Subs = {s1, s2}
  Permits = 1
  MaxAlarms = 1
  MaxEpoch = 1
  Disturbances = {"close", "break"}
SPECIFICATION FairSpec
INVARIANTS TypeOK NoMissedAlarm LastOneOut
PROPERTIES CancelledReceiveReturns
CHECK_DEADLOCK FALSE
