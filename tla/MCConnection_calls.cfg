\* Two OpenAsync and a CloseAsync, no automatic reconnect.
CONSTANTS
  o1 = o1  o2 = o2  c1 = c1  t1 = t1
  Opens = {o1, o2}
  Closes = {c1}
  Reconnects = {}
  MaxSockets = 3
  AutoReconnect = FALSE
  Disturbances = {"refuse", "break"}
  Nobody = Nobody
SPECIFICATION FairSpec
INVARIANTS SingleReader
PROPERTIES HandshakeInOrder CallsReturn
