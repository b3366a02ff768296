\* The same calls and a reconnect that meets them, wherever they are.
CONSTANTS
  o1 = o1  o2 = o2  c1 = c1  t1 = t1
  Opens = {o1, o2}
  Closes = {c1}
  Reconnects = {t1}
  MaxSockets = 3
  AutoReconnect = TRUE
  Disturbances = {"refuse", "break"}
  Nobody = Nobody
SPECIFICATION Spec
SYMMETRY OpenSymmetry
INVARIANTS TypeOK ClosedStaysClosed
