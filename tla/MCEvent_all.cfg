\* Three waiters, three Sets, one Reset: everything the event promises.
CONSTANTS
  w1 = w1  w2 = w2  w3 = w3
  s1 = s1  s2 = s2  s3 = s3
  r1 = r1
  Waiters = {w1, w2, w3}
  Setters = {s1, s2, s3}
  Resetters = {r1}
  Default = Default
  Empty = Empty
SPECIFICATION FairSpec
INVARIANTS TypeOK NoLostWakeup QueueSound ReceivedOnce AcceptedIsDelivered
PROPERTIES ClaimedWaiterReturns ImplementsMailbox
CHECK_DEADLOCK FALSE
