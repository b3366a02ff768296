\* Three items that share, fill or exceed a package; the PDU may shrink.
CONSTANTS
  ok = ok  denied = denied
  Count = 3
  Sizes = {3, 18, 21, 72}
  Pdus = {56, 61}
  Codes = {ok, denied}
  Success = ok
SPECIFICATION FairSpec
INVARIANTS TypeOK PackagesFit RoomForEverySlice EveryByteOnce FirstRefusalStays ReadsComplete
PROPERTIES CallEnds
CHECK_DEADLOCK FALSE
