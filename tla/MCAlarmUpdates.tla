--------------------------- MODULE MCAlarmUpdates ---------------------------
(* Instances of AlarmUpdates for TLC.                                      *)
EXTENDS AlarmUpdates

CONSTANTS s1, s2
=============================================================================
