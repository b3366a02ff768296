------------------------------ MODULE MCEvent ------------------------------
(* The event on small sets of callers: three waiters and two or three sets. *)
EXTENDS AsyncAutoResetEvent

CONSTANTS w1, w2, w3, s1, s2, s3, r1
=============================================================================
