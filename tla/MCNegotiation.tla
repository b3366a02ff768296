--------------------------- MODULE MCNegotiation ---------------------------
(* Three jobs over as many semaphores as are made.                         *)
EXTENDS Negotiation

CONSTANTS j1, j2, j3
=============================================================================
