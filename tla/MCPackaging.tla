---------------------------- MODULE MCPackaging ----------------------------
(* Instances of Packaging for TLC.                                         *)
EXTENDS Packaging

CONSTANTS ok, denied
=============================================================================
