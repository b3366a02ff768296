---------------------------- MODULE MCConnection ----------------------------
(* Instances of Connection for TLC.                                        *)
EXTENDS Connection, TLC

CONSTANTS o1, o2, c1, t1

OpenSymmetry == Permutations(Opens)
=============================================================================
