---------------------------- MODULE MCJobExchange ----------------------------
(* Instances of JobExchange for TLC: up to two reads and a write.          *)
EXTENDS JobExchange

CONSTANTS r1, r2, w1

MCKind == [j \in Jobs |-> IF j \in {r1, r2} THEN "read" ELSE "write"]
OnePackage == [j \in Jobs |-> 1]
TwoThenOne == [j \in Jobs |-> IF j = r1 THEN 2 ELSE 1]
=============================================================================
