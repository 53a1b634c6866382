-------------------------- MODULE MCPieceScheduler --------------------------
(* Checks PieceScheduler alone: four blocks in two pieces, two owners, any *)
(* order of claims, arrivals, timeouts, verdicts and departures.            *)
EXTENDS PieceScheduler

CONSTANTS A, B

MCWanted == {0, 1}
MCNumBlocks == [i \in MCWanted |-> IF i = 0 THEN 3 ELSE 1]
MCOwners == {A, B}
=============================================================================
