------------------------- MODULE MCDownloadSession -------------------------
(* Instances of DownloadSession: the two-piece torrent of                   *)
(* test/integration.test.ts (two blocks and a short last one), and two      *)
(* peers, H honest and M not.                                               *)
EXTENDS DownloadSession

CONSTANTS H, M

MCWanted == {0, 1}
MCNumBlocks == [i \in Wanted |-> IF i = 0 THEN 2 ELSE 1]
MCPeers == {H, M}
MCHonest == {H}
MCAllHonest == MCPeers
MCOnePiece == {0}
MCOverlap == [p \in MCPeers |-> IF p = H THEN {0, 1} ELSE {1}]
MCHoldsOne == [p \in MCPeers |-> MCOnePiece]
MCHolds == [p \in MCPeers |-> MCWanted]
=============================================================================
