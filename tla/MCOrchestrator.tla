--------------------------- MODULE MCOrchestrator ---------------------------
(* Small instances of the page.  Nothing in the page or the store depends   *)
(* on which worker, torrent or peer it is about.                            *)
EXTENDS Orchestrator, TLC

Pool == Permutations(Workers) \cup Permutations(Torrents) \cup Permutations(Addresses)
=============================================================================
