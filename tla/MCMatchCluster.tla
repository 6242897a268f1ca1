--------------------------- MODULE MCMatchCluster ---------------------------
(* Small instances of MatchCluster.                                        *)
EXTENDS MatchCluster, TLC
CONSTANTS n1, n2

\* The nodes are alike; sound for the run that checks no liveness.
Alike == Permutations(Nodes)
=============================================================================
