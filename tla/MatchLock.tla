------------------------------ MODULE MatchLock ------------------------------
(***************************************************************************)
(* What core/cluster/ownership-registry.ts promises of a match, without    *)
(* its leases: at most one node is responsible for it, and responsibility  *)
(* passes from one node to another only through a moment in which nobody   *)
(* has it.  The registry calls this "exactly one node owns a match at a    *)
(* time".  MatchCluster is shown to implement it.                          *)
(***************************************************************************)
CONSTANTS Nodes, NoNode

VARIABLE driver   \* the node responsible for the match, or NoNode

Init == driver \in Nodes \cup {NoNode}

Take(n) == driver = NoNode /\ driver' = n

LetGo == driver # NoNode /\ driver' = NoNode

Next == LetGo \/ \E n \in Nodes : Take(n)

Spec == Init /\ [][Next]_driver
=============================================================================
