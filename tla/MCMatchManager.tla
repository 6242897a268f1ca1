--------------------------- MODULE MCMatchManager ---------------------------
(* Small instances of MatchManager: two players, each with a socket on a     *)
(* node of their own, at a two-seat table.                                   *)
EXTENDS MatchManager

CONSTANTS alice, bob, a1, b1, n1, n2

TwoUserOf == [t \in {a1, b1} |-> IF t = a1 THEN alice ELSE bob]
TwoNodeOf == [t \in {a1, b1} |-> IF t = a1 THEN n1 ELSE n2]
OneUserOf == [t \in {a1} |-> alice]
OneNodeOf == [t \in {a1} |-> n1]
=============================================================================
