---------------------------- MODULE MCClientLink ----------------------------
(* The two links of the system, each on its own instance: a browser's with    *)
(* three sockets, two sessions and two matches, and the bus between nodes     *)
(* with two requests.  `part` is chosen at the start.                         *)
EXTENDS ClientLink, EventBus

CONSTANTS s1, s2, s3, A, B, r1, r2

VARIABLE part

MCInit == Init /\ BusInit /\ part \in {"browser", "bus"}

MCNext ==
  /\ \/ part = "browser" /\ Next /\ UNCHANGED bus
     \/ part = "bus" /\ BusNext /\ UNCHANGED vars
  /\ UNCHANGED part

\* Either part's fairness asks nothing while the part stands still.
MCSpec == MCInit /\ [][MCNext]_<<vars, bus, part>> /\ Fairness /\ BusFairness
=============================================================================
