--------------------------- MODULE MCSocketServer ---------------------------
(* Two sockets of one account.  The heartbeat and the fan-out meet only where *)
(* a socket closes, so a behaviour has one or the other: `part` is chosen at  *)
(* the start.  The fan-out is a matter of one node, and shutdown comes with   *)
(* it; the count needs both nodes, and a crash comes with it.                 *)
EXTENDS SocketServer

CONSTANTS n1, n2, c1, c2, A, B

VARIABLE part

MCInit == Init /\ part \in {"heartbeat", "fanout"}

Fanout ==
  /\ part = "fanout"
  /\ \/ \E c \in Conns : Upgrade(c, n1) \/ MatchStep(c) \/ AuthFails(c)
     \/ Stop(n1) \/ Forget(n1)

\* The first socket is on the first node, and it is the one whose other end
\* may vanish.
Heartbeat ==
  /\ part = "heartbeat"
  /\ \/ \E c \in Conns : Connect(c)
     \/ HeartbeatStep \/ PeerVanishes(c1) \/ Crash(n1)
  /\ conn'[c1].node # n2

MCNext ==
  /\ UNCHANGED part
  /\ \/ \E c \in Conns : AuthStep(c) \/ SocketCloses(c)
     \/ Fanout \/ Heartbeat

MCSpec == MCInit /\ [][MCNext]_<<vars, part>> /\ (part = "heartbeat" => Fairness)

\* GhostsAgeOut, where there is a heartbeat.
GhostsAgeOutWithHeartbeat == part = "heartbeat" => GhostsAgeOut
=============================================================================
