---------------------------- MODULE SocketServer ----------------------------
(***************************************************************************)
(* The WebSocket side of the nodes: ws/ws-server.ts, with the count of an  *)
(* account's sockets in core/cluster/connection-registry.ts and the        *)
(* fan-out and presence tables of core/cluster/match-gateway.ts.           *)
(*                                                                         *)
(* A handler runs to its next await in one step, so a close, a sweep, a    *)
(* leave or another socket's message can come between two steps of it.     *)
(* Time is counted in heartbeat intervals.  One account is modelled: the   *)
(* cap is per account.  The seat of a connection and what is sent to it    *)
(* are left out, except AUTHENTICATED, which admits the socket.            *)
(***************************************************************************)
EXTENDS Naturals, FiniteSets, SequencesExt

CONSTANTS
  Nodes,           \* backend processes
  Conns,           \* connection ids; each is used once
  Matches,         \* match ids
  None,            \* no match, no node
  Cap,             \* maxConnectionsPerUser
  MaxConnections,  \* maxConnections of a node
  LeaseIntervals,  \* connectionLeaseMs, in heartbeat intervals
  MaxCrashes       \* bound: processes killed

\* The lease is three heartbeat intervals (ws-server.ts 124); less would not
\* outlast a missed sweep.
ASSUME SocketAssumption ==
  /\ None \notin Matches \cup Nodes
  /\ IsFiniteSet(Conns)
  /\ Cap \in Nat \ {0} /\ MaxConnections \in Nat /\ MaxCrashes \in Nat
  /\ LeaseIntervals \in Nat /\ LeaseIntervals >= 3

VARIABLES
  conn,      \* per connection: the Connection object and its socket
  peers,     \* per node: byUser, oldest first
  lease,     \* the registry: intervals left of each connection's entry
  watches,   \* the Watch object of each node and match, or 0
  watchers,  \* the Watch objects themselves: their listeners
  tracked,   \* localPresence of the gateways: pairs of match and token
  admitted,  \* connections that were sent AUTHENTICATED
  due,       \* nodes whose sweep has not run in this heartbeat interval
  missed,    \* nodes that did not sweep in the interval before it
  running, stopping

fanout == <<watches, watchers>>
clock  == <<due, missed>>
procs  == <<running, stopping>>
vars == <<conn, peers, lease, fanout, tracked, admitted, clock, procs>>

Idle == [at |-> "idle", match |-> None]

\* A socket is open; closing, after our close frame; cut, once terminate() has
\* destroyed it; gone, once its 'close' event was handled.  `peer` tells if
\* the other end is still there.  `job` is the JOIN or ENTER_ROOM being awaited:
\* the connection is busy while it has one.  `auth` is the step of an
\* AUTHENTICATE being awaited, `total` the count the registry gave it.
Connection(n) ==
  [up |-> "open", node |-> n, listed |-> TRUE, peer |-> TRUE, user |-> FALSE,
   alive |-> TRUE, match |-> None, unwatch |-> 0, job |-> Idle,
   auth |-> "idle", total |-> 0]

Unused == [Connection(None) EXCEPT !.up = "none", !.listed = FALSE]

Watch == 1..Cardinality(Conns)
NoWatch == [key |-> <<None, None>>, on |-> FALSE, listeners |-> {}]

Listed(n) == {c \in Conns : conn[c].listed /\ conn[c].node = n}

\* Messages of the socket are still read.
Reads(c) == conn[c].up \in {"open", "closing"} /\ conn[c].node \in running

\* An awaited call returns, whatever has become of the socket meanwhile.
Returns(c) == conn[c].node \in running

Closing(k) == [k EXCEPT !.up = IF @ = "open" THEN "closing" ELSE @]
-----------------------------------------------------------------------------
(* Fan-out and presence of a node's sockets.                               *)

\* The closures that gateway.watch returned to the connections C: each drops
\* its listener and, with the last one, the bus subscription and whatever Watch
\* object the map then holds for the match.
Unwatched(C) ==
  LET rest(o)  == watchers[o].listeners \ {c \in C : conn[c].unwatch = o}
      emptied  == {o \in Watch : rest(o) = {} /\ \E c \in C : conn[c].unwatch = o}
  IN  [watchers |-> [o \in Watch |-> [watchers[o] EXCEPT
                       !.listeners = rest(o), !.on = @ /\ o \notin emptied]],
       watches  |-> [k \in DOMAIN watches |->
                       IF \E o \in emptied : watchers[o].key = k
                       THEN 0 ELSE watches[k]]]

Unwatch(C) ==
  LET u == Unwatched(C) IN watchers' = u.watchers /\ watches' = u.watches

\* reportDisconnect: what a node's gateway asserts no longer.
Untracked(C) == tracked \ {<<conn[c].match, c>> : c \in C}

\* teardown on the 'close' event; the fields nothing reads any more are reset.
Teardown(C) ==
  LET known == {c \in C : conn[c].user} IN
  /\ Unwatch(C)
  /\ tracked' = Untracked(known)
  /\ peers' = [n \in Nodes |-> SelectSeq(peers[n], LAMBDA c : c \notin known)]
  /\ conn' = [c \in Conns |->
       IF c \notin C THEN conn[c]
       ELSE [conn[c] EXCEPT !.up = "gone", !.listed = FALSE, !.unwatch = 0,
                            !.match = None, !.alive = TRUE, !.peer = TRUE]]
-----------------------------------------------------------------------------
(* Connecting and closing.                                                 *)

\* handleUpgrade and handleConnection.
Upgrade(c, n) ==
  /\ conn[c].up = "none"
  /\ n \in running \ stopping /\ Cardinality(Listed(n)) < MaxConnections
  /\ conn' = [conn EXCEPT ![c] = Connection(n)]
  /\ UNCHANGED <<peers, lease, fanout, tracked, admitted, clock, procs>>

AuthTimesOut(c) ==
  /\ conn[c].up = "open" /\ ~conn[c].user
  /\ conn' = [conn EXCEPT ![c] = Closing(@)]
  /\ UNCHANGED <<peers, lease, fanout, tracked, admitted, clock, procs>>

\* The 'close' event: the peer closed, the closing handshake or the two seconds
\* it is given ended, or terminate() destroyed the socket.
SocketCloses(c) ==
  /\ conn[c].node \in running
  /\ conn[c].up \in {"closing", "cut"} \/ (conn[c].up = "open" /\ conn[c].peer)
  /\ Teardown({c})
  /\ lease' = IF conn[c].user THEN [lease EXCEPT ![c] = 0] ELSE lease
  /\ UNCHANGED <<admitted, clock, procs>>

\* The other end disappears without closing; only the heartbeat can tell.
PeerVanishes(c) ==
  /\ Reads(c) /\ conn[c].peer
  /\ conn' = [conn EXCEPT ![c].peer = FALSE]
  /\ UNCHANGED <<peers, lease, fanout, tracked, admitted, clock, procs>>

-----------------------------------------------------------------------------
(* The heartbeat.                                                          *)

Pong(c) ==
  /\ Reads(c) /\ conn[c].peer
  /\ conn' = [conn EXCEPT ![c].alive = TRUE]
  /\ UNCHANGED <<peers, lease, fanout, tracked, admitted, clock, procs>>

\* Mutant of Renewed: the sweep pings the sockets and leaves the registry alone.
PingedOnly(dead, kept) == [c \in Conns |-> IF c \in dead THEN 0 ELSE lease[c]]

\* The registry entries after a sweep that released `dead` and renewed `kept`.
Renewed(dead, kept) ==
  [c \in Conns |-> IF c \in dead THEN 0
                   ELSE IF c \in kept THEN LeaseIntervals ELSE lease[c]]

\* One sweep: cut what did not answer the last ping, close what is too far
\* behind, renew the registry entry of the others and ping them.
Sweep(n) ==
  /\ n \in due /\ n \in running \ stopping
  /\ \E slow \in SUBSET {c \in Listed(n) : conn[c].up = "open" /\ conn[c].alive} :
       LET dead == {c \in Listed(n) : ~conn[c].alive}
           rest == Listed(n) \ (dead \cup slow)
           after(c) == IF c \in slow THEN Closing(conn[c])
                       ELSE IF c \in rest THEN [conn[c] EXCEPT !.alive = FALSE]
                       ELSE IF c \in dead
                       THEN [conn[c] EXCEPT !.up = "cut", !.listed = FALSE, !.unwatch = 0]
                       ELSE conn[c]
           known == {c \in Conns : conn[c].user}
       IN  /\ Unwatch(dead)
           /\ tracked' = Untracked(dead \cap known)
           /\ peers' = [peers EXCEPT ![n] = SelectSeq(@, LAMBDA c : c \notin dead)]
           /\ lease' = Renewed(dead \cap known, rest \cap known)
           /\ conn' = [c \in Conns |-> after(c)]
  /\ due' = due \ {n}
  /\ UNCHANGED <<admitted, missed, procs>>

\* Mutant of Aged: entries are flags and stay until they are released.
NeverAged == lease

\* What is left of the registry's leases one interval later; REGISTER_LUA and
\* COUNT_LUA drop the entries that have run out before they count.
Aged == [c \in Conns |-> IF lease[c] = 0 THEN 0 ELSE lease[c] - 1]

\* A heartbeat interval passes.  A node may be late with one sweep, not with
\* two in a row.
Tick ==
  /\ due \cap missed = {}
  /\ lease' = Aged
  /\ missed' = due
  /\ due' = running \ stopping
  /\ UNCHANGED <<conn, peers, fanout, tracked, admitted, procs>>
-----------------------------------------------------------------------------
(* AUTHENTICATE.                                                           *)

Authenticate(c) ==
  /\ Reads(c) /\ conn[c].peer /\ ~conn[c].user /\ conn[c].auth = "idle"
  /\ conn' = [conn EXCEPT ![c].auth = "token"]
  /\ UNCHANGED <<peers, lease, fanout, tracked, admitted, clock, procs>>

TokenRefused(c) ==
  /\ Returns(c) /\ conn[c].auth = "token"
  /\ conn' = [conn EXCEPT ![c] = Closing([@ EXCEPT !.auth = "idle"])]
  /\ UNCHANGED <<peers, lease, fanout, tracked, admitted, clock, procs>>

\* The token is good: the socket joins its account's and is registered; the
\* count comes back later.
TokenAccepted(c) ==
  /\ Returns(c) /\ conn[c].auth = "token"
  /\ lease' = [lease EXCEPT ![c] = LeaseIntervals]
  /\ conn' = [conn EXCEPT ![c].auth = "count", ![c].user = TRUE,
       ![c].total = Cardinality({k \in Conns : lease'[k] > 0})]
  /\ peers' = [peers EXCEPT ![conn[c].node] =
                 IF Contains(@, c) THEN @ ELSE Append(@, c)]
  /\ UNCHANGED <<fanout, tracked, admitted, clock, procs>>

\* The count is known: over the cap, this node closes the account's oldest
\* sockets it has, and the new one too if that is not enough.
Counted(c) ==
  LET n      == conn[c].node
      excess == IF conn[c].total > Cap THEN conn[c].total - Cap ELSE 0
      others == SelectSeq(peers[n], LAMBDA k : k # c)
      oldest == {others[i] : i \in 1..(IF excess < Len(others) THEN excess ELSE Len(others))}
      out    == IF excess > Len(others) THEN oldest \cup {c} ELSE oldest
  IN  /\ Returns(c) /\ conn[c].auth = "count"
      /\ peers' = [peers EXCEPT ![n] = SelectSeq(@, LAMBDA k : k \notin out)]
      /\ lease' = [k \in Conns |-> IF k \in out THEN 0 ELSE lease[k]]
      /\ conn' = [k \in Conns |->
           LET now == IF k = c THEN [conn[k] EXCEPT !.auth = "idle", !.total = 0]
                      ELSE conn[k]
           IN  IF k \in out THEN Closing(now) ELSE now]
      /\ admitted' = IF c \notin out /\ conn[c].up = "open"
                     THEN admitted \cup {c} ELSE admitted
      /\ UNCHANGED <<fanout, tracked, clock, procs>>
-----------------------------------------------------------------------------
(* JOIN, ENTER_ROOM and LEAVE_MATCH.                                       *)

\* Mutant of MayStart: a second JOIN or ENTER_ROOM runs beside the first.
MayAlwaysStart(c) == conn[c].job.at # "gateway"

\* The guard of handleJoin and handleEnterRoom.
MayStart(c) == conn[c].job = Idle

EnterOrJoin(c, m) ==
  /\ Reads(c) /\ conn[c].peer /\ conn[c].user /\ MayStart(c)
  /\ conn' = [conn EXCEPT ![c].job = [at |-> "gateway", match |-> m]]
  /\ UNCHANGED <<peers, lease, fanout, tracked, admitted, clock, procs>>

GatewayRefuses(c) ==
  /\ Returns(c) /\ conn[c].job.at = "gateway"
  /\ conn' = [conn EXCEPT ![c].job = Idle]
  /\ UNCHANGED <<peers, lease, fanout, tracked, admitted, clock, procs>>

\* The gateway let the socket in: `watch` drops what it was watching and takes
\* up the match, at once if the node has a Watch object for it, after a
\* bus.subscribe otherwise.
GatewayAccepts(c) ==
  LET m == conn[c].job.match
      k == <<conn[c].node, m>>
      u == Unwatched({c})
      o == u.watches[k]
  IN  /\ Returns(c) /\ conn[c].job.at = "gateway"
      /\ watches' = u.watches
      /\ \/ /\ o # 0
            /\ watchers' = [u.watchers EXCEPT ![o].listeners = @ \cup {c}]
            /\ conn' = [conn EXCEPT ![c].match = m, ![c].unwatch = o, ![c].job = Idle]
            /\ tracked' = tracked \cup {<<m, c>>}
         \/ /\ o = 0
            /\ watchers' = u.watchers
            /\ conn' = [conn EXCEPT ![c].match = m, ![c].job.at = "subscribe"]
            /\ UNCHANGED tracked
      /\ UNCHANGED <<peers, lease, admitted, clock, procs>>

\* The bus subscription is up: its Watch object replaces whatever the map holds.
Subscribed(c) ==
  LET m == conn[c].job.match
      k == <<conn[c].node, m>>
      o == CHOOSE w \in Watch : /\ watchers[w].listeners = {}
                                /\ \A d \in Conns \ {c} : conn[d].unwatch # w
  IN  /\ Returns(c) /\ conn[c].job.at = "subscribe"
      /\ watchers' = [watchers EXCEPT ![o] = [key |-> k, on |-> TRUE, listeners |-> {c}]]
      /\ watches' = [watches EXCEPT ![k] = o]
      /\ conn' = [conn EXCEPT ![c].unwatch = o, ![c].job = Idle]
      /\ tracked' = tracked \cup {<<m, c>>}
      /\ UNCHANGED <<peers, lease, admitted, clock, procs>>

LeaveMatch(c) ==
  /\ Reads(c) /\ conn[c].peer /\ conn[c].user /\ conn[c].match # None
  /\ Unwatch({c})
  /\ tracked' = Untracked({c})
  /\ conn' = [conn EXCEPT ![c].match = None, ![c].unwatch = 0]
  /\ UNCHANGED <<peers, lease, admitted, clock, procs>>
-----------------------------------------------------------------------------
(* Shutdown and crashes.                                                   *)

Stop(n) ==
  /\ n \in running \ stopping
  /\ stopping' = stopping \cup {n}
  /\ Unwatch(Listed(n))
  /\ tracked' = Untracked({c \in Listed(n) : conn[c].user})
  /\ conn' = [c \in Conns |-> IF c \in Listed(n)
                              THEN [Closing(conn[c]) EXCEPT !.unwatch = 0] ELSE conn[c]]
  /\ due' = due \ {n}
  /\ UNCHANGED <<peers, lease, admitted, missed, running>>

\* close() has reported its sockets and forgets them.
Forget(n) ==
  /\ n \in running \cap stopping /\ Listed(n) # {}
  /\ conn' = [c \in Conns |-> IF c \in Listed(n) THEN [conn[c] EXCEPT !.listed = FALSE]
                              ELSE conn[c]]
  /\ peers' = [peers EXCEPT ![n] = <<>>]
  /\ UNCHANGED <<lease, fanout, tracked, admitted, clock, procs>>

\* The process is gone, and with it everything but the registry.
Crash(n) ==
  /\ n \in running /\ Cardinality(Nodes \ running) < MaxCrashes
  /\ running' = running \ {n}
  /\ conn' = [c \in Conns |->
       IF conn[c].node = n
       THEN [Unused EXCEPT !.up = "gone", !.node = n, !.user = conn[c].user] ELSE conn[c]]
  /\ peers' = [peers EXCEPT ![n] = <<>>]
  /\ tracked' = {t \in tracked : conn[t[2]].node # n}
  /\ watchers' = [o \in Watch |-> IF watchers[o].key[1] = n THEN NoWatch ELSE watchers[o]]
  /\ watches' = [k \in DOMAIN watches |-> IF k[1] = n THEN 0 ELSE watches[k]]
  /\ due' = due \ {n} /\ missed' = missed \ {n}
  /\ UNCHANGED <<lease, admitted, stopping>>
-----------------------------------------------------------------------------
Init ==
  /\ conn = [c \in Conns |-> Unused]
  /\ peers = [n \in Nodes |-> <<>>]
  /\ lease = [c \in Conns |-> 0]
  /\ watches = [k \in Nodes \X Matches |-> 0]
  /\ watchers = [o \in Watch |-> NoWatch]
  /\ tracked = {} /\ admitted = {}
  /\ due = Nodes /\ missed = {}
  /\ running = Nodes /\ stopping = {}

Connect(c) == \E n \in Nodes : Upgrade(c, n)

AuthStep(c) == Authenticate(c) \/ TokenAccepted(c) \/ Counted(c)

AuthFails(c) == AuthTimesOut(c) \/ TokenRefused(c)

MatchStep(c) ==
  \/ \E m \in Matches : EnterOrJoin(c, m)
  \/ GatewayRefuses(c) \/ GatewayAccepts(c) \/ Subscribed(c) \/ LeaveMatch(c)

HeartbeatStep ==
  \/ \E c \in Conns : Pong(c)
  \/ \E n \in Nodes : Sweep(n)
  \/ Tick

Fault == (\E c \in Conns : PeerVanishes(c)) \/ (\E n \in Nodes : Crash(n))

ShutdownStep == \E n \in Nodes : Stop(n) \/ Forget(n)

Next ==
  \/ \E c \in Conns : \/ Connect(c) \/ AuthStep(c) \/ AuthFails(c)
                       \/ MatchStep(c) \/ SocketCloses(c)
  \/ HeartbeatStep \/ Fault \/ ShutdownStep

Spec == Init /\ [][Next]_vars

\* The heartbeat and the registry's clock go on, and a socket that was closed
\* or destroyed on this side gets its 'close' event.
SocketEnds(c) == conn[c].up \in {"closing", "cut"} /\ SocketCloses(c)

Fairness ==
  /\ WF_vars(Tick)
  /\ \A n \in Nodes : WF_vars(Sweep(n))
  /\ \A c \in Conns : WF_vars(SocketEnds(c))

FairSpec == Spec /\ Fairness
-----------------------------------------------------------------------------
\* The subscriptions a connection is a listener of.
Hears(c) == {o \in Watch : c \in watchers[o].listeners}

Settled(c) == conn[c].up = "open" /\ conn[c].user /\ conn[c].job = Idle

\* An open socket with no JOIN or ENTER_ROOM under way hears the match it was
\* last let into, once, and no other, and its gateway asserts its presence there:
\* whatever messages, leaves and other sockets' subscriptions came in between
\* (watch 322-326, gateway.watch 430-449).
SettledIsWatched ==
  \A c \in Conns : Settled(c) /\ conn[c].match # None =>
    /\ \E o \in Watch : /\ Hears(c) = {o} /\ watchers[o].on
                       /\ watchers[o].key = <<conn[c].node, conn[c].match>>
    /\ <<conn[c].match, c>> \in tracked

\* A socket that was admitted and is open is in its account's count, though a
\* node may miss a sweep ("a single missed sweep (or a slow one) never drops a
\* live connection out of the count", ws-server.ts 109-111).
LiveIsCounted ==
  \A c \in admitted : conn[c].up = "open" => lease[c] > 0

\* A connection whose other end vanished, or whose process was killed, is
\* forgotten by its node and leaves the count: no cleanup but the heartbeat and
\* the leases (connection-registry.ts 9-15, sweep 257-288).
GhostsAgeOut ==
  \A c \in Conns :
    (conn[c].up = "gone" \/ ~conn[c].peer) ~> (lease[c] = 0 /\ ~conn[c].listed)
=============================================================================
