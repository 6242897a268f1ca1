------------------------- MODULE SocketServerProofs -------------------------
(***************************************************************************)
(* What the sockets of an account may rely on, for any number of nodes,    *)
(* connections and matches: an open one is counted, and one that is in a   *)
(* match hears it, once.                                                   *)
(***************************************************************************)
EXTENDS SocketServer, FiniteSetTheorems, TLAPS

\* A connection is a record, whatever its handlers have written into it.
Shape(q) ==
  /\ q = [up |-> q.up, node |-> q.node, listed |-> q.listed, peer |-> q.peer,
          user |-> q.user, alive |-> q.alive, match |-> q.match,
          unwatch |-> q.unwatch, job |-> q.job, auth |-> q.auth, total |-> q.total]
  /\ q.job = [at |-> q.job.at, match |-> q.job.match]

ConnectionOK(q) ==
  /\ Shape(q)
  /\ q.node \in Nodes \cup {None} /\ q.match \in Matches \cup {None}
  /\ q.up = "none" => q = Unused
  /\ q.job.at \in {"gateway", "subscribe"} => q.job.match \in Matches
  /\ q.job.at = "subscribe" => q.match \in {None, q.job.match}
  /\ q.auth = "count" => q.user

ConnectionsOK ==
  /\ running \subseteq Nodes
  /\ conn = [c \in Conns |-> conn[c]]
  /\ \A c \in Conns : ConnectionOK(conn[c])

\* How many intervals ago a node last swept.
Lateness(n) == IF n \notin due THEN 0 ELSE IF n \notin missed THEN 1 ELSE 2

Fresh(c) == lease[c] >= LeaseIntervals - Lateness(conn[c].node)

\* An open connection is its node's to sweep, and so its entry is no older than
\* the node is late.
LeasesOK ==
  /\ lease = [c \in Conns |-> lease[c]] /\ \A c \in Conns : lease[c] \in Int
  /\ \A c \in Conns : conn[c].up = "open" =>
       /\ conn[c].listed /\ conn[c].node \in running \ stopping
       /\ conn[c].user => Fresh(c)
  /\ \A c \in admitted : c \in Conns /\ conn[c].up # "none" /\ conn[c].user

\* A Watch object is a record too.
WatchShape(q) ==
  /\ q = [key |-> q.key, on |-> q.on, listeners |-> q.listeners]
  /\ q.key = <<q.key[1], q.key[2]>>

\* A listener is there on behalf of the connection's own closure, and for the
\* match that the connection is in, if it has not left it.
ListenersOK ==
  /\ watchers = [o \in Watch |-> watchers[o]]
  /\ \A o \in Watch : WatchShape(watchers[o])
  /\ \A o \in Watch : \A c \in watchers[o].listeners :
       /\ c \in Conns /\ conn[c].unwatch = o /\ conn[c].job.at # "subscribe"
       /\ watchers[o].on /\ watchers[o].key[1] = conn[c].node
       /\ conn[c].match \in {None, watchers[o].key[2]}

\* The Watch object that a node's map holds for a match is live and in use.
MapOK ==
  /\ watches = [k \in Nodes \X Matches |-> watches[k]]
  /\ \A k \in Nodes \X Matches : watches[k] # 0 =>
       /\ watches[k] \in Watch
       /\ watchers[watches[k]].key = k /\ watchers[watches[k]].on
       /\ watchers[watches[k]].listeners # {}

\* An open connection that is in a match and waits for no subscription hears it.
Attends(c) ==
  conn[c].match # None /\ conn[c].job.at # "subscribe" =>
    /\ conn[c].unwatch \in Watch /\ c \in watchers[conn[c].unwatch].listeners
    /\ <<conn[c].match, c>> \in tracked

AttendanceOK == \A c \in Conns : conn[c].up = "open" => Attends(c)

FanoutOK == ListenersOK /\ MapOK /\ AttendanceOK

IInv == ConnectionsOK /\ LeasesOK /\ FanoutOK
-----------------------------------------------------------------------------
\* A connection keeps its place among its account's sockets, or is not open.
KeptPlace(r, q) ==
  /\ r.user = q.user /\ (q.up # "none" => r.up # "none")
  /\ r.up = "open" => q.up = "open" /\ r.listed = q.listed /\ r.node = q.node

\* It listens as before, or is not open.
KeptWatch(r, q) ==
  /\ r.node = q.node /\ r.match = q.match /\ r.unwatch = q.unwatch
  /\ r.job = q.job \/ "subscribe" \notin {r.job.at, q.job.at}
  /\ r.up = "open" => q.up = "open"

\* The Watch objects ws and the map w after the closures of C have run: the
\* listeners C are gone, an object that keeps one is live, and the map names no
\* object without one.
Released(ws, w, C) ==
  /\ ws = [o \in Watch |-> ws[o]] /\ w = [k \in Nodes \X Matches |-> w[k]]
  /\ \A o \in Watch :
       /\ WatchShape(ws[o]) /\ ws[o].key = watchers[o].key
       /\ ws[o].listeners = watchers[o].listeners \ C
       /\ ws[o].listeners # {} => ws[o].on
  /\ \A k \in Nodes \X Matches : w[k] # 0 => w[k] = watches[k] /\ ws[w[k]].listeners # {}
-----------------------------------------------------------------------------
(* What the handlers write into a connection.                              *)

LEMMA UnusedShape ==
  ASSUME NEW r, r = Unused
  PROVE  /\ Shape(r) /\ r.up = "none" /\ r.node = None /\ r.user = FALSE /\ r.listed = FALSE
         /\ r.match = None /\ r.unwatch = 0 /\ r.job.at = "idle" /\ r.auth = "idle"
BY DEF Unused, Connection, Shape, Idle

LEMMA UnusedOK == ConnectionOK(Unused)
<1> DEFINE r == Unused
<1>1. /\ Shape(r) /\ r.up = "none" /\ r.node = None /\ r.user = FALSE
      /\ r.match = None /\ r.unwatch = 0 /\ r.job.at = "idle" /\ r.auth = "idle"
  BY UnusedShape
<1>2. r = Unused
  OBVIOUS
<1> HIDE DEF r
<1>3. ConnectionOK(r)
  BY <1>1, <1>2 DEF ConnectionOK
<1> QED BY <1>2, <1>3

LEMMA ConnectedOK ==
  ASSUME NEW n \in Nodes, NEW r, r = Connection(n)
  PROVE  /\ ConnectionOK(r) /\ r.up = "open" /\ r.listed /\ ~r.user
         /\ r.node = n /\ r.unwatch = 0 /\ r.match = None /\ r.job = Idle
BY DEF Connection, ConnectionOK, Shape, Idle

LEMMA ClosingOK ==
  ASSUME NEW q, ConnectionOK(q), q.up # "none", NEW r, r = Closing(q)
  PROVE  /\ ConnectionOK(r) /\ KeptWatch(r, q) /\ KeptPlace(r, q)
         /\ r.up # "none" /\ r.up # "open" /\ r.auth = q.auth
<1>1. /\ Shape(r) /\ r.node = q.node /\ r.match = q.match /\ r.unwatch = q.unwatch
      /\ r.job = q.job /\ r.auth = q.auth /\ r.user = q.user
      /\ r.up # "open" /\ r.up # "none"
  BY DEF ConnectionOK, Shape, Closing
<1> QED BY <1>1 DEF ConnectionOK, KeptWatch, KeptPlace

LEMMA CloseOrLeave ==
  ASSUME NEW q, ConnectionOK(q), NEW r, r = Closing(q)
  PROVE  ConnectionOK(r) /\ KeptWatch(r, q) /\ KeptPlace(r, q) /\ r.up # "open"
<1>1. CASE q.up # "none"
  BY <1>1, ClosingOK
<1>2. CASE q.up = "none"
  <2>1. r = q
    BY <1>2 DEF Closing, ConnectionOK, Shape
  <2> QED BY <1>2, <2>1 DEF KeptWatch, KeptPlace
<1> QED BY <1>1, <1>2

LEMMA NotedOK ==
  ASSUME NEW q, ConnectionOK(q), q.up # "none", NEW x, NEW r,
         r = [q EXCEPT !.peer = x] \/ r = [q EXCEPT !.alive = x]
  PROVE  /\ ConnectionOK(r) /\ KeptWatch(r, q) /\ KeptPlace(r, q)
<1>1. /\ Shape(r) /\ r.node = q.node /\ r.match = q.match
      /\ r.unwatch = q.unwatch /\ r.job = q.job /\ r.auth = q.auth
      /\ r.user = q.user /\ r.up = q.up /\ r.listed = q.listed
  BY DEF ConnectionOK, Shape
<1> QED BY <1>1 DEF ConnectionOK, KeptWatch, KeptPlace

LEMMA AuthOK ==
  ASSUME NEW q, ConnectionOK(q), q.up # "none", NEW x, x # "count", NEW r,
         r = [q EXCEPT !.auth = x]
  PROVE  /\ ConnectionOK(r) /\ KeptWatch(r, q) /\ KeptPlace(r, q)
<1>1. /\ Shape(r) /\ r.node = q.node /\ r.match = q.match
      /\ r.unwatch = q.unwatch /\ r.job = q.job /\ r.user = q.user
      /\ r.up = q.up /\ r.listed = q.listed
  BY DEF ConnectionOK, Shape
<1> QED BY <1>1 DEF ConnectionOK, KeptWatch, KeptPlace

LEMMA JobOK ==
  ASSUME NEW q, ConnectionOK(q), q.up # "none", NEW a, NEW m,
         a = "idle" \/ (a = "gateway" /\ m \in Matches), NEW r,
         r = [q EXCEPT !.job = [at |-> a, match |-> m]]
  PROVE  /\ ConnectionOK(r) /\ KeptPlace(r, q) /\ r.node = q.node
         /\ r.match = q.match /\ r.unwatch = q.unwatch /\ r.up = q.up
         /\ r.job.at = a /\ r.job.match = m
<1>1. /\ Shape(r) /\ r.node = q.node /\ r.match = q.match
      /\ r.unwatch = q.unwatch /\ r.auth = q.auth /\ r.user = q.user
      /\ r.up = q.up /\ r.listed = q.listed /\ r.job.at = a /\ r.job.match = m
  BY DEF ConnectionOK, Shape
<1> QED BY <1>1 DEF ConnectionOK, KeptPlace

LEMMA LeftOK ==
  ASSUME NEW q, ConnectionOK(q), q.up # "none", NEW r,
         r = [q EXCEPT !.match = None, !.unwatch = 0]
  PROVE  /\ ConnectionOK(r) /\ KeptPlace(r, q) /\ r.node = q.node
         /\ r.up = q.up /\ r.job = q.job /\ r.match = None /\ r.unwatch = 0
<1>1. /\ Shape(r) /\ r.node = q.node /\ r.auth = q.auth /\ r.user = q.user
      /\ r.up = q.up /\ r.listed = q.listed /\ r.job = q.job /\ r.match = None
      /\ r.unwatch = 0
  BY DEF ConnectionOK, Shape
<1> QED BY <1>1 DEF ConnectionOK, KeptPlace

LEMMA GoneOK ==
  ASSUME NEW q, ConnectionOK(q), q.up # "none", NEW r,
         r = [q EXCEPT !.up = "gone", !.listed = FALSE, !.unwatch = 0,
                       !.match = None, !.alive = TRUE, !.peer = TRUE]
  PROVE  /\ ConnectionOK(r) /\ KeptPlace(r, q) /\ r.up = "gone"
<1>1. /\ Shape(r) /\ r.node = q.node /\ r.auth = q.auth /\ r.user = q.user
      /\ r.job = q.job /\ r.match = None /\ r.up = "gone"
  BY DEF ConnectionOK, Shape
<1> QED BY <1>1 DEF ConnectionOK, KeptPlace

LEMMA CutOK ==
  ASSUME NEW q, ConnectionOK(q), q.up # "none", NEW r,
         r = [q EXCEPT !.up = "cut", !.listed = FALSE, !.unwatch = 0]
  PROVE  /\ ConnectionOK(r) /\ KeptPlace(r, q) /\ r.up = "cut"
<1>1. /\ Shape(r) /\ r.node = q.node /\ r.auth = q.auth /\ r.user = q.user
      /\ r.job = q.job /\ r.match = q.match /\ r.up = "cut"
  BY DEF ConnectionOK, Shape
<1> QED BY <1>1 DEF ConnectionOK, KeptPlace

LEMMA ForgottenOK ==
  ASSUME NEW q, ConnectionOK(q), q.up # "none", NEW r,
         r = [q EXCEPT !.listed = FALSE]
  PROVE  /\ ConnectionOK(r) /\ KeptWatch(r, q) /\ r.user = q.user
         /\ r.up = q.up
<1>1. /\ Shape(r) /\ r.node = q.node /\ r.auth = q.auth /\ r.user = q.user
      /\ r.job = q.job /\ r.match = q.match /\ r.unwatch = q.unwatch
      /\ r.up = q.up
  BY DEF ConnectionOK, Shape
<1> QED BY <1>1 DEF ConnectionOK, KeptWatch

LEMMA StoppedOK ==
  ASSUME NEW q, ConnectionOK(q), q.up # "none", NEW r,
         r = [Closing(q) EXCEPT !.unwatch = 0]
  PROVE  /\ ConnectionOK(r) /\ KeptPlace(r, q) /\ r.up # "open"
<1>1. /\ Shape(r) /\ r.node = q.node /\ r.up # "open" /\ r.user = q.user
      /\ (r.up = q.up \/ r.up = "closing")
      /\ r.auth = q.auth /\ r.match = q.match /\ r.job = q.job
  BY DEF ConnectionOK, Shape, Closing
<1> QED BY <1>1 DEF ConnectionOK, KeptPlace
-----------------------------------------------------------------------------
(* What a step leaves standing.                                            *)

LEMMA InUse ==
  ASSUME ConnectionsOK, NEW c \in Conns
  PROVE  /\ ConnectionOK(conn[c])
         /\ conn[c].node \in running => conn[c].up # "none" /\ conn[c].node \in Nodes
<1>1. ConnectionOK(conn[c]) /\ running \subseteq Nodes
  BY DEF ConnectionsOK
<1>2. conn[c].up = "none" => conn[c].node = None
  BY <1>1, UnusedShape DEF ConnectionOK
<1> QED BY <1>1, <1>2, SocketAssumption

LEMMA OneChanges ==
  ASSUME ConnectionsOK, NEW c \in Conns, NEW r, conn' = [conn EXCEPT ![c] = r]
  PROVE  /\ conn' = [d \in Conns |-> conn'[d]] /\ conn'[c] = r
         /\ \A d \in Conns \ {c} : conn'[d] = conn[d]
BY DEF ConnectionsOK

LEMMA ConnectionsStep ==
  ASSUME ConnectionsOK, running' \subseteq running, conn' = [d \in Conns |-> conn'[d]],
         \A d \in Conns : conn'[d] = conn[d] \/ ConnectionOK(conn'[d])
  PROVE  ConnectionsOK'
BY DEF ConnectionsOK

LEMMA LeasesStep ==
  ASSUME LeasesOK, UNCHANGED <<lease, admitted, clock, procs>>,
         \A d \in Conns : KeptPlace(conn'[d], conn[d])
  PROVE  LeasesOK'
<1>1. UNCHANGED <<lease, admitted, due, missed, running, stopping>>
  BY DEF clock, procs
<1>2. ASSUME NEW d \in Conns, conn'[d].up = "open"
      PROVE  /\ conn'[d].listed /\ conn'[d].node \in running' \ stopping'
             /\ conn'[d].user => Fresh(d)'
  <2>1. /\ conn[d].up = "open" /\ conn'[d].node = conn[d].node
        /\ conn'[d].user = conn[d].user /\ conn'[d].listed = conn[d].listed
    BY <1>2 DEF KeptPlace
  <2>2. conn'[d].listed
    BY <2>1 DEF LeasesOK
  <2>3. conn[d].node \in running \ stopping
    BY <2>1 DEF LeasesOK
  <2>4. conn[d].user => Fresh(d)
    BY <2>1 DEF LeasesOK
  <2>5. Fresh(d)' <=> Fresh(d)
    BY <1>1, <2>1 DEF Fresh, Lateness
  <2> QED BY <1>1, <2>1, <2>2, <2>3, <2>4, <2>5
<1>3. \A d \in admitted' : d \in Conns /\ conn'[d].up # "none" /\ conn'[d].user
  BY <1>1 DEF LeasesOK, KeptPlace
<1> QED BY <1>1, <1>2, <1>3 DEF LeasesOK

LEMMA FanoutStep ==
  ASSUME FanoutOK, UNCHANGED <<fanout, tracked>>,
         \A d \in Conns : KeptWatch(conn'[d], conn[d])
  PROVE  FanoutOK'
<1>1. UNCHANGED <<watches, watchers, tracked>>
  BY DEF fanout
<1>2. ListenersOK'
  BY <1>1 DEF FanoutOK, ListenersOK, KeptWatch
<1>3. MapOK'
  BY <1>1 DEF FanoutOK, MapOK
<1>4. AttendanceOK'
  <2> SUFFICES ASSUME NEW d \in Conns, conn'[d].up = "open"
               PROVE  Attends(d)'
    BY DEF AttendanceOK
  <2>1. /\ conn'[d].match = conn[d].match /\ conn'[d].unwatch = conn[d].unwatch
        /\ \/ conn'[d].job = conn[d].job
           \/ conn'[d].job.at # "subscribe" /\ conn[d].job.at # "subscribe"
        /\ Attends(d)
    BY DEF FanoutOK, AttendanceOK, KeptWatch
  <2> QED BY <1>1, <2>1 DEF Attends
<1> QED BY <1>2, <1>3, <1>4 DEF FanoutOK

\* The steps of one connection that neither its listener nor its place notices.
LEMMA QuietStep ==
  ASSUME IInv, NEW c \in Conns, NEW r, conn' = [conn EXCEPT ![c] = r],
         ConnectionOK(r), KeptPlace(r, conn[c]), KeptWatch(r, conn[c]),
         UNCHANGED <<lease, fanout, tracked, admitted, clock, procs>>
  PROVE  IInv'
<1>1. /\ ConnectionsOK /\ LeasesOK /\ FanoutOK /\ UNCHANGED running
  BY DEF IInv, procs
<1>2. /\ conn' = [d \in Conns |-> conn'[d]] /\ conn'[c] = r
      /\ \A d \in Conns \ {c} : conn'[d] = conn[d]
  BY <1>1, OneChanges
<1>3. ConnectionsOK'
  BY <1>1, <1>2, ConnectionsStep
<1>4. \A d \in Conns : KeptPlace(conn'[d], conn[d]) /\ KeptWatch(conn'[d], conn[d])
  BY <1>2 DEF KeptPlace, KeptWatch
<1>5. LeasesOK'
  BY <1>1, <1>4, LeasesStep
<1>6. FanoutOK'
  BY <1>1, <1>4, FanoutStep
<1> QED BY <1>3, <1>5, <1>6 DEF IInv
-----------------------------------------------------------------------------
(* The steps of one connection that neither its listener nor its place     *)
(* notices.                                                                *)

LEMMA QuietOK ==
  ASSUME IInv, NEW c \in Conns,
         AuthTimesOut(c) \/ PeerVanishes(c) \/ Pong(c) \/ Authenticate(c) \/ TokenRefused(c)
  PROVE  IInv'
<1> DEFINE q == conn[c]
<1>1. ConnectionOK(q) /\ q.up # "none"
  BY InUse DEF IInv, AuthTimesOut, PeerVanishes, Pong, Authenticate, TokenRefused,
               Reads, Returns
<1>2. CASE AuthTimesOut(c)
  BY <1>1, <1>2, ClosingOK, QuietStep DEF AuthTimesOut
<1>3. CASE PeerVanishes(c)
  BY <1>1, <1>3, NotedOK, QuietStep DEF PeerVanishes
<1>4. CASE Pong(c)
  BY <1>1, <1>4, NotedOK, QuietStep DEF Pong
<1>5. CASE Authenticate(c)
  BY <1>1, <1>5, AuthOK, QuietStep DEF Authenticate
<1>6. CASE TokenRefused(c)
  <2> DEFINE a == [q EXCEPT !.auth = "idle"]
             r == Closing(a)
  <2>1. ConnectionOK(a) /\ KeptWatch(a, q) /\ KeptPlace(a, q) /\ a.up # "none"
    BY <1>1, AuthOK DEF KeptPlace
  <2> HIDE DEF a
  <2>2. ConnectionOK(r) /\ KeptWatch(r, a) /\ KeptPlace(r, a) /\ r.up # "none"
    BY <2>1, ClosingOK
  <2>3. KeptWatch(r, q) /\ KeptPlace(r, q)
    BY <2>1, <2>2 DEF KeptWatch, KeptPlace
  <2>4. conn' = [conn EXCEPT ![c] = r]
    BY <1>6 DEF TokenRefused, a
  <2> QED BY <1>6, <2>2, <2>3, <2>4, QuietStep DEF TokenRefused
<1> QED BY <1>2, <1>3, <1>4, <1>5, <1>6

LEMMA JobStepOK ==
  ASSUME IInv, NEW c \in Conns,
         (\E m \in Matches : EnterOrJoin(c, m)) \/ GatewayRefuses(c)
  PROVE  IInv'
<1> DEFINE q == conn[c]
<1>1. ConnectionOK(q) /\ q.up # "none"
  BY InUse DEF IInv, EnterOrJoin, GatewayRefuses, Reads, Returns
<1>2. ASSUME NEW m \in Matches, EnterOrJoin(c, m) PROVE IInv'
  <2> DEFINE r == [q EXCEPT !.job = [at |-> "gateway", match |-> m]]
  <2>1. /\ ConnectionOK(r) /\ KeptPlace(r, q) /\ r.node = q.node /\ r.up = q.up
        /\ r.match = q.match /\ r.unwatch = q.unwatch /\ r.job.at = "gateway"
    BY <1>1, JobOK
  <2>2. q.job.at = "idle"
    BY <1>2 DEF EnterOrJoin, MayStart, Idle
  <2>3. KeptWatch(r, q)
    BY <2>1, <2>2 DEF KeptWatch
  <2>4. conn' = [conn EXCEPT ![c] = r]
    BY <1>2 DEF EnterOrJoin
  <2> QED BY <1>2, <2>1, <2>3, <2>4, QuietStep DEF EnterOrJoin
<1>3. CASE GatewayRefuses(c)
  <2> DEFINE r == [q EXCEPT !.job = Idle]
  <2>1. /\ ConnectionOK(r) /\ KeptPlace(r, q) /\ r.node = q.node /\ r.up = q.up
        /\ r.match = q.match /\ r.unwatch = q.unwatch /\ r.job.at = "idle"
    BY <1>1, JobOK DEF Idle
  <2>2. KeptWatch(r, q)
    BY <1>3, <2>1 DEF KeptWatch, GatewayRefuses
  <2>3. conn' = [conn EXCEPT ![c] = r]
    BY <1>3 DEF GatewayRefuses
  <2> QED BY <1>3, <2>1, <2>2, <2>3, QuietStep DEF GatewayRefuses
<1> QED BY <1>2, <1>3
-----------------------------------------------------------------------------
(* Watching and leaving a match.                                           *)

LEMMA ListenerAdded ==
  ASSUME NEW q, WatchShape(q), NEW x, NEW r, r = [q EXCEPT !.listeners = @ \cup {x}]
  PROVE  /\ WatchShape(r) /\ r.key = q.key /\ r.on = q.on
         /\ r.listeners = q.listeners \cup {x}
BY DEF WatchShape

LEMMA UnwatchedOK ==
  ASSUME FanoutOK, NEW C, NEW u, u = Unwatched(C)
  PROVE  Released(u.watchers, u.watches, C)
<1> DEFINE rest(o) == watchers[o].listeners \ {c \in C : conn[c].unwatch = o}
           emptied == {o \in Watch : rest(o) = {} /\ \E c \in C : conn[c].unwatch = o}
<1>1. /\ u.watchers = [o \in Watch |-> [watchers[o] EXCEPT
                         !.listeners = rest(o), !.on = @ /\ o \notin emptied]]
      /\ u.watches = [k \in DOMAIN watches |->
                        IF \E o \in emptied : watchers[o].key = k THEN 0 ELSE watches[k]]
  BY DEF Unwatched
<1>2. ListenersOK /\ MapOK
  BY DEF FanoutOK
<1>3. ASSUME NEW o \in Watch
      PROVE  rest(o) = watchers[o].listeners \ C
  BY <1>2 DEF ListenersOK
<1>4. ASSUME NEW o \in Watch, rest(o) # {}
      PROVE  watchers[o].on /\ o \notin emptied
  BY <1>2, <1>4 DEF ListenersOK
<1>5. ASSUME NEW o \in Watch, watchers[o].listeners # {}, o \notin emptied
      PROVE  rest(o) # {}
  <2>1. PICK c \in watchers[o].listeners : TRUE
    BY <1>5
  <2>2. conn[c].unwatch = o
    BY <1>2 DEF ListenersOK
  <2> QED BY <1>5, <2>1, <2>2
<1>6. ASSUME NEW o \in Watch
      PROVE  /\ WatchShape(u.watchers[o]) /\ u.watchers[o].key = watchers[o].key
             /\ u.watchers[o].listeners = watchers[o].listeners \ C
             /\ u.watchers[o].listeners # {} => u.watchers[o].on
  <2>1. PICK b : b = (watchers[o].on /\ o \notin emptied)
    OBVIOUS
  <2> DEFINE q == watchers[o]
             l == rest(o)
             r == u.watchers[o]
  <2>2. r = [q EXCEPT !.listeners = l, !.on = b]
    BY <1>1, <2>1
  <2>3. WatchShape(q)
    BY <1>2 DEF ListenersOK
  <2>4. (l # {} => b = TRUE) /\ l = q.listeners \ C
    BY <1>3, <1>4, <2>1
  <2>5. WatchShape(r) /\ r.key = q.key /\ r.listeners = l /\ r.on = b
    <3> HIDE DEF q, l, r
    <3> QED BY <2>2, <2>3 DEF WatchShape
  <2>6. r.listeners = q.listeners \ C /\ (r.listeners # {} => r.on)
    <3> HIDE DEF q, l, r
    <3> QED BY <2>4, <2>5
  <2> QED BY <2>5, <2>6
<1>7. ASSUME NEW k \in Nodes \X Matches, u.watches[k] # 0
      PROVE  u.watches[k] = watches[k] /\ u.watchers[u.watches[k]].listeners # {}
  <2> DEFINE dropped == \E o \in emptied : watchers[o].key = k
  <2>1. k \in DOMAIN watches
    BY <1>2 DEF MapOK
  <2>2. u.watches[k] = IF dropped THEN 0 ELSE watches[k]
    BY <1>1, <2>1
  <2> HIDE DEF emptied
  <2>3. watches[k] = u.watches[k] /\ ~ dropped
    BY <1>7, <2>2
  <2>4. /\ watches[k] \in Watch /\ watchers[watches[k]].key = k
        /\ watchers[watches[k]].listeners # {}
    BY <1>2, <1>7, <2>3 DEF MapOK
  <2>5. rest(watches[k]) # {}
    BY <1>5, <2>3, <2>4
  <2> QED BY <1>3, <1>6, <2>3, <2>4, <2>5
<1>8. u.watchers = [o \in Watch |-> u.watchers[o]] /\ u.watches = [k \in Nodes \X Matches |-> u.watches[k]]
  BY <1>1, <1>2 DEF MapOK
<1> QED BY <1>6, <1>7, <1>8 DEF Released

\* The steps that take the listeners C out: their connections close, or leave
\* their match.
LEMMA ReleaseStep ==
  ASSUME FanoutOK, NEW C, Unwatch(C),
         \A d \in C : conn'[d].up # "open" \/ conn'[d].match = None,
         \A d \in Conns \ C : KeptWatch(conn'[d], conn[d]),
         \A d \in Conns \ C : \A m : <<m, d>> \in tracked => <<m, d>> \in tracked'
  PROVE  FanoutOK'
<1>1. ListenersOK /\ MapOK /\ AttendanceOK
  BY DEF FanoutOK
<1>2. Released(watchers', watches', C)
  BY UnwatchedOK DEF Unwatch
<1>3. ListenersOK'
  <2>1. ASSUME NEW o \in Watch, NEW d \in watchers'[o].listeners
        PROVE  /\ d \in Conns /\ conn'[d].unwatch = o /\ conn'[d].job.at # "subscribe"
               /\ watchers'[o].on /\ watchers'[o].key[1] = conn'[d].node
               /\ conn'[d].match \in {None, watchers'[o].key[2]}
    <3>1. /\ d \in watchers[o].listeners /\ d \notin C /\ watchers'[o].on
          /\ watchers'[o].key = watchers[o].key
      BY <1>2, <2>1 DEF Released
    <3>2. /\ d \in Conns /\ conn[d].unwatch = o /\ conn[d].job.at # "subscribe"
          /\ watchers[o].key[1] = conn[d].node
          /\ conn[d].match \in {None, watchers[o].key[2]}
      BY <1>1, <3>1 DEF ListenersOK
    <3>3. KeptWatch(conn'[d], conn[d])
      BY <3>1, <3>2
    <3> QED BY <3>1, <3>2, <3>3 DEF KeptWatch
  <2>2. \A o \in Watch : WatchShape(watchers[o])'
    BY <1>2 DEF Released
  <2> QED BY <1>2, <2>1, <2>2 DEF ListenersOK, Released
<1>4. MapOK'
  BY <1>1, <1>2 DEF MapOK, Released
<1>5. AttendanceOK'
  <2> SUFFICES ASSUME NEW d \in Conns, conn'[d].up = "open"
               PROVE  Attends(d)'
    BY DEF AttendanceOK
  <2>1. CASE d \in C
    BY <2>1 DEF Attends
  <2>2. CASE d \notin C
    <3>1. /\ conn'[d].match = conn[d].match /\ conn'[d].unwatch = conn[d].unwatch
          /\ \/ conn'[d].job = conn[d].job
             \/ conn'[d].job.at # "subscribe" /\ conn[d].job.at # "subscribe"
          /\ Attends(d)
      BY <1>1, <2>2 DEF AttendanceOK, KeptWatch
    <3>2. \A o \in Watch : d \in watchers[o].listeners => d \in watchers'[o].listeners
      BY <1>2, <2>2 DEF Released
    <3>3. \A m : <<m, d>> \in tracked => <<m, d>> \in tracked'
      BY <2>2
    <3> QED BY <3>1, <3>2, <3>3 DEF Attends
  <2> QED BY <2>1, <2>2
<1> QED BY <1>3, <1>4, <1>5 DEF FanoutOK

LEMMA DropOK ==
  ASSUME IInv, NEW c \in Conns, SocketCloses(c) \/ LeaveMatch(c)
  PROVE  ConnectionsOK' /\ FanoutOK'
<1> DEFINE q == conn[c]
           r == conn'[c]
<1>1. ConnectionsOK /\ FanoutOK /\ ConnectionOK(q) /\ q.up # "none"
  BY InUse DEF IInv, SocketCloses, LeaveMatch, Reads
<1>2. /\ conn' = [d \in Conns |-> conn'[d]] /\ \A d \in Conns \ {c} : conn'[d] = conn[d]
      /\ ConnectionOK(r) /\ (r.up # "open" \/ r.match = None)
      /\ Unwatch({c})
      /\ \A d \in Conns \ {c} : \A m : <<m, d>> \in tracked => <<m, d>> \in tracked'
      /\ UNCHANGED running
  <2>1. CASE SocketCloses(c)
    <3>1. r = [q EXCEPT !.up = "gone", !.listed = FALSE, !.unwatch = 0,
                        !.match = None, !.alive = TRUE, !.peer = TRUE]
      BY <1>1, <2>1 DEF SocketCloses, Teardown
    <3>2. ConnectionOK(r) /\ r.up = "gone"
      BY <1>1, <3>1, GoneOK
    <3> QED BY <2>1, <3>2 DEF SocketCloses, Teardown, Untracked, procs
  <2>2. CASE LeaveMatch(c)
    <3> DEFINE l == [q EXCEPT !.match = None, !.unwatch = 0]
    <3>1. conn' = [conn EXCEPT ![c] = l] /\ q.match # None
      BY <2>2 DEF LeaveMatch
    <3>2. ConnectionOK(l) /\ l.match = None
      BY <1>1, LeftOK
    <3>3. /\ conn' = [d \in Conns |-> conn'[d]] /\ r = l
          /\ \A d \in Conns \ {c} : conn'[d] = conn[d]
      BY <1>1, <3>1, OneChanges
    <3> HIDE DEF l
    <3> QED BY <2>2, <3>1, <3>2, <3>3 DEF LeaveMatch, Untracked, KeptWatch, procs
  <2> QED BY <2>1, <2>2
<1>3. ConnectionsOK'
  BY <1>1, <1>2, ConnectionsStep
<1>4. /\ \A d \in Conns \ {c} : KeptWatch(conn'[d], conn[d])
      /\ \A d \in {c} : conn'[d].up # "open" \/ conn'[d].match = None
  BY <1>2 DEF KeptWatch
<1>5. FanoutOK'
  BY <1>1, <1>2, <1>4, ReleaseStep
<1> QED BY <1>3, <1>5

\* A match whose Watch object o the node has is watched at once: the closures of
\* c have left ws and w, and c becomes r.
Joins(c, r, m, o, ws, w) ==
  /\ Released(ws, w, {c})
  /\ m \in Matches /\ r.node \in Nodes /\ o = w[<<r.node, m>>] /\ o # 0
  /\ conn' = [conn EXCEPT ![c] = r]
  /\ watchers' = [ws EXCEPT ![o].listeners = @ \cup {c}] /\ watches' = w
  /\ tracked' = tracked \cup {<<m, c>>}
  /\ r.match = m /\ r.unwatch = o /\ r.job.at = "idle"

LEMMA JoinsListeners ==
  ASSUME ConnectionsOK, FanoutOK, NEW c \in Conns, NEW r, NEW m, NEW o, NEW ws, NEW w,
         Joins(c, r, m, o, ws, w)
  PROVE  FanoutOK'
<1> USE DEF Joins
<1> DEFINE k == <<r.node, m>>
<1>1. /\ conn'[c] = r /\ \A d \in Conns \ {c} : conn'[d] = conn[d]
  BY OneChanges
<1>2. ListenersOK /\ MapOK /\ AttendanceOK
  BY DEF FanoutOK
<1>3. /\ k \in Nodes \X Matches /\ o = watches[k] /\ o \in Watch
      /\ watchers[o].key = k /\ ws[o].on /\ ws[o].listeners # {}
  <2>1. k \in Nodes \X Matches
    OBVIOUS
  <2>2. o = watches[k] /\ ws[o].listeners # {}
    BY <2>1 DEF Released
  <2>3. o \in Watch /\ watchers[o].key = k
    BY <1>2, <2>1, <2>2 DEF MapOK
  <2> QED BY <2>1, <2>2, <2>3 DEF Released
<1>4. ASSUME NEW p \in Watch
      PROVE  /\ WatchShape(watchers[p])' /\ watchers'[p].key = watchers[p].key
             /\ watchers'[p].on = ws[p].on
             /\ watchers'[p].listeners =
                  (watchers[p].listeners \ {c}) \cup (IF p = o THEN {c} ELSE {})
  <2>1. /\ WatchShape(ws[p]) /\ ws[p].key = watchers[p].key
        /\ ws[p].listeners = watchers[p].listeners \ {c}
    BY DEF Released
  <2>2. CASE p = o
    <3> DEFINE q == ws[p]
               x == watchers'[p]
    <3>1. x = [q EXCEPT !.listeners = @ \cup {c}]
      BY <1>3, <2>2 DEF Released
    <3>2. /\ WatchShape(x) /\ x.key = q.key /\ x.on = q.on
          /\ x.listeners = q.listeners \cup {c}
      <4>1. WatchShape(q)
        BY <2>1
      <4> HIDE DEF q, x
      <4> QED BY <3>1, <4>1, ListenerAdded
    <3>3. watchers'[p].key = watchers[p].key /\ watchers'[p].on = ws[p].on
      BY <2>1, <3>2
    <3>4. watchers'[p].listeners = (watchers[p].listeners \ {c}) \cup {c}
      BY <2>1, <3>2
    <3> QED BY <2>2, <3>2, <3>3, <3>4
  <2>3. CASE p # o
    <3>1. watchers'[p] = ws[p]
      BY <2>3 DEF Released
    <3>2. watchers'[p].key = watchers[p].key /\ watchers'[p].on = ws[p].on
      BY <2>1, <3>1
    <3>3. watchers'[p].listeners = watchers[p].listeners \ {c}
      BY <2>1, <3>1
    <3> QED BY <2>1, <2>3, <3>1, <3>2, <3>3
  <2> QED BY <2>2, <2>3
<1>5. ListenersOK'
  <2>1. ASSUME NEW p \in Watch, NEW d \in watchers'[p].listeners
        PROVE  /\ d \in Conns /\ conn'[d].unwatch = p /\ conn'[d].job.at # "subscribe"
               /\ watchers'[p].on /\ watchers'[p].key[1] = conn'[d].node
               /\ conn'[d].match \in {None, watchers'[p].key[2]}
    <3>1. CASE p = o /\ d = c
      <4>1. watchers'[o].on /\ watchers'[o].key = k
        BY <1>3, <1>4
      <4> QED BY <1>1, <3>1, <4>1
    <3>2. CASE d \in watchers[p].listeners /\ d # c
      <4>1. ws[p].listeners # {} /\ ws[p].on
        BY <3>2 DEF Released
      <4> QED BY <1>1, <1>2, <1>4, <3>2, <4>1 DEF ListenersOK
    <3> QED BY <1>4, <2>1, <3>1, <3>2
  <2>2. watchers' = [p \in Watch |-> watchers'[p]]
    BY DEF Released
  <2> QED BY <1>4, <2>1, <2>2 DEF ListenersOK
<1>6. MapOK'
  <2>1. ASSUME NEW l \in Nodes \X Matches, w[l] # 0
        PROVE  /\ w[l] \in Watch /\ watchers'[w[l]].key = l /\ watchers'[w[l]].on
               /\ watchers'[w[l]].listeners # {}
    <3>1. w[l] = watches[l] /\ ws[w[l]].listeners # {}
      BY <2>1 DEF Released
    <3>2. w[l] \in Watch /\ watchers[w[l]].key = l
      BY <1>2, <2>1, <3>1 DEF MapOK
    <3>3. ws[w[l]].on /\ ws[w[l]].listeners = watchers[w[l]].listeners \ {c}
      BY <3>1, <3>2 DEF Released
    <3> QED BY <1>4, <3>1, <3>2, <3>3
  <2> QED BY <2>1 DEF MapOK, Released
<1>7. AttendanceOK'
  <2> SUFFICES ASSUME NEW d \in Conns, conn'[d].up = "open"
               PROVE  Attends(d)'
    BY DEF AttendanceOK
  <2>1. CASE d = c
    BY <1>1, <1>3, <1>4, <2>1 DEF Attends
  <2>2. CASE d # c
    BY <1>1, <1>2, <1>4, <2>2 DEF AttendanceOK, Attends
  <2> QED BY <2>1, <2>2
<1> QED BY <1>5, <1>6, <1>7 DEF FanoutOK

\* Otherwise nothing is heard until the subscription is up.
LEMMA AwaitsSubscription ==
  ASSUME ConnectionsOK, FanoutOK, NEW c \in Conns, NEW r,
         conn' = [conn EXCEPT ![c] = r], Released(watchers', watches', {c}),
         r.job.at = "subscribe", UNCHANGED tracked
  PROVE  FanoutOK'
<1>1. /\ conn'[c] = r /\ \A d \in Conns \ {c} : conn'[d] = conn[d]
  BY OneChanges
<1>2. ListenersOK /\ MapOK /\ AttendanceOK
  BY DEF FanoutOK
<1>3. ListenersOK'
  <2>1. ASSUME NEW p \in Watch, NEW d \in watchers'[p].listeners
        PROVE  /\ d \in Conns /\ conn'[d].unwatch = p /\ conn'[d].job.at # "subscribe"
               /\ watchers'[p].on /\ watchers'[p].key[1] = conn'[d].node
               /\ conn'[d].match \in {None, watchers'[p].key[2]}
    <3>1. /\ d \in watchers[p].listeners /\ d # c /\ watchers'[p].on
          /\ watchers'[p].key = watchers[p].key
      BY <2>1 DEF Released
    <3> QED BY <1>1, <1>2, <3>1 DEF ListenersOK
  <2>2. \A p \in Watch : WatchShape(watchers[p])'
    BY DEF Released
  <2> QED BY <2>1, <2>2 DEF ListenersOK, Released
<1>4. MapOK'
  BY <1>2 DEF MapOK, Released
<1>5. AttendanceOK'
  <2> SUFFICES ASSUME NEW d \in Conns, conn'[d].up = "open"
               PROVE  Attends(d)'
    BY DEF AttendanceOK
  <2>1. \A p \in Watch : watchers'[p].listeners = watchers[p].listeners \ {c}
    BY DEF Released
  <2>2. CASE d = c
    BY <1>1, <2>2 DEF Attends
  <2>3. CASE d # c
    BY <1>1, <1>2, <2>1, <2>3 DEF AttendanceOK, Attends
  <2> QED BY <2>2, <2>3
<1> QED BY <1>3, <1>4, <1>5 DEF FanoutOK

LEMMA GatewayAcceptsOK ==
  ASSUME IInv, NEW c \in Conns, GatewayAccepts(c)
  PROVE  IInv'
<1> DEFINE q == conn[c]
           m == q.job.match
           u == Unwatched({c})
           o == u.watches[<<q.node, m>>]
           r == conn'[c]
<1>1. /\ ConnectionsOK /\ LeasesOK /\ FanoutOK /\ ConnectionOK(q) /\ q.up # "none"
      /\ q.node \in Nodes /\ q.job.at = "gateway" /\ m \in Matches
  <2>1. ConnectionOK(q) /\ q.up # "none" /\ q.node \in Nodes /\ q.job.at = "gateway"
    BY InUse DEF IInv, GatewayAccepts, Returns
  <2> QED BY <2>1 DEF IInv, ConnectionOK
<1>2. Released(u.watchers, u.watches, {c})
  BY <1>1, UnwatchedOK
<1>3. UNCHANGED <<lease, admitted, clock, procs, running>>
  BY DEF GatewayAccepts, procs
<1>4. ASSUME NEW l, conn' = [conn EXCEPT ![c] = l], ConnectionOK(l), KeptPlace(l, q)
      PROVE  ConnectionsOK' /\ LeasesOK'
  <2>1. /\ conn' = [d \in Conns |-> conn'[d]] /\ conn'[c] = l
        /\ \A d \in Conns \ {c} : conn'[d] = conn[d]
    BY <1>1, <1>4, OneChanges
  <2>2. \A d \in Conns : KeptPlace(conn'[d], conn[d])
    BY <1>4, <2>1 DEF KeptPlace
  <2>3. ConnectionsOK'
    BY <1>1, <1>3, <1>4, <2>1, ConnectionsStep
  <2> QED BY <1>1, <1>3, <2>2, <2>3, LeasesStep
<1>5. CASE /\ o # 0
           /\ watchers' = [u.watchers EXCEPT ![o].listeners = @ \cup {c}]
           /\ conn' = [conn EXCEPT ![c].match = m, ![c].unwatch = o, ![c].job = Idle]
           /\ tracked' = tracked \cup {<<m, c>>}
  <2> DEFINE l == [q EXCEPT !.match = m, !.unwatch = o, !.job = Idle]
  <2>1. conn' = [conn EXCEPT ![c] = l]
    BY <1>1, <1>5 DEF ConnectionsOK
  <2>2. /\ ConnectionOK(l) /\ KeptPlace(l, q) /\ l.node = q.node
        /\ l.match = m /\ l.unwatch = o /\ l.job.at = "idle"
    <3>1. l = [q EXCEPT !.match = m, !.unwatch = o, !.job = Idle]
      OBVIOUS
    <3> HIDE DEF l, m, o, q
    <3>2. /\ Shape(l) /\ l.node = q.node /\ l.auth = q.auth /\ l.user = q.user
          /\ l.up = q.up /\ l.listed = q.listed
          /\ l.match = m /\ l.unwatch = o /\ l.job.at = "idle"
      BY <1>1, <3>1 DEF ConnectionOK, Shape, Idle
    <3> QED BY <1>1, <3>2 DEF ConnectionOK, KeptPlace
  <2>3. watches' = u.watches
    BY DEF GatewayAccepts
  <2>4. FanoutOK'
    <3> DEFINE ws == u.watchers
               w == u.watches
    <3>1. /\ Released(ws, w, {c}) /\ watches' = w
          /\ watchers' = [ws EXCEPT ![o].listeners = @ \cup {c}]
      BY <1>2, <1>5, <2>3
    <3>2. o = w[<<l.node, m>>] /\ l.node \in Nodes
      BY <1>1, <2>2
    <3>3. Joins(c, l, m, o, ws, w)
      <4> HIDE DEF l, m, o, ws, w
      <4> QED BY <1>1, <1>5, <2>1, <2>2, <3>1, <3>2 DEF Joins
    <3> QED BY <1>1, <3>3, JoinsListeners
  <2> HIDE DEF l
  <2> QED BY <1>4, <2>1, <2>2, <2>4 DEF IInv
<1>6. CASE /\ o = 0 /\ watchers' = u.watchers
           /\ conn' = [conn EXCEPT ![c].match = m, ![c].job.at = "subscribe"]
           /\ UNCHANGED tracked
  <2> DEFINE l == [q EXCEPT !.match = m, !.job.at = "subscribe"]
  <2>1. conn' = [conn EXCEPT ![c] = l]
    BY <1>1, <1>6 DEF ConnectionsOK
  <2>2. ConnectionOK(l) /\ KeptPlace(l, q) /\ l.job.at = "subscribe"
    <3>1. l = [q EXCEPT !.match = m, !.job.at = "subscribe"]
      OBVIOUS
    <3>2. m = q.job.match
      OBVIOUS
    <3> HIDE DEF l, m, q
    <3>3. /\ Shape(l) /\ l.node = q.node /\ l.auth = q.auth /\ l.user = q.user
          /\ l.up = q.up /\ l.listed = q.listed /\ l.unwatch = q.unwatch
          /\ l.match = m /\ l.job.match = m /\ l.job.at = "subscribe"
      BY <1>1, <3>1, <3>2 DEF ConnectionOK, Shape
    <3> QED BY <1>1, <3>3 DEF ConnectionOK, KeptPlace
  <2>3. watches' = u.watches
    BY DEF GatewayAccepts
  <2> HIDE DEF l, u
  <2>4. FanoutOK'
    BY <1>1, <1>2, <1>6, <2>1, <2>2, <2>3, AwaitsSubscription
  <2> QED BY <1>4, <2>1, <2>2, <2>4 DEF IInv
<1> QED BY <1>5, <1>6 DEF GatewayAccepts

\* There are as many Watch objects to draw from as connections, and one that no
\* other connection's closure refers to is free.
LEMMA AWatchIsFree ==
  ASSUME FanoutOK, NEW c \in Conns, conn[c].job.at = "subscribe"
  PROVE  \E w \in Watch : /\ watchers[w].listeners = {}
                          /\ \A d \in Conns \ {c} : conn[d].unwatch # w
<1> SUFFICES ASSUME \A w \in Watch : \E d \in Conns \ {c} : conn[d].unwatch = w
             PROVE  FALSE
  <2>1. PICK w \in Watch : \A d \in Conns \ {c} : conn[d].unwatch # w
    BY Zenon
  <2>2. watchers[w].listeners = {}
    BY <2>1 DEF FanoutOK, ListenersOK
  <2> QED BY <2>1, <2>2
<1> DEFINE n == Cardinality(Conns)
           S == Conns \ {c}
           f == [w \in Watch |-> CHOOSE d \in S : conn[d].unwatch = w]
<1>1. n \in Nat /\ IsFiniteSet(S) /\ Cardinality(S) = n - 1
  BY SocketAssumption, FS_CardinalityType, FS_RemoveElement
<1>2. IsFiniteSet(Watch) /\ Cardinality(Watch) = n
  BY <1>1, FS_Interval DEF Watch
<1>3. f \in [Watch -> S] /\ \A w \in Watch : conn[f[w]].unwatch = w
  OBVIOUS
<1> HIDE DEF f, S
<1>4. \E v, w \in Watch : v # w /\ f[v] = f[w]
  BY <1>1, <1>2, <1>3, FS_PigeonHole
<1> QED BY <1>3, <1>4

LEMMA SubscribedOK ==
  ASSUME IInv, NEW c \in Conns, Subscribed(c)
  PROVE  IInv'
<1> DEFINE q == conn[c]
           m == q.job.match
           k == <<q.node, m>>
           free(w) == /\ watchers[w].listeners = {}
                      /\ \A d \in Conns \ {c} : conn[d].unwatch # w
           o == CHOOSE w \in Watch : free(w)
           l == [q EXCEPT !.unwatch = o, !.job = Idle]
           x == [key |-> k, on |-> TRUE, listeners |-> {c}]
<1>1. /\ ConnectionsOK /\ LeasesOK /\ ListenersOK /\ MapOK /\ AttendanceOK
      /\ ConnectionOK(q) /\ q.up # "none"
      /\ q.node \in Nodes /\ q.job.at = "subscribe" /\ m \in Matches /\ q.match \in {None, m}
  <2>1. ConnectionOK(q) /\ q.up # "none" /\ q.node \in Nodes /\ q.job.at = "subscribe"
    BY InUse DEF IInv, Subscribed, Returns
  <2> QED BY <2>1 DEF IInv, FanoutOK, ConnectionOK
<1>2. /\ watchers' = [watchers EXCEPT ![o] = x] /\ watches' = [watches EXCEPT ![k] = o]
      /\ tracked' = tracked \cup {<<m, c>>}
      /\ UNCHANGED <<lease, admitted, clock, procs, running>>
  BY DEF Subscribed, procs
<1>3. conn' = [conn EXCEPT ![c] = l]
  <2>1. conn' = [conn EXCEPT ![c].unwatch = o, ![c].job = Idle]
    BY DEF Subscribed
  <2> HIDE DEF o
  <2> QED BY <1>1, <2>1 DEF ConnectionsOK
<1>4. o \in Watch /\ free(o) /\ k \in Nodes \X Matches
  <2>1. \E w \in Watch : free(w)
    BY <1>1, AWatchIsFree DEF IInv
  <2> QED BY <1>1, <2>1
<1>5. /\ ConnectionOK(l) /\ KeptPlace(l, q) /\ l.node = q.node /\ l.match = q.match
      /\ l.unwatch = o /\ l.job.at = "idle"
  <2>1. l = [q EXCEPT !.unwatch = o, !.job = Idle]
    OBVIOUS
  <2> HIDE DEF l, o, q, m
  <2>2. /\ Shape(l) /\ l.node = q.node /\ l.auth = q.auth /\ l.user = q.user
        /\ l.up = q.up /\ l.listed = q.listed /\ l.match = q.match
        /\ l.unwatch = o /\ l.job.at = "idle"
    BY <1>1, <2>1 DEF ConnectionOK, Shape, Idle
  <2> QED BY <1>1, <2>2 DEF ConnectionOK, KeptPlace
<1>6. /\ WatchShape(x) /\ x.key = k /\ x.on /\ x.listeners = {c}
  BY DEF WatchShape
<1>7. free(o) => /\ watchers[o].listeners = {}
                 /\ \A d \in Conns \ {c} : conn[d].unwatch # o
  OBVIOUS
<1>8. x.key[1] = q.node /\ x.key[2] = m
  OBVIOUS
<1> HIDE DEF o, l, x, free
<1>9. /\ conn' = [d \in Conns |-> conn'[d]] /\ conn'[c] = l
      /\ \A d \in Conns \ {c} : conn'[d] = conn[d]
  BY <1>1, <1>3, OneChanges
<1>10. ConnectionsOK'
  BY <1>1, <1>2, <1>5, <1>9, ConnectionsStep
<1>11. LeasesOK'
  <2>1. \A d \in Conns : KeptPlace(conn'[d], conn[d])
    BY <1>5, <1>9 DEF KeptPlace
  <2> QED BY <1>1, <1>2, <2>1, LeasesStep
<1>12. /\ watchers' = [p \in Watch |-> watchers'[p]] /\ watchers'[o] = x
       /\ \A p \in Watch \ {o} : watchers'[p] = watchers[p]
  BY <1>1, <1>2, <1>4 DEF ListenersOK
<1>13. ListenersOK'
  <2>1. ASSUME NEW p \in Watch, NEW d \in watchers'[p].listeners
        PROVE  /\ d \in Conns /\ conn'[d].unwatch = p /\ conn'[d].job.at # "subscribe"
               /\ watchers'[p].on /\ watchers'[p].key[1] = conn'[d].node
               /\ conn'[d].match \in {None, watchers'[p].key[2]}
    <3>1. CASE p = o
      BY <1>1, <1>5, <1>6, <1>8, <1>9, <1>12, <2>1, <3>1
    <3>2. CASE p # o
      <4>1. d \in watchers[p].listeners /\ watchers'[p] = watchers[p]
        BY <1>12, <2>1, <3>2
      <4>2. d # c
        BY <1>1, <4>1 DEF ListenersOK
      <4> QED BY <1>1, <1>9, <4>1, <4>2 DEF ListenersOK
    <3> QED BY <3>1, <3>2
  <2>2. \A p \in Watch : WatchShape(watchers[p])'
    BY <1>1, <1>6, <1>12 DEF ListenersOK
  <2> QED BY <1>12, <2>1, <2>2 DEF ListenersOK
<1>14. MapOK'
  <2>1. /\ watches' = [i \in Nodes \X Matches |-> watches'[i]] /\ watches'[k] = o
        /\ \A i \in (Nodes \X Matches) \ {k} : watches'[i] = watches[i]
    BY <1>1, <1>2, <1>4 DEF MapOK
  <2>2. ASSUME NEW i \in Nodes \X Matches, watches'[i] # 0
        PROVE  /\ watches'[i] \in Watch /\ watchers'[watches'[i]].key = i
               /\ watchers'[watches'[i]].on /\ watchers'[watches'[i]].listeners # {}
    <3>1. CASE i = k
      BY <1>4, <1>6, <1>12, <2>1, <3>1
    <3>2. CASE i # k
      <4>1. /\ watches'[i] = watches[i] /\ watches[i] \in Watch
            /\ watchers[watches[i]].key = i /\ watchers[watches[i]].on
            /\ watchers[watches[i]].listeners # {}
        BY <1>1, <2>1, <2>2, <3>2 DEF MapOK
      <4>2. watches[i] # o
        BY <1>4, <1>7, <4>1
      <4> QED BY <1>12, <4>1, <4>2
    <3> QED BY <3>1, <3>2
  <2> QED BY <2>1, <2>2 DEF MapOK
<1>15. AttendanceOK'
  <2> SUFFICES ASSUME NEW d \in Conns, conn'[d].up = "open"
               PROVE  Attends(d)'
    BY DEF AttendanceOK
  <2>1. CASE d = c
    BY <1>1, <1>2, <1>4, <1>5, <1>6, <1>9, <1>12, <2>1 DEF Attends
  <2>2. CASE d # c
    <3>1. conn'[d] = conn[d] /\ Attends(d) /\ conn[d].unwatch # o
      BY <1>1, <1>4, <1>7, <1>9, <2>2 DEF AttendanceOK
    <3> QED BY <1>2, <1>12, <3>1 DEF Attends
  <2> QED BY <2>1, <2>2
<1> QED BY <1>10, <1>11, <1>13, <1>14, <1>15 DEF IInv, FanoutOK
-----------------------------------------------------------------------------
(* The count of an account's connections.                                  *)

LEMMA UpgradeOK ==
  ASSUME IInv, NEW c \in Conns, NEW n \in Nodes, Upgrade(c, n)
  PROVE  IInv'
<1> DEFINE r == Connection(n)
<1>1. /\ ConnectionsOK /\ LeasesOK /\ ListenersOK /\ MapOK /\ AttendanceOK
      /\ conn[c].up = "none" /\ n \in running \ stopping
      /\ UNCHANGED <<lease, admitted, due, missed, running, stopping, watches, watchers, tracked>>
  BY DEF IInv, FanoutOK, Upgrade, fanout, clock, procs
<1>2. conn[c].unwatch = 0
  BY <1>1, UnusedShape DEF ConnectionsOK, ConnectionOK
<1>3. /\ ConnectionOK(r) /\ r.up = "open" /\ r.listed /\ ~r.user
      /\ r.node = n /\ r.unwatch = 0 /\ r.match = None /\ r.job = Idle
  BY ConnectedOK
<1>4. conn' = [conn EXCEPT ![c] = r]
  BY DEF Upgrade
<1> HIDE DEF r
<1>5. /\ conn' = [d \in Conns |-> conn'[d]] /\ conn'[c] = r
      /\ \A d \in Conns \ {c} : conn'[d] = conn[d]
  BY <1>1, <1>4, OneChanges
<1>6. ConnectionsOK'
  BY <1>1, <1>3, <1>5, ConnectionsStep
<1>7. LeasesOK'
  <2>1. ASSUME NEW d \in Conns, conn'[d].up = "open"
        PROVE  /\ conn'[d].listed /\ conn'[d].node \in running' \ stopping'
               /\ conn'[d].user => Fresh(d)'
    <3>1. CASE d = c
      BY <1>1, <1>3, <1>5, <3>1
    <3>2. CASE d # c
      <4>1. conn'[d] = conn[d]
        BY <1>5, <3>2
      <4>2. /\ conn[d].listed /\ conn[d].node \in running \ stopping
            /\ conn[d].user => Fresh(d)
        BY <1>1, <2>1, <4>1 DEF LeasesOK
      <4>3. Fresh(d) => Fresh(d)'
        BY <1>1, <4>1 DEF Fresh, Lateness
      <4> QED BY <1>1, <4>1, <4>2, <4>3
    <3> QED BY <3>1, <3>2
  <2>2. \A d \in admitted' : d \in Conns /\ conn'[d].up # "none" /\ conn'[d].user
    BY <1>1, <1>5 DEF LeasesOK
  <2> QED BY <1>1, <2>1, <2>2 DEF LeasesOK
<1>8. ASSUME NEW o \in Watch, NEW d \in watchers[o].listeners
      PROVE  d \in Conns /\ d # c
  BY <1>1, <1>2 DEF ListenersOK, Watch
<1>9. ListenersOK' /\ MapOK'
  <2>1. ListenersOK'
    BY <1>1, <1>5, <1>8 DEF ListenersOK
  <2>2. MapOK'
    BY <1>1 DEF MapOK
  <2> QED BY <2>1, <2>2
<1>10. AttendanceOK'
  BY <1>1, <1>3, <1>5 DEF AttendanceOK, Attends
<1> QED BY <1>6, <1>7, <1>9, <1>10 DEF IInv, FanoutOK

\* A lease is aged once for every interval, and its node is at most two late.
LEMMA TickOK == IInv /\ Tick => IInv'
<1> SUFFICES ASSUME IInv, Tick PROVE IInv'
  OBVIOUS
<1>1. /\ ConnectionsOK /\ LeasesOK /\ FanoutOK /\ due \cap missed = {}
      /\ lease' = Aged /\ missed' = due /\ due' = running \ stopping
      /\ UNCHANGED <<conn, fanout, tracked, admitted, running, stopping>>
  BY DEF IInv, Tick, procs
<1>2. ConnectionsOK' /\ FanoutOK'
  <2>1. /\ conn' = [d \in Conns |-> conn'[d]]
        /\ \A d \in Conns : conn'[d] = conn[d] /\ KeptWatch(conn'[d], conn[d])
    BY <1>1 DEF ConnectionsOK, KeptWatch
  <2>2. ConnectionsOK'
    BY <1>1, <2>1, ConnectionsStep
  <2> QED BY <1>1, <2>1, <2>2, FanoutStep
<1>3. ASSUME NEW d \in Conns
      PROVE  lease[d] \in Int /\ lease'[d] \in Int /\ (lease[d] > 0 => lease'[d] = lease[d] - 1)
  <2>1. lease[d] \in Int
    BY <1>1 DEF LeasesOK
  <2>2. lease'[d] = IF lease[d] = 0 THEN 0 ELSE lease[d] - 1
    BY <1>1 DEF Aged
  <2> QED BY <2>1, <2>2
<1>4. ASSUME NEW d \in Conns, conn[d].node \in running \ stopping, Fresh(d)
      PROVE  Fresh(d)'
  <2> DEFINE n == conn[d].node
  <2>1. /\ Lateness(n) \in {0, 1} /\ Lateness(n)' = Lateness(n) + 1
    BY <1>1, <1>4 DEF Lateness
  <2>2. lease[d] >= LeaseIntervals - Lateness(n)
    BY <1>4 DEF Fresh
  <2>3. lease'[d] >= LeaseIntervals - (Lateness(n) + 1)
    BY <1>3, <2>1, <2>2, SocketAssumption
  <2> QED BY <1>1, <2>1, <2>3 DEF Fresh
<1>5. LeasesOK'
  <2>1. lease' = [d \in Conns |-> lease'[d]]
    BY <1>1 DEF Aged
  <2>2. ASSUME NEW d \in Conns, conn'[d].up = "open"
        PROVE  /\ conn'[d].listed /\ conn'[d].node \in running' \ stopping'
               /\ conn'[d].user => Fresh(d)'
    BY <1>1, <1>4, <2>2 DEF LeasesOK
  <2> QED BY <1>1, <1>3, <2>1, <2>2 DEF LeasesOK
<1> QED BY <1>2, <1>5 DEF IInv

LEMMA TokenAcceptedOK ==
  ASSUME IInv, NEW c \in Conns, TokenAccepted(c)
  PROVE  IInv'
<1> DEFINE q == conn[c]
           t == Cardinality({d \in Conns : lease'[d] > 0})
           r == [q EXCEPT !.auth = "count", !.user = TRUE, !.total = t]
<1>1. /\ ConnectionsOK /\ LeasesOK /\ FanoutOK /\ ConnectionOK(q) /\ q.up # "none"
      /\ lease' = [lease EXCEPT ![c] = LeaseIntervals]
      /\ UNCHANGED <<fanout, tracked, admitted, due, missed, running, stopping>>
  BY InUse DEF IInv, TokenAccepted, Returns, clock, procs
<1>2. conn' = [conn EXCEPT ![c] = r]
  BY <1>1 DEF TokenAccepted, ConnectionsOK
<1>3. /\ ConnectionOK(r) /\ KeptWatch(r, q) /\ r.up = q.up /\ r.user /\ r.listed = q.listed
  <2>1. r = [q EXCEPT !.auth = "count", !.user = TRUE, !.total = t]
    OBVIOUS
  <2> HIDE DEF r, q, t
  <2>2. /\ Shape(r) /\ r.node = q.node /\ r.match = q.match /\ r.unwatch = q.unwatch
        /\ r.job = q.job /\ r.up = q.up /\ r.listed = q.listed /\ r.user
    BY <1>1, <2>1 DEF ConnectionOK, Shape
  <2> QED BY <1>1, <2>2 DEF ConnectionOK, KeptWatch
<1> HIDE DEF r
<1>4. /\ conn' = [d \in Conns |-> conn'[d]] /\ conn'[c] = r
      /\ \A d \in Conns \ {c} : conn'[d] = conn[d]
  BY <1>1, <1>2, OneChanges
<1>5. ConnectionsOK'
  BY <1>1, <1>3, <1>4, ConnectionsStep
<1>6. \A d \in Conns : KeptWatch(conn'[d], conn[d])
  BY <1>3, <1>4 DEF KeptWatch
<1>7. FanoutOK'
  BY <1>1, <1>6, FanoutStep
<1>8. LeasesOK'
  <2>1. /\ lease' = [d \in Conns |-> lease'[d]] /\ \A d \in Conns : lease'[d] \in Int
        /\ lease'[c] = LeaseIntervals /\ \A d \in Conns \ {c} : lease'[d] = lease[d]
    BY <1>1, SocketAssumption DEF LeasesOK
  <2>2. Fresh(c)'
    BY <2>1, SocketAssumption DEF Fresh, Lateness
  <2>3. ASSUME NEW d \in Conns, conn'[d].up = "open"
        PROVE  /\ conn'[d].listed /\ conn'[d].node \in running' \ stopping'
               /\ conn'[d].user => Fresh(d)'
    <3>1. conn[d].up = "open" /\ conn'[d].node = conn[d].node
      BY <1>3, <1>4, <2>3 DEF KeptWatch
    <3>2. /\ conn[d].listed /\ conn[d].node \in running \ stopping
          /\ conn[d].user => Fresh(d)
      BY <1>1, <3>1 DEF LeasesOK
    <3>3. CASE d = c
      <4>1. conn'[d].listed
        BY <1>3, <1>4, <3>2, <3>3
      <4> QED BY <1>1, <2>2, <3>1, <3>2, <3>3, <4>1
    <3>4. CASE d # c
      <4>1. Fresh(d) => Fresh(d)'
        BY <1>1, <2>1, <3>1, <3>4 DEF Fresh, Lateness
      <4>2. conn'[d] = conn[d]
        BY <1>4, <3>4
      <4> QED BY <1>1, <3>2, <4>1, <4>2
    <3> QED BY <3>3, <3>4
  <2>4. \A d \in admitted' : d \in Conns /\ conn'[d].up # "none" /\ conn'[d].user
    BY <1>1, <1>3, <1>4 DEF LeasesOK
  <2> QED BY <2>1, <2>3, <2>4 DEF LeasesOK
<1> QED BY <1>5, <1>7, <1>8 DEF IInv

\* An open connection after the step was one before it, and is not counted less.
CountKept(d) ==
  conn'[d].up = "open" =>
    /\ KeptPlace(conn'[d], conn[d]) /\ conn'[d].node \in running' \ stopping'
    /\ conn[d].user /\ Fresh(d) => Fresh(d)'

LEMMA CountStep ==
  ASSUME LeasesOK, lease' = [d \in Conns |-> lease'[d]], \A d \in Conns : lease'[d] \in Int,
         \A d \in Conns : CountKept(d),
         \A d \in admitted' : d \in Conns /\ conn'[d].up # "none" /\ conn'[d].user
  PROVE  LeasesOK'
<1>1. ASSUME NEW d \in Conns, conn'[d].up = "open"
      PROVE  /\ conn'[d].listed /\ conn'[d].node \in running' \ stopping'
             /\ conn'[d].user => Fresh(d)'
  <2>1. /\ conn[d].up = "open" /\ conn'[d].listed = conn[d].listed
        /\ conn'[d].user = conn[d].user /\ conn'[d].node \in running' \ stopping'
        /\ (conn[d].user /\ Fresh(d) => Fresh(d)')
    BY <1>1 DEF CountKept, KeptPlace
  <2>2. conn[d].listed /\ (conn[d].user => Fresh(d))
    BY <2>1 DEF LeasesOK
  <2> QED BY <2>1, <2>2
<1> QED BY <1>1 DEF LeasesOK

LEMMA CountedOK ==
  ASSUME IInv, NEW c \in Conns, Counted(c)
  PROVE  IInv'
<1>1. /\ ConnectionsOK /\ LeasesOK /\ FanoutOK
      /\ ConnectionOK(conn[c]) /\ conn[c].up # "none" /\ conn[c].user
      /\ UNCHANGED <<fanout, tracked, due, missed, running, stopping>>
  <2>1. ConnectionOK(conn[c]) /\ conn[c].up # "none" /\ conn[c].auth = "count"
    BY InUse DEF IInv, Counted, Returns
  <2> QED BY <2>1 DEF IInv, ConnectionOK, Counted, clock, procs
<1> DEFINE now(d) == IF d = c THEN [conn[d] EXCEPT !.auth = "idle", !.total = 0] ELSE conn[d]
<1>2. PICK out :
        /\ lease' = [d \in Conns |-> IF d \in out THEN 0 ELSE lease[d]]
        /\ conn' = [d \in Conns |-> IF d \in out THEN Closing(now(d)) ELSE now(d)]
        /\ admitted' = IF c \notin out /\ conn[c].up = "open"
                       THEN admitted \cup {c} ELSE admitted
  BY DEF Counted
<1>3. ASSUME NEW d \in Conns
      PROVE  /\ ConnectionOK(now(d)) /\ KeptWatch(now(d), conn[d])
             /\ KeptPlace(now(d), conn[d])
  <2>1. CASE d = c
    <3> DEFINE q == conn[c]
               r == [q EXCEPT !.auth = "idle", !.total = 0]
    <3>1. r = [q EXCEPT !.auth = "idle", !.total = 0]
      OBVIOUS
    <3>2. /\ Shape(r) /\ r.node = q.node /\ r.match = q.match /\ r.unwatch = q.unwatch
          /\ r.job = q.job /\ r.up = q.up /\ r.listed = q.listed /\ r.user = q.user
      <4> HIDE DEF r, q
      <4> QED BY <1>1, <3>1 DEF ConnectionOK, Shape, q
    <3>3. ConnectionOK(r) /\ KeptWatch(r, q) /\ KeptPlace(r, q)
      <4> HIDE DEF r
      <4> QED BY <1>1, <3>2 DEF ConnectionOK, KeptWatch, KeptPlace
    <3> QED BY <2>1, <3>3
  <2>2. CASE d # c
    <3>1. ConnectionOK(conn[d]) /\ now(d) = conn[d]
      BY <1>1, <2>2 DEF ConnectionsOK
    <3> QED BY <3>1 DEF KeptWatch, KeptPlace
  <2> QED BY <2>1, <2>2
<1> HIDE DEF now
<1>4. ASSUME NEW d \in Conns
      PROVE  /\ ConnectionOK(conn'[d]) /\ KeptWatch(conn'[d], conn[d])
             /\ KeptPlace(conn'[d], conn[d]) /\ (d \in out => conn'[d].up # "open")
  <2>1. CASE d \in out
    <3>1. conn'[d] = Closing(now(d))
      BY <1>2, <2>1
    <3>2. /\ ConnectionOK(conn'[d]) /\ KeptWatch(conn'[d], now(d))
          /\ KeptPlace(conn'[d], now(d)) /\ conn'[d].up # "open"
      BY <1>3, <3>1, CloseOrLeave
    <3> QED BY <1>3, <3>2 DEF KeptWatch, KeptPlace
  <2>2. CASE d \notin out
    <3>1. conn'[d] = now(d)
      BY <1>2, <2>2
    <3> QED BY <1>3, <2>2, <3>1
  <2> QED BY <2>1, <2>2
<1>5. ConnectionsOK'
  <2>1. conn' = [d \in Conns |-> conn'[d]]
    BY <1>2
  <2> QED BY <1>1, <1>4, <2>1, ConnectionsStep
<1>6. FanoutOK'
  BY <1>1, <1>4, FanoutStep
<1>7. LeasesOK'
  <2>1. /\ lease' = [d \in Conns |-> lease'[d]] /\ \A d \in Conns : lease'[d] \in Int
        /\ \A d \in Conns \ out : lease'[d] = lease[d]
    BY <1>1, <1>2 DEF LeasesOK
  <2>2. ASSUME NEW d \in Conns, conn'[d].up = "open"
        PROVE  /\ KeptPlace(conn'[d], conn[d]) /\ conn'[d].node \in running' \ stopping'
               /\ conn[d].user /\ Fresh(d) => Fresh(d)'
    <3>1. d \notin out /\ conn[d].up = "open" /\ conn'[d].node = conn[d].node
      BY <1>4, <2>2 DEF KeptPlace
    <3>2. conn[d].node \in running \ stopping
      BY <1>1, <3>1 DEF LeasesOK
    <3>3. Fresh(d) => Fresh(d)'
      BY <1>1, <2>1, <3>1 DEF Fresh, Lateness
    <3> QED BY <1>1, <1>4, <3>1, <3>2, <3>3
  <2>3. \A d \in admitted' : d \in admitted \/ d = c
    BY <1>2
  <2>4. \A d \in admitted' : d \in Conns /\ conn[d].up # "none" /\ conn[d].user
    BY <1>1, <2>3 DEF LeasesOK
  <2>5. \A d \in admitted' : d \in Conns /\ conn'[d].up # "none" /\ conn'[d].user
    BY <1>4, <2>4 DEF KeptPlace
  <2>6. \A d \in Conns : CountKept(d)
    BY <2>2 DEF CountKept
  <2> QED BY <1>1, <2>1, <2>5, <2>6, CountStep
<1> QED BY <1>5, <1>6, <1>7 DEF IInv

LEMMA DropCountOK ==
  ASSUME IInv, NEW c \in Conns, SocketCloses(c) \/ LeaveMatch(c)
  PROVE  IInv'
<1> DEFINE q == conn[c]
           r == conn'[c]
<1>1. /\ ConnectionsOK /\ LeasesOK /\ ConnectionOK(q) /\ q.up # "none"
      /\ UNCHANGED <<admitted, due, missed, running, stopping>>
  BY InUse DEF IInv, SocketCloses, LeaveMatch, Reads, clock, procs
<1>2. /\ \A d \in Conns \ {c} : conn'[d] = conn[d]
      /\ KeptPlace(r, q)
      /\ lease' = [d \in Conns |-> lease'[d]] /\ \A d \in Conns : lease'[d] \in Int
      /\ \A d \in Conns \ {c} : lease'[d] = lease[d]
      /\ r.up = "open" => lease'[c] = lease[c]
  <2>1. CASE SocketCloses(c)
    <3>1. r = [q EXCEPT !.up = "gone", !.listed = FALSE, !.unwatch = 0,
                        !.match = None, !.alive = TRUE, !.peer = TRUE]
      BY <1>1, <2>1 DEF SocketCloses, Teardown
    <3>2. KeptPlace(r, q) /\ r.up = "gone"
      BY <1>1, <3>1, GoneOK
    <3>3. \A d \in Conns \ {c} : conn'[d] = conn[d]
      BY <2>1 DEF SocketCloses, Teardown
    <3>4. lease' = [lease EXCEPT ![c] = 0] \/ lease' = lease
      BY <2>1 DEF SocketCloses
    <3> QED BY <1>1, <3>2, <3>3, <3>4 DEF LeasesOK
  <2>2. CASE LeaveMatch(c)
    <3> DEFINE l == [q EXCEPT !.match = None, !.unwatch = 0]
    <3>1. conn' = [conn EXCEPT ![c] = l] /\ lease' = lease
      BY <2>2 DEF LeaveMatch
    <3>2. KeptPlace(l, q)
      BY <1>1, LeftOK
    <3>3. r = l /\ \A d \in Conns \ {c} : conn'[d] = conn[d]
      BY <1>1, <3>1, OneChanges
    <3> HIDE DEF l
    <3> QED BY <1>1, <3>1, <3>2, <3>3 DEF LeasesOK
  <2> QED BY <2>1, <2>2
<1>3. ASSUME NEW d \in Conns, conn'[d].up = "open"
      PROVE  /\ KeptPlace(conn'[d], conn[d]) /\ conn'[d].node \in running' \ stopping'
             /\ conn[d].user /\ Fresh(d) => Fresh(d)'
  <2>1. KeptPlace(conn'[d], conn[d]) /\ lease'[d] = lease[d]
    BY <1>2, <1>3 DEF KeptPlace
  <2>2. conn[d].up = "open" /\ conn'[d].node = conn[d].node
    BY <1>3, <2>1 DEF KeptPlace
  <2>3. conn[d].node \in running \ stopping
    BY <1>1, <2>2 DEF LeasesOK
  <2>4. Fresh(d) => Fresh(d)'
    BY <1>1, <2>1, <2>2 DEF Fresh, Lateness
  <2> QED BY <1>1, <2>1, <2>2, <2>3, <2>4
<1>4. \A d \in admitted' : d \in Conns /\ conn'[d].up # "none" /\ conn'[d].user
  BY <1>1, <1>2 DEF LeasesOK, KeptPlace
<1>5. \A d \in Conns : CountKept(d)
  BY <1>3 DEF CountKept
<1>6. LeasesOK'
  BY <1>1, <1>2, <1>4, <1>5, CountStep
<1> QED BY <1>6, DropOK DEF IInv

LEMMA ListedOK ==
  ASSUME ConnectionsOK, NEW n \in Nodes, NEW c \in Listed(n)
  PROVE  c \in Conns /\ ConnectionOK(conn[c]) /\ conn[c].up # "none" /\ conn[c].node = n
<1>1. c \in Conns /\ ConnectionOK(conn[c]) /\ conn[c].listed /\ conn[c].node = n
  BY DEF Listed, ConnectionsOK
<1>2. conn[c].up = "none" => ~conn[c].listed
  BY <1>1, UnusedShape DEF ConnectionOK
<1> QED BY <1>1, <1>2

LEMMA SweepOK ==
  ASSUME IInv, NEW n \in Nodes, Sweep(n)
  PROVE  IInv'
<1> DEFINE dead == {c \in Listed(n) : ~conn[c].alive}
           known == {c \in Conns : conn[c].user}
<1>1. /\ ConnectionsOK /\ LeasesOK /\ FanoutOK /\ n \in running \ stopping
      /\ due' = due \ {n} /\ UNCHANGED <<admitted, missed, running, stopping>>
  BY DEF IInv, Sweep, procs
<1>2. PICK slow \in SUBSET {c \in Listed(n) : conn[c].up = "open" /\ conn[c].alive} :
        LET rest == Listed(n) \ (dead \cup slow) IN
        /\ Unwatch(dead) /\ tracked' = Untracked(dead \cap known)
        /\ lease' = Renewed(dead \cap known, rest \cap known)
        /\ conn' = [c \in Conns |->
             IF c \in slow THEN Closing(conn[c])
             ELSE IF c \in rest THEN [conn[c] EXCEPT !.alive = FALSE]
             ELSE IF c \in dead
             THEN [conn[c] EXCEPT !.up = "cut", !.listed = FALSE, !.unwatch = 0]
             ELSE conn[c]]
  BY DEF Sweep
<1> DEFINE rest == Listed(n) \ (dead \cup slow)
<1>3. slow \cap dead = {} /\ Listed(n) \subseteq Conns
  BY DEF Listed
<1>4. ASSUME NEW c \in Conns
      PROVE  /\ conn'[c] = conn[c] \/ ConnectionOK(conn'[c])
             /\ KeptPlace(conn'[c], conn[c])
             /\ c \in dead => conn'[c].up # "open"
             /\ c \notin dead => KeptWatch(conn'[c], conn[c])
             /\ c \in Listed(n) /\ conn'[c].up = "open" => c \in rest
  <2>1. CASE c \in slow
    <3>1. conn'[c] = Closing(conn[c])
      BY <1>2, <2>1
    <3>2. ConnectionOK(conn[c]) /\ conn[c].up # "none"
      BY <1>1, <2>1, ListedOK
    <3>3. /\ ConnectionOK(conn'[c]) /\ KeptWatch(conn'[c], conn[c])
          /\ KeptPlace(conn'[c], conn[c]) /\ conn'[c].up # "open"
      BY <3>1, <3>2, ClosingOK
    <3> QED BY <3>3
  <2>2. CASE c \in rest
    <3>1. conn'[c] = [conn[c] EXCEPT !.alive = FALSE]
      BY <1>2, <2>2
    <3>2. ConnectionOK(conn[c]) /\ conn[c].up # "none"
      BY <1>1, <2>2, ListedOK
    <3>3. /\ ConnectionOK(conn'[c]) /\ KeptWatch(conn'[c], conn[c])
          /\ KeptPlace(conn'[c], conn[c])
      BY <3>1, <3>2, NotedOK
    <3> QED BY <2>2, <3>3
  <2>3. CASE c \in dead
    <3> DEFINE q == conn[c]
               r == conn'[c]
    <3>1. r = [q EXCEPT !.up = "cut", !.listed = FALSE, !.unwatch = 0]
      BY <1>2, <1>3, <2>3
    <3>2. ConnectionOK(q) /\ q.up # "none"
      BY <1>1, <2>3, ListedOK
    <3>3. ConnectionOK(r) /\ KeptPlace(r, q) /\ r.up = "cut"
      BY <3>1, <3>2, CutOK
    <3> QED BY <2>3, <3>3
  <2>4. CASE c \notin Listed(n)
    <3>1. conn'[c] = conn[c]
      BY <1>2, <2>4
    <3> QED BY <2>4, <3>1 DEF KeptPlace, KeptWatch
  <2> QED BY <2>1, <2>2, <2>3, <2>4
<1>5. ConnectionsOK'
  <2>1. conn' = [c \in Conns |-> conn'[c]]
    BY <1>2
  <2> QED BY <1>1, <1>4, <2>1, ConnectionsStep
<1>6. FanoutOK'
  <2>1. \A d \in Conns \ dead : \A m : <<m, d>> \in tracked => <<m, d>> \in tracked'
    BY <1>2 DEF Untracked
  <2>2. \A d \in dead : d \in Conns
    BY <1>3
  <2> HIDE DEF dead
  <2> QED BY <1>1, <1>2, <1>4, <2>1, <2>2, ReleaseStep
<1>7. LeasesOK'
  <2>1. /\ lease' = [c \in Conns |-> lease'[c]] /\ \A c \in Conns : lease'[c] \in Int
        /\ \A c \in Conns \ Listed(n) : lease'[c] = lease[c]
        /\ \A c \in rest \cap known : lease'[c] = LeaseIntervals
    <3> DEFINE D == dead \cap known
               K == rest \cap known
    <3>1. lease' = [c \in Conns |-> IF c \in D THEN 0
                                   ELSE IF c \in K THEN LeaseIntervals ELSE lease[c]]
      BY <1>2 DEF Renewed
    <3>2. D \subseteq Listed(n) /\ K \subseteq Listed(n) /\ K \subseteq Conns /\ D \cap K = {}
      BY <1>3
    <3>3. LeaseIntervals \in Int /\ \A c \in Conns : lease[c] \in Int
      BY <1>1, SocketAssumption DEF LeasesOK
    <3>4. rest \cap known = K
      OBVIOUS
    <3> HIDE DEF D, K
    <3>5. \A c \in Conns : /\ lease'[c] \in Int
                           /\ c \notin Listed(n) => lease'[c] = lease[c]
                           /\ c \in K => lease'[c] = LeaseIntervals
      BY <3>1, <3>2, <3>3
    <3> QED BY <3>1, <3>2, <3>4, <3>5
  <2>2. ASSUME NEW c \in Conns, conn'[c].up = "open"
        PROVE  /\ KeptPlace(conn'[c], conn[c]) /\ conn'[c].node \in running' \ stopping'
               /\ conn[c].user /\ Fresh(c) => Fresh(c)'
    <3>1. /\ KeptPlace(conn'[c], conn[c]) /\ conn[c].up = "open"
          /\ conn'[c].node = conn[c].node
      BY <1>4, <2>2 DEF KeptPlace
    <3>2. conn[c].node \in running \ stopping /\ conn[c].listed
      BY <1>1, <3>1 DEF LeasesOK
    <3>3. CASE c \in Listed(n)
      <4>1. c \in rest
        BY <1>4, <2>2, <3>3
      <4>2. conn[c].user => lease'[c] = LeaseIntervals
        BY <2>1, <4>1
      <4>3. conn[c].user => Fresh(c)'
        BY <4>2, SocketAssumption DEF Fresh, Lateness
      <4> QED BY <1>1, <3>1, <3>2, <4>3
    <3>4. CASE c \notin Listed(n)
      <4>1. conn[c].node # n /\ lease'[c] = lease[c]
        BY <2>1, <3>2, <3>4 DEF Listed
      <4>2. Fresh(c) => Fresh(c)'
        BY <1>1, <3>1, <4>1 DEF Fresh, Lateness
      <4> QED BY <1>1, <3>1, <3>2, <4>2
    <3> QED BY <3>3, <3>4
  <2>3. \A d \in admitted' : d \in Conns /\ conn'[d].up # "none" /\ conn'[d].user
    BY <1>1, <1>4 DEF LeasesOK, KeptPlace
  <2>4. \A d \in Conns : CountKept(d)
    BY <2>2 DEF CountKept
  <2> QED BY <1>1, <2>1, <2>3, <2>4, CountStep
<1> QED BY <1>5, <1>6, <1>7 DEF IInv

LEMMA StopOK ==
  ASSUME IInv, NEW n \in Nodes, Stop(n)
  PROVE  IInv'
<1>1. /\ ConnectionsOK /\ LeasesOK /\ FanoutOK
      /\ stopping' = stopping \cup {n} /\ due' = due \ {n}
      /\ UNCHANGED <<lease, admitted, missed, running>>
      /\ Unwatch(Listed(n)) /\ tracked' = Untracked({c \in Listed(n) : conn[c].user})
      /\ conn' = [c \in Conns |-> IF c \in Listed(n)
                    THEN [Closing(conn[c]) EXCEPT !.unwatch = 0] ELSE conn[c]]
  BY DEF IInv, Stop
<1>2. ASSUME NEW c \in Conns
      PROVE  /\ conn'[c] = conn[c] \/ ConnectionOK(conn'[c])
             /\ KeptPlace(conn'[c], conn[c])
             /\ c \in Listed(n) => conn'[c].up # "open"
             /\ c \notin Listed(n) => conn'[c] = conn[c] /\ KeptWatch(conn'[c], conn[c])
  <2>1. CASE c \in Listed(n)
    <3>1. conn'[c] = [Closing(conn[c]) EXCEPT !.unwatch = 0]
      BY <1>1, <2>1
    <3>2. ConnectionOK(conn[c]) /\ conn[c].up # "none"
      BY <1>1, <2>1, ListedOK
    <3>3. ConnectionOK(conn'[c]) /\ KeptPlace(conn'[c], conn[c]) /\ conn'[c].up # "open"
      BY <3>1, <3>2, StoppedOK
    <3> QED BY <2>1, <3>3
  <2>2. CASE c \notin Listed(n)
    <3>1. conn'[c] = conn[c]
      BY <1>1, <2>2
    <3> QED BY <2>2, <3>1 DEF KeptPlace, KeptWatch
  <2> QED BY <2>1, <2>2
<1>3. ConnectionsOK'
  <2>1. conn' = [c \in Conns |-> conn'[c]]
    BY <1>1
  <2> QED BY <1>1, <1>2, <2>1, ConnectionsStep
<1>4. FanoutOK'
  <2>1. \A d \in Conns \ Listed(n) : \A m : <<m, d>> \in tracked => <<m, d>> \in tracked'
    BY <1>1 DEF Untracked
  <2>2. \A d \in Listed(n) : d \in Conns
    BY DEF Listed
  <2> QED BY <1>1, <1>2, <2>1, <2>2, ReleaseStep
<1>5. LeasesOK'
  <2>1. ASSUME NEW c \in Conns, conn'[c].up = "open"
        PROVE  /\ KeptPlace(conn'[c], conn[c]) /\ conn'[c].node \in running' \ stopping'
               /\ conn[c].user /\ Fresh(c) => Fresh(c)'
    <3>1. c \notin Listed(n) /\ conn'[c] = conn[c] /\ KeptPlace(conn'[c], conn[c])
      BY <1>2, <2>1
    <3>2. conn[c].node \in running \ stopping /\ conn[c].listed
      BY <1>1, <2>1, <3>1 DEF LeasesOK
    <3>3. conn[c].node # n
      BY <3>1, <3>2 DEF Listed
    <3>4. Fresh(c) => Fresh(c)'
      BY <1>1, <3>1, <3>3 DEF Fresh, Lateness
    <3> QED BY <1>1, <3>1, <3>2, <3>3, <3>4
  <2>2. \A d \in admitted' : d \in Conns /\ conn'[d].up # "none" /\ conn'[d].user
    BY <1>1, <1>2 DEF LeasesOK, KeptPlace
  <2>3. \A d \in Conns : CountKept(d)
    BY <2>1 DEF CountKept
  <2>4. lease' = [c \in Conns |-> lease'[c]] /\ \A c \in Conns : lease'[c] \in Int
    BY <1>1 DEF LeasesOK
  <2> QED BY <1>1, <2>2, <2>3, <2>4, CountStep
<1> QED BY <1>3, <1>4, <1>5 DEF IInv

LEMMA ForgetOK ==
  ASSUME IInv, NEW n \in Nodes, Forget(n)
  PROVE  IInv'
<1>1. /\ ConnectionsOK /\ LeasesOK /\ FanoutOK /\ n \in stopping
      /\ UNCHANGED <<lease, fanout, tracked, admitted, due, missed, running, stopping>>
      /\ conn' = [c \in Conns |-> IF c \in Listed(n) THEN [conn[c] EXCEPT !.listed = FALSE]
                                  ELSE conn[c]]
  BY DEF IInv, Forget, clock, procs
<1>2. ASSUME NEW c \in Conns
      PROVE  /\ conn'[c] = conn[c] \/ ConnectionOK(conn'[c])
             /\ KeptWatch(conn'[c], conn[c])
             /\ conn'[c].user = conn[c].user /\ conn'[c].up = conn[c].up
             /\ c \notin Listed(n) => conn'[c] = conn[c]
  <2>1. CASE c \in Listed(n)
    <3>1. conn'[c] = [conn[c] EXCEPT !.listed = FALSE]
      BY <1>1, <2>1
    <3>2. ConnectionOK(conn[c]) /\ conn[c].up # "none"
      BY <1>1, <2>1, ListedOK
    <3> QED BY <2>1, <3>1, <3>2, ForgottenOK
  <2>2. CASE c \notin Listed(n)
    <3>1. conn'[c] = conn[c]
      BY <1>1, <2>2
    <3> QED BY <3>1 DEF KeptWatch
  <2> QED BY <2>1, <2>2
<1>3. ConnectionsOK'
  <2>1. conn' = [c \in Conns |-> conn'[c]]
    BY <1>1
  <2> QED BY <1>1, <1>2, <2>1, ConnectionsStep
<1>4. FanoutOK'
  BY <1>1, <1>2, FanoutStep
<1>5. LeasesOK'
  <2>1. ASSUME NEW c \in Conns, conn'[c].up = "open"
        PROVE  /\ KeptPlace(conn'[c], conn[c]) /\ conn'[c].node \in running' \ stopping'
               /\ conn[c].user /\ Fresh(c) => Fresh(c)'
    <3>1. conn[c].up = "open"
      BY <1>2, <2>1
    <3>2. conn[c].node \in running \ stopping
      BY <1>1, <3>1 DEF LeasesOK
    <3>3. conn'[c] = conn[c]
      BY <1>1, <1>2, <3>2 DEF Listed
    <3>4. Fresh(c) => Fresh(c)'
      BY <1>1, <3>3 DEF Fresh, Lateness
    <3> QED BY <1>1, <3>1, <3>2, <3>3, <3>4 DEF KeptPlace
  <2>2. \A d \in admitted' : d \in Conns /\ conn'[d].up # "none" /\ conn'[d].user
    BY <1>1, <1>2 DEF LeasesOK
  <2>3. \A d \in Conns : CountKept(d)
    BY <2>1 DEF CountKept
  <2>4. lease' = [c \in Conns |-> lease'[c]] /\ \A c \in Conns : lease'[c] \in Int
    BY <1>1 DEF LeasesOK
  <2> QED BY <1>1, <2>2, <2>3, <2>4, CountStep
<1> QED BY <1>3, <1>4, <1>5 DEF IInv

LEMMA CrashOK ==
  ASSUME IInv, NEW n \in Nodes, Crash(n)
  PROVE  IInv'
<1>1. /\ ConnectionsOK /\ LeasesOK /\ ListenersOK /\ MapOK /\ AttendanceOK
      /\ running' = running \ {n} /\ due' = due \ {n} /\ missed' = missed \ {n}
      /\ UNCHANGED <<lease, admitted, stopping>>
      /\ tracked' = {t \in tracked : conn[t[2]].node # n}
      /\ watchers' = [o \in Watch |-> IF watchers[o].key[1] = n THEN NoWatch ELSE watchers[o]]
      /\ watches' = [k \in DOMAIN watches |-> IF k[1] = n THEN 0 ELSE watches[k]]
      /\ conn' = [c \in Conns |-> IF conn[c].node = n
           THEN [Unused EXCEPT !.up = "gone", !.node = n, !.user = conn[c].user] ELSE conn[c]]
  BY DEF IInv, FanoutOK, Crash
<1>2. ASSUME NEW c \in Conns
      PROVE  /\ conn'[c] = conn[c] \/ ConnectionOK(conn'[c])
             /\ KeptPlace(conn'[c], conn[c])
             /\ conn[c].node = n => conn'[c].up # "open"
             /\ conn[c].node # n => conn'[c] = conn[c]
  <2>1. CASE conn[c].node = n
    <3> DEFINE q == conn[c]
               r == conn'[c]
    <3>1. r = [Unused EXCEPT !.up = "gone", !.node = n, !.user = q.user]
      BY <1>1, <2>1
    <3>2. /\ Shape(r) /\ r.node = n /\ r.up = "gone" /\ r.user = q.user
          /\ r.job.at = "idle" /\ r.match = None /\ r.auth = "idle"
      <4> HIDE DEF r, q
      <4> QED BY <3>1 DEF Shape, Unused, Connection, Idle
    <3>3. ConnectionOK(r) /\ KeptPlace(r, q)
      <4> HIDE DEF r, q
      <4> QED BY <3>2 DEF ConnectionOK, KeptPlace
    <3> QED BY <2>1, <3>2, <3>3
  <2>2. CASE conn[c].node # n
    <3>1. conn'[c] = conn[c]
      BY <1>1, <2>2
    <3> QED BY <2>2, <3>1 DEF KeptPlace
  <2> QED BY <2>1, <2>2
<1>3. ConnectionsOK'
  <2>1. conn' = [c \in Conns |-> conn'[c]]
    BY <1>1
  <2> QED BY <1>1, <1>2, <2>1, ConnectionsStep
<1>4. ListenersOK'
  <2>1. WatchShape(NoWatch) /\ NoWatch.listeners = {}
    BY DEF WatchShape, NoWatch
  <2>2. ASSUME NEW p \in Watch
        PROVE  IF watchers[p].key[1] = n THEN watchers'[p] = NoWatch
               ELSE watchers'[p] = watchers[p]
    BY <1>1
  <2>3. ASSUME NEW p \in Watch, NEW d \in watchers'[p].listeners
        PROVE  /\ d \in Conns /\ conn'[d].unwatch = p /\ conn'[d].job.at # "subscribe"
               /\ watchers'[p].on /\ watchers'[p].key[1] = conn'[d].node
               /\ conn'[d].match \in {None, watchers'[p].key[2]}
    <3>1. watchers[p].key[1] # n /\ watchers'[p] = watchers[p]
      BY <2>1, <2>2, <2>3
    <3>2. d \in Conns /\ conn[d].node # n
      BY <1>1, <2>3, <3>1 DEF ListenersOK
    <3>3. conn'[d] = conn[d]
      BY <1>2, <3>2
    <3> QED BY <1>1, <2>3, <3>1, <3>3 DEF ListenersOK
  <2>4. \A p \in Watch : WatchShape(watchers[p])'
    BY <1>1, <2>1, <2>2 DEF ListenersOK
  <2>5. watchers' = [p \in Watch |-> watchers'[p]]
    BY <1>1
  <2> QED BY <2>3, <2>4, <2>5 DEF ListenersOK
<1>5. MapOK'
  <2>1. DOMAIN watches = Nodes \X Matches
    BY <1>1 DEF MapOK
  <2>2. ASSUME NEW k \in Nodes \X Matches, watches'[k] # 0
        PROVE  /\ watches'[k] \in Watch /\ watchers'[watches'[k]].key = k
               /\ watchers'[watches'[k]].on /\ watchers'[watches'[k]].listeners # {}
    <3>1. k[1] # n /\ watches'[k] = watches[k]
      BY <1>1, <2>1, <2>2
    <3>2. /\ watches[k] \in Watch /\ watchers[watches[k]].key = k
          /\ watchers[watches[k]].on /\ watchers[watches[k]].listeners # {}
      BY <1>1, <2>2, <3>1 DEF MapOK
    <3> DEFINE w == watches[k]
    <3>3. w \in Watch /\ watchers[w].key[1] # n
      BY <3>1, <3>2
    <3>4. watchers'[w] = watchers[w]
      <4> HIDE DEF w
      <4> QED BY <1>1, <3>3
    <3> QED BY <3>1, <3>2, <3>4
  <2>3. watches' = [k \in Nodes \X Matches |-> watches'[k]]
    BY <1>1, <2>1
  <2> QED BY <2>2, <2>3 DEF MapOK
<1>6. AttendanceOK'
  <2> SUFFICES ASSUME NEW d \in Conns, conn'[d].up = "open",
                      conn'[d].match # None, conn'[d].job.at # "subscribe"
               PROVE  /\ conn'[d].unwatch \in Watch
                      /\ d \in watchers'[conn'[d].unwatch].listeners
                      /\ <<conn'[d].match, d>> \in tracked'
    BY DEF AttendanceOK, Attends
  <2>1. conn[d].node # n /\ conn'[d] = conn[d]
    BY <1>2
  <2> DEFINE o == conn[d].unwatch
  <2>2. o \in Watch /\ d \in watchers[o].listeners /\ <<conn[d].match, d>> \in tracked
    BY <1>1, <2>1 DEF AttendanceOK, Attends
  <2>3. watchers[o].key[1] # n
    BY <1>1, <2>1, <2>2 DEF ListenersOK
  <2>4. watchers'[o] = watchers[o] /\ <<conn[d].match, d>> \in tracked'
    BY <1>1, <2>1, <2>2, <2>3
  <2> QED BY <2>1, <2>2, <2>4
<1>7. LeasesOK'
  <2>1. ASSUME NEW c \in Conns, conn'[c].up = "open"
        PROVE  /\ KeptPlace(conn'[c], conn[c]) /\ conn'[c].node \in running' \ stopping'
               /\ conn[c].user /\ Fresh(c) => Fresh(c)'
    <3>1. conn'[c] = conn[c] /\ conn[c].node # n /\ KeptPlace(conn'[c], conn[c])
      BY <1>2, <2>1
    <3>2. conn[c].node \in running \ stopping
      BY <1>1, <2>1, <3>1 DEF LeasesOK
    <3>3. Fresh(c) => Fresh(c)'
      BY <1>1, <3>1 DEF Fresh, Lateness
    <3> QED BY <1>1, <3>1, <3>2, <3>3
  <2>2. \A d \in admitted' : d \in Conns /\ conn'[d].up # "none" /\ conn'[d].user
    BY <1>1, <1>2 DEF LeasesOK, KeptPlace
  <2>3. \A d \in Conns : CountKept(d)
    BY <2>1 DEF CountKept
  <2>4. lease' = [c \in Conns |-> lease'[c]] /\ \A c \in Conns : lease'[c] \in Int
    BY <1>1 DEF LeasesOK
  <2> QED BY <1>1, <2>2, <2>3, <2>4, CountStep
<1> QED BY <1>3, <1>4, <1>5, <1>6, <1>7 DEF IInv, FanoutOK
-----------------------------------------------------------------------------
LEMMA InitOK == Init => IInv
<1> SUFFICES ASSUME Init PROVE IInv
  OBVIOUS
<1>1. ConnectionsOK
  BY UnusedOK DEF Init, ConnectionsOK
<1>2. LeasesOK
  <2>1. \A c \in Conns : conn[c].up # "open"
    <3>1. Unused.up = "none"
      BY UnusedShape
    <3> QED BY <3>1 DEF Init
  <2>2. lease = [c \in Conns |-> 0] /\ admitted = {}
    BY DEF Init
  <2> QED BY <2>1, <2>2 DEF LeasesOK
<1>3. WatchShape(NoWatch) /\ NoWatch.listeners = {}
  BY DEF WatchShape, NoWatch
<1>4. ListenersOK
  BY <1>3 DEF Init, ListenersOK
<1>5. MapOK /\ AttendanceOK
  BY UnusedShape DEF Init, MapOK, AttendanceOK
<1> QED BY <1>1, <1>2, <1>4, <1>5 DEF IInv, FanoutOK

LEMMA StepOK == IInv /\ [Next]_vars => IInv'
<1> SUFFICES ASSUME IInv, [Next]_vars PROVE IInv'
  OBVIOUS
<1>1. ASSUME NEW c \in Conns,
             Connect(c) \/ AuthStep(c) \/ AuthFails(c) \/ MatchStep(c) \/ SocketCloses(c)
      PROVE  IInv'
  <2>1. ASSUME NEW n \in Nodes, Upgrade(c, n) PROVE IInv'
    BY <2>1, UpgradeOK
  <2>2. CASE AuthStep(c)
    BY <2>2, QuietOK, TokenAcceptedOK, CountedOK DEF AuthStep
  <2>3. CASE AuthFails(c)
    BY <2>3, QuietOK DEF AuthFails
  <2>4. CASE MatchStep(c)
    BY <2>4, JobStepOK, GatewayAcceptsOK, SubscribedOK, DropCountOK DEF MatchStep
  <2>5. CASE SocketCloses(c)
    BY <2>5, DropCountOK
  <2> QED BY <1>1, <2>1, <2>2, <2>3, <2>4, <2>5 DEF Connect
<1>2. CASE HeartbeatStep
  BY <1>2, QuietOK, SweepOK, TickOK DEF HeartbeatStep
<1>3. CASE Fault
  BY <1>3, QuietOK, CrashOK DEF Fault
<1>4. CASE ShutdownStep
  BY <1>4, StopOK, ForgetOK DEF ShutdownStep
<1>5. CASE UNCHANGED vars
  <2>1. UNCHANGED <<conn, lease, watches, watchers, tracked, admitted, due, missed,
                    running, stopping>>
    BY <1>5 DEF vars, fanout, clock, procs
  <2>2. ConnectionsOK' /\ LeasesOK'
    BY <2>1 DEF IInv, ConnectionsOK, LeasesOK, Fresh, Lateness
  <2>3. ListenersOK'
    BY <2>1 DEF IInv, FanoutOK, ListenersOK
  <2>4. MapOK'
    BY <2>1 DEF IInv, FanoutOK, MapOK
  <2>5. AttendanceOK'
    BY <2>1 DEF IInv, FanoutOK, AttendanceOK, Attends
  <2> QED BY <2>2, <2>3, <2>4, <2>5 DEF IInv, FanoutOK
<1> QED BY <1>1, <1>2, <1>3, <1>4, <1>5 DEF Next

LEMMA Invariance == Spec => []IInv
BY InitOK, StepOK, PTL DEF Spec

\* An open socket that was admitted stays in its account's count, though any
\* node may be late with a sweep, stop or be killed (LiveIsCounted; the lease of
\* ws-server.ts 109-124 and its renewal at 272-279).
THEOREM CountMissesNoOne == Spec => []LiveIsCounted
<1>1. IInv => LiveIsCounted
  <2> SUFFICES ASSUME IInv, NEW c \in admitted, conn[c].up = "open"
               PROVE  lease[c] > 0
    BY DEF LiveIsCounted
  <2>1. c \in Conns /\ conn[c].user
    BY DEF IInv, LeasesOK
  <2>2. lease[c] \in Int /\ Fresh(c)
    BY <2>1 DEF IInv, LeasesOK
  <2> QED BY <2>2, SocketAssumption DEF Fresh, Lateness
<1> QED BY <1>1, Invariance, PTL

\* Whatever joins, leaves, closes and subscriptions come between the steps of a
\* JOIN, an open socket ends up hearing its match, once, and is asserted present
\* there (SettledIsWatched; watch and unwatch of match-gateway.ts, handleJoin
\* and leave of ws-server.ts).
THEOREM JoinEndsWatched == Spec => []SettledIsWatched
<1>1. IInv => SettledIsWatched
  <2> SUFFICES ASSUME IInv, NEW c \in Conns, Settled(c), conn[c].match # None
               PROVE  /\ \E o \in Watch :
                           /\ Hears(c) = {o} /\ watchers[o].on
                           /\ watchers[o].key = <<conn[c].node, conn[c].match>>
                      /\ <<conn[c].match, c>> \in tracked
    BY DEF SettledIsWatched
  <2> DEFINE o == conn[c].unwatch
  <2>1. conn[c].up = "open" /\ conn[c].job.at # "subscribe"
    BY DEF Settled, Idle
  <2>2. o \in Watch /\ c \in watchers[o].listeners /\ <<conn[c].match, c>> \in tracked
    BY <2>1 DEF IInv, FanoutOK, AttendanceOK, Attends
  <2>3. watchers[o].on /\ watchers[o].key = <<conn[c].node, conn[c].match>>
    <3>1. /\ watchers[o].on /\ watchers[o].key[1] = conn[c].node
          /\ conn[c].match \in {None, watchers[o].key[2]} /\ WatchShape(watchers[o])
      BY <2>2 DEF IInv, FanoutOK, ListenersOK
    <3> QED BY <3>1 DEF WatchShape
  <2>4. \A p \in Hears(c) : p = o
    BY DEF IInv, FanoutOK, ListenersOK, Hears
  <2>5. o \in Hears(c)
    BY <2>2 DEF Hears
  <2> QED BY <2>2, <2>3, <2>4, <2>5
<1> QED BY <1>1, Invariance, PTL
=============================================================================
