---------------------------- MODULE MatchManager ----------------------------
(***************************************************************************)
(* One match of core/match/match-manager.ts, from the open room to its     *)
(* eviction: seat claims, who is connected, the AI turn loop with its      *)
(* waits, hand boundaries, the abandon countdown, the fire-and-forget      *)
(* snapshots (core/persistence) and the failover that rebuilds a match     *)
(* from one.                                                               *)
(*                                                                         *)
(* JavaScript runs a handler without interruption up to its next await, so *)
(* one action here is one such stretch.  The turn loop waits in three      *)
(* places - for the AI decision, for the minimum move delay and for the    *)
(* round intermission - and pc names the one it is in; every other handler *)
(* can run in between.                                                     *)
(*                                                                         *)
(* Cards are abstracted away: a hand is Plies moves long and any seat may  *)
(* be next to act.  The sockets (open, sat, leaving) are the part of the   *)
(* transport this component depends on: which sockets each node tracks for *)
(* this match, and DISCONNECT reports still on their way to the owner.     *)
(***************************************************************************)
EXTENDS Integers, FiniteSets

CONSTANTS
  Seats,        \* the table's seats
  Users,        \* accounts
  Tokens,       \* connection tokens, one per socket
  Nodes,        \* backend nodes
  UserOf,       \* [Tokens -> Users]: who is authenticated on a socket
  NodeOf,       \* [Tokens -> Nodes]: where the socket is connected
  Host,         \* the user who created the room
  NoUser,       \* an unclaimed seat
  NoSeat,       \* a socket that has not joined a seat
  MaxHands,     \* handLimit(rules): hands after which the match must end
  Plies,        \* bound: moves in a hand
  MaxPending,   \* bound: snapshot writes in flight at a time
  MaxFailures   \* bound: evictions and crashes in a behaviour

ASSUME ConstantsAssumption ==
  /\ Seats # {}
  /\ UserOf \in [Tokens -> Users]
  /\ NodeOf \in [Tokens -> Nodes]
  /\ Host \in Users
  /\ NoUser \notin Users
  /\ NoSeat \notin Seats
  /\ MaxHands \in Nat \ {0}
  /\ Plies \in Nat \ {0}

VARIABLES
  mode,      \* "room", "live" or "absent": which of the two maps has the match
  claims,    \* room.seats: who sits where before the match starts
  live,      \* the LiveMatch in `matches`; Blank unless mode = "live"
  pc,        \* where the turn loop of this match (its aiRuns entry) is
  plan,      \* the position an AI decision under way was asked about
  detached,  \* the loop holds a LiveMatch that has been evicted meanwhile
  held,      \* that LiveMatch; Blank unless detached
  pending,   \* snapshot writes scheduled and not finished
  store,     \* the match document in the repository
  open,      \* sockets their node tracks for this match (localPresence)
  sat,       \* conn.seat of those sockets
  leaving,   \* DISCONNECT reports not yet at the owner
  failures   \* evictions and crashes so far

loopVars  == <<pc, plan, detached, held>>
diskVars  == <<pending, store>>
sockVars  == <<open, sat, leaving>>
vars == <<mode, claims, live, pc, plan, detached, held, pending, store,
          open, sat, leaving, failures>>
-----------------------------------------------------------------------------
(* The data the code keeps.                                                *)

\* GameState as far as the match layer reads it.  `folded` counts how often a
\* hand has been folded into teamScores; lastHand/lastScope are lastResult
\* (0/"none" when it is null).
Game == [hand: 1..MaxHands, ply: 0..Plies, phase: {"PLAY", "SCORING"},
         turn: Seats, human: SUBSET Seats, folded: 0..MaxHands,
         lastHand: 0..MaxHands, lastScope: {"none", "round", "game"}]

LiveMatch == [game: Game, seq: Nat, scored: 0..MaxHands, over: BOOLEAN,
              nextRound: BOOLEAN, owners: [Seats -> Users \cup {NoUser}],
              conn: SUBSET Tokens, seen: SUBSET Nodes,
              timer: BOOLEAN, abandoned: BOOLEAN]

Snapshot == [seq: Nat \cup {-1}, game: Game]

FirstHand(s, humans) ==
  [hand |-> 1, ply |-> 0, phase |-> "PLAY", turn |-> s, human |-> humans,
   folded |-> 0, lastHand |-> 0, lastScope |-> "none"]

Nowhere == FirstHand(CHOOSE s \in Seats : TRUE, {})
NoDoc   == [seq |-> -1, game |-> Nowhere]   \* no document in the repository

Blank == [game |-> Nowhere, seq |-> 0, scored |-> 0, over |-> FALSE,
          nextRound |-> FALSE, owners |-> [s \in Seats |-> NoUser],
          conn |-> {}, seen |-> {}, timer |-> FALSE, abandoned |-> FALSE]

NoPlan == [hand |-> 0, ply |-> 0]

Snap(L) == [seq |-> L.seq, game |-> L.game]
-----------------------------------------------------------------------------
(* Moves and hands (core/engine, as far as the loop can tell them apart).  *)

\* applyMove with a legal move: the move ends the hand or hands the turn on.
Moved(g, s) ==
  [g EXCEPT !.ply = @ + 1,
            !.phase = IF g.ply + 1 = Plies THEN "SCORING" ELSE "PLAY",
            !.turn = s]

\* matchEndReason: the hand limit ends the match, a target score may do so
\* earlier.
Scopes(g) == IF g.hand = MaxHands THEN {"game"} ELSE {"round", "game"}

\* applyHandScoring
Folded(g, scope) ==
  [g EXCEPT !.folded = @ + 1, !.lastHand = g.hand, !.lastScope = scope]

\* startNextHand: fresh cards, lastResult cleared, scores and seats kept.
Dealt(g, s) ==
  [g EXCEPT !.hand = @ + 1, !.ply = 0, !.phase = "PLAY", !.turn = s,
            !.lastHand = 0, !.lastScope = "none"]
-----------------------------------------------------------------------------
(* Presence.                                                               *)

ConnectedUsers(L) == {UserOf[t] : t \in L.conn}

SeatHasConnectedHuman(L, s) == L.owners[s] \in ConnectedUsers(L)

\* Mutant of TouchPresence: a returning player leaves the abandoned flag up.
TouchForgetsFlag(L) ==
  IF L.conn = {}
  THEN [L EXCEPT !.timer = @ \/ (~L.abandoned /\ ~L.over)]
  ELSE [L EXCEPT !.timer = FALSE]

\* touchPresence: the countdown runs while nobody is connected, unless it has
\* already expired or the match is over.
TouchPresence(L) ==
  IF L.conn = {}
  THEN [L EXCEPT !.timer = @ \/ (~L.abandoned /\ ~L.over)]
  ELSE [L EXCEPT !.timer = FALSE, !.abandoned = FALSE]

\* Mutant of Connected: the node is not noted as heard from.
ConnectedUnseen(L, T) == [L EXCEPT !.conn = @ \cup T]

Connected(L, T) ==
  [L EXCEPT !.conn = @ \cup T, !.seen = @ \cup {NodeOf[t] : t \in T}]

Dropped(L, T) == [L EXCEPT !.conn = @ \ T]

OnNodes(T, N) == {t \in T : NodeOf[t] \in N}

\* Mutant of Synced: only ever removes tokens.
SyncedDropsOnly(L, n) ==
  Dropped(L, OnNodes(L.conn, {n}) \ OnNodes(open, {n}))

\* The presence node n asserts replaces what the owner believed of n's sockets.
Synced(L, n) ==
  Connected(Dropped(L, OnNodes(L.conn, {n}) \ OnNodes(open, {n})),
            OnNodes(open, {n}))
-----------------------------------------------------------------------------
(* The turn loop.                                                          *)

\* AsyncPersistenceWriter.schedule: fire and forget.  At the bound the writes
\* fail at once, so that the bound never holds up the game.
Schedule(S) ==
  /\ pending' = IF Cardinality(pending \cup S) <= MaxPending
                THEN pending \cup S ELSE pending
  /\ UNCHANGED store

\* Mutant of HandToScore: no memory of the hands already scored.
HandToScoreAgain(L) ==
  /\ L.conn # {}
  /\ L.game.phase = "SCORING"

HandToScore(L) ==
  /\ L.conn # {}
  /\ L.game.phase = "SCORING"
  /\ L.scored < L.game.hand

AiToMove(L) ==
  /\ L.conn # {}
  /\ L.game.phase = "PLAY"
  /\ ~SeatHasConnectedHuman(L, L.game.turn)

Scored(L, scope) ==
  [L EXCEPT !.game = Folded(@, scope), !.scored = L.game.hand,
            !.seq = @ + 1, !.over = (scope = "game"),
            !.nextRound = IF scope = "game" THEN @ ELSE TRUE]

\* The loop returns: aiRuns is cleared only by the promise's finally.
Return(L, S) ==
  /\ live' = L
  /\ pc' = "settling"
  /\ Schedule(S)
  /\ UNCHANGED plan

\* The head of driveAiTurns, up to its next await, run on the match L that
\* `mustGet` finds.  S holds the snapshots scheduled on the way there.
Drive(L, S) ==
  \/ /\ ~HandToScore(L)
     /\ ~AiToMove(L)
     /\ Return(L, S)
  \/ /\ HandToScore(L)
     /\ Return(Scored(L, "game"), S \cup {Snap(Scored(L, "game"))})
  \/ /\ HandToScore(L)
     /\ "round" \in Scopes(L.game)
     /\ live' = Scored(L, "round")
     /\ pc' = "intermission"
     /\ Schedule(S \cup {Snap(Scored(L, "round"))})
     /\ UNCHANGED plan
  \/ /\ AiToMove(L)
     /\ live' = L
     /\ pc' = "deciding"
     /\ plan' = [hand |-> L.game.hand, ply |-> L.game.ply]
     /\ Schedule(S)

\* runAiTurnsUntilBlocked: a run already under way is joined, not doubled.
Wake(L, S) ==
  \/ /\ pc = "idle"
     /\ Drive(L, S)
  \/ /\ pc # "idle"
     /\ live' = L
     /\ Schedule(S)
     /\ UNCHANGED <<pc, plan>>

\* The loop comes back to its head after a wait.  It looks the match up again,
\* so it goes on with whatever `matches` holds now, or throws.  L is the match
\* it was holding, S what it has just scheduled.
LoopHead(L, S) ==
  /\ detached' = FALSE
  /\ held' = Blank
  /\ \/ /\ ~detached
        /\ Drive(L, S)
     \/ /\ detached /\ mode = "live"
        /\ Drive(live, S)
     \/ /\ detached /\ mode # "live"
        /\ Return(live, S)

\* The LiveMatch the loop has in its hands.
Current == IF detached THEN held ELSE live

\* The loop changed L and waits on at pc = p.
Hold(L, p, S) ==
  /\ IF detached THEN held' = L /\ UNCHANGED live
                 ELSE live' = L /\ UNCHANGED held
  /\ pc' = p
  /\ Schedule(S)
  /\ UNCHANGED <<plan, detached>>

\* applyMove accepts a decision for the position it was made for; for a later
\* position of the hand it may accept it as well, since ids such as "pass" are
\* legal in many positions.
Accepts(g) == g.phase = "PLAY"

FreshPlan(g) == plan = [hand |-> g.hand, ply |-> g.ply]

AiMoved(L, s) == [L EXCEPT !.game = Moved(@, s), !.seq = @ + 1]

\* decideTurn answered (the model, the timeout or the fallback) sooner than
\* aiMoveMinDelayMs: the move is applied and saved, the delay waited out.
DecisionArrives ==
  /\ pc = "deciding"
  /\ Accepts(Current.game)
  /\ \E s \in Seats :
       LET L == AiMoved(Current, s) IN Hold(L, "pausing", {Snap(L)})
  /\ UNCHANGED <<mode, claims, sockVars, failures>>

\* The same, but the answer took longer than the delay: straight to the head.
SlowDecisionArrives ==
  /\ pc = "deciding"
  /\ Accepts(Current.game)
  /\ \E s \in Seats :
       LET L == AiMoved(Current, s) IN LoopHead(L, {Snap(L)})
  /\ UNCHANGED <<mode, claims, sockVars, failures>>

\* The position moved on while the AI was thinking and its move is not legal
\* any more: applyMove throws and the run ends.
DecisionRejected ==
  /\ pc = "deciding"
  /\ ~FreshPlan(Current.game)
  /\ Return(live, {})
  /\ detached' = FALSE
  /\ held' = Blank
  /\ UNCHANGED <<mode, claims, sockVars, failures>>

PauseEnds ==
  /\ pc = "pausing"
  /\ LoopHead(live, {})
  /\ UNCHANGED <<mode, claims, sockVars, failures>>

\* After the intermission a hand is dealt and the loop goes on, unless
\* everybody left while the result was up.
IntermissionEnds ==
  /\ pc = "intermission"
  /\ \/ /\ Current.conn = {}
        /\ Return(live, {})
        /\ detached' = FALSE
        /\ held' = Blank
     \/ /\ Current.conn # {}
        /\ \E s \in Seats :
             LET L == [Current EXCEPT !.game = Dealt(@, s),
                                      !.nextRound = FALSE, !.seq = @ + 1]
             IN LoopHead(L, {Snap(L)})
  /\ UNCHANGED <<mode, claims, sockVars, failures>>

\* The `finally` of runAiTurnsUntilBlocked.
RunSettles ==
  /\ pc = "settling"
  /\ pc' = "idle"
  /\ UNCHANGED <<mode, claims, live, plan, detached, held, diskVars,
                 sockVars, failures>>
-----------------------------------------------------------------------------
(* The room.                                                               *)

\* ENTER_ROOM: a socket watches the room; it is present, but sits nowhere.
EnterRoom(t) ==
  /\ mode = "room"
  /\ open' = open \cup {t}
  /\ UNCHANGED <<mode, claims, live, loopVars, diskVars, sat, leaving,
                 failures>>

\* JOIN while the match is a room: claimRoomSeat frees the user's other seat.
ClaimRoomSeat(t, s) ==
  LET u == UserOf[t] IN
  /\ mode = "room"
  /\ claims[s] \in {NoUser, u}
  /\ claims' = [x \in Seats |-> IF x = s THEN u
                                ELSE IF claims[x] = u THEN NoUser
                                ELSE claims[x]]
  /\ open' = open \cup {t}
  /\ sat' = [sat EXCEPT ![t] = s]
  /\ UNCHANGED <<mode, live, loopVars, diskVars, leaving, failures>>

\* What handleStart collects: the seated sockets of the host's own node, one
\* per seat (a Map keyed by seat keeps one of several).
SeatedSockets(n, C) ==
  LET local == {t \in open : NodeOf[t] = n /\ sat[t] # NoSeat} IN
  /\ C \subseteq local
  /\ \A t \in local : \E c \in C : sat[c] = sat[t]
  /\ \A c, d \in C : sat[c] = sat[d] => c = d

\* START_MATCH by the host over socket t: deals the first hand, turns every
\* unclaimed seat over to the AI and enters the turn loop.
StartMatch(t) ==
  /\ mode = "room"
  /\ UserOf[t] = Host
  /\ \E C \in SUBSET Tokens, s \in Seats :
       /\ SeatedSockets(NodeOf[t], C)
       /\ LET trusted == {c \in C : claims[sat[c]] = UserOf[c]}
              humans  == {x \in Seats : claims[x] # NoUser}
              L == TouchPresence(Connected(
                     [Blank EXCEPT !.game = FirstHand(s, humans),
                                   !.owners = claims], trusted))
          IN Wake(L, {Snap(L)})
  /\ mode' = "live"
  /\ UNCHANGED <<claims, detached, held, sockVars, failures>>
-----------------------------------------------------------------------------
(* The live match: commands from the sockets' nodes.                       *)

\* JOIN of a live match: claimSeat, connect, then resume.
JoinMatch(t, s) ==
  LET u == UserOf[t] IN
  /\ mode = "live"
  /\ s \in live.game.human
  /\ live.owners[s] \in {NoUser, u}
  /\ Wake(TouchPresence(Connected([live EXCEPT !.owners[s] = u], {t})), {})
  /\ open' = open \cup {t}
  /\ sat' = [sat EXCEPT ![t] = s]
  /\ UNCHANGED <<mode, claims, detached, held, leaving, failures>>

\* submitMove by the seat's owner.  The move is one of the legal ones, or
\* applyMove throws and nothing changes.
SubmitMove(u) ==
  LET g == live.game IN
  /\ mode = "live"
  /\ live.owners[g.turn] = u
  /\ g.turn \in g.human
  /\ g.phase = "PLAY"
  /\ \E s \in Seats :
       LET L == [live EXCEPT !.game = Moved(@, s), !.seq = @ + 1]
       IN Wake(L, {Snap(L)})
  /\ UNCHANGED <<mode, claims, detached, held, sockVars, failures>>

\* LEAVE_MATCH or the socket closing: its node forgets it at once and reports
\* it to the owner, best effort.
SocketLeaves(t) ==
  /\ t \in open
  /\ open' = open \ {t}
  /\ sat' = [sat EXCEPT ![t] = NoSeat]
  /\ leaving' = leaving \cup {t}
  /\ UNCHANGED <<mode, claims, live, loopVars, diskVars, failures>>

\* The report reaches the owner (disconnect), possibly after the same socket
\* has joined again.
DisconnectArrives(t) ==
  /\ t \in leaving
  /\ leaving' = leaving \ {t}
  /\ \/ /\ mode = "live"
        /\ Wake(TouchPresence(Dropped(live, {t})), {})
     \/ /\ mode # "live"
        /\ UNCHANGED <<live, pc, plan, diskVars>>
  /\ UNCHANGED <<mode, claims, detached, held, open, sat, failures>>

DisconnectLost(t) ==
  /\ t \in leaving
  /\ leaving' = leaving \ {t}
  /\ UNCHANGED <<mode, claims, live, loopVars, diskVars, open, sat, failures>>

\* Mutant of SyncNodePresence: the turn loop is not resumed.
SyncSilently(n) ==
  /\ OnNodes(open, {n}) # {}
  /\ mode = "live"
  /\ live' = TouchPresence(Synced(live, n))
  /\ UNCHANGED <<mode, claims, loopVars, diskVars, sockVars, failures>>

\* syncNodePresence: node n re-asserts every socket it has on this match.  A
\* node with none left has nothing to assert (syncPresenceNow), and a room
\* ignores it.
SyncNodePresence(n) ==
  /\ OnNodes(open, {n}) # {}
  /\ mode = "live"
  /\ Wake(TouchPresence(Synced(live, n)), {})
  /\ UNCHANGED <<mode, claims, detached, held, sockVars, failures>>

\* Mutant of EvictStaleNodes: the countdown is not looked at.
EvictStaleSilently(N) ==
  /\ mode = "live"
  /\ N # {}
  /\ N \subseteq live.seen
  /\ live' = [Dropped(live, OnNodes(live.conn, N)) EXCEPT !.seen = @ \ N]
  /\ UNCHANGED <<mode, claims, loopVars, diskVars, sockVars, failures>>

\* evictStaleNodes: the sweep forgets the nodes N it has not heard from.
EvictStaleNodes(N) ==
  /\ mode = "live"
  /\ N # {}
  /\ N \subseteq live.seen
  /\ LET L == [Dropped(live, OnNodes(live.conn, N)) EXCEPT !.seen = @ \ N]
     IN Wake(TouchPresence(L), {})
  /\ UNCHANGED <<mode, claims, detached, held, sockVars, failures>>

\* The countdown fires (abandonIfStillEmpty).  It is two minutes long, against
\* seconds for every wait of the loop and every write: by then the loop is out
\* and nothing is in flight.
AbandonTimerFires ==
  /\ mode = "live"
  /\ live.timer
  /\ pc = "idle" /\ pending = {}
  /\ live' = [live EXCEPT !.timer = FALSE,
                          !.abandoned = @ \/ (~live.over /\ live.conn = {})]
  /\ UNCHANGED <<mode, claims, loopVars, diskVars, sockVars, failures>>
-----------------------------------------------------------------------------
(* Durability and failover.                                                *)

\* Mutant of Kept: the last write to land wins.
LastWriteWins(p) == p

\* MongoMatchRepository.save: only a higher sequence replaces the document.
Kept(p) == IF p.seq > store.seq THEN p ELSE store

SaveLands(p) ==
  /\ p \in pending
  /\ pending' = pending \ {p}
  /\ store' = Kept(p)
  /\ UNCHANGED <<mode, claims, live, loopVars, sockVars, failures>>

SaveFails(p) ==
  /\ p \in pending
  /\ pending' = pending \ {p}
  /\ UNCHANGED <<mode, claims, live, loopVars, store, sockVars, failures>>

\* evict: the gateway takes the room or match away from this node (abandoned,
\* retired, lease lost).  A loop in the middle of a wait keeps its LiveMatch.
Evict ==
  /\ mode # "absent"
  /\ failures < MaxFailures
  /\ failures' = failures + 1
  /\ mode' = "absent"
  /\ live' = Blank
  /\ \/ /\ pc \in {"deciding", "pausing", "intermission"} /\ ~detached
        /\ detached' = TRUE
        /\ held' = [live EXCEPT !.timer = FALSE]
     \/ /\ pc \in {"idle", "settling"} \/ detached
        /\ UNCHANGED <<detached, held>>
  /\ UNCHANGED <<claims, pc, plan, diskVars, sockVars>>

\* The owner's process dies with the sockets connected to it.  Some of the
\* writes in flight have made it to the repository; the newest of them stays.
Crash ==
  /\ mode # "absent"
  /\ failures < MaxFailures
  /\ failures' = failures + 1
  /\ mode' = "absent"
  /\ live' = Blank
  /\ pc' = "idle"
  /\ detached' = FALSE
  /\ held' = Blank
  /\ pending' = {}
  /\ \E p \in pending \cup {store} :
       store' = Kept(p)
  /\ \E n \in Nodes :
       LET dead == OnNodes(open, {n}) IN
       /\ open' = open \ dead
       /\ sat' = [t \in Tokens |-> IF t \in dead THEN NoSeat ELSE sat[t]]
  /\ UNCHANGED <<claims, plan, leaving>>

\* Mutant of Adopted: a result that is showing is taken for unscored.
AdoptedUnscored(doc) ==
  [Blank EXCEPT !.game = doc.game, !.seq = doc.seq,
                !.scored = doc.game.hand - 1,
                !.over = (doc.game.lastScope = "game")]

\* adopt, then resume: the match as its last snapshot has it.  Seat claims and
\* connections are not in it.
Adopted(doc) ==
  [Blank EXCEPT !.game = doc.game, !.seq = doc.seq,
                !.scored = IF doc.game.lastHand = doc.game.hand
                           THEN doc.game.hand ELSE doc.game.hand - 1,
                !.over = (doc.game.lastScope = "game")]

Adopt ==
  /\ mode = "absent"
  /\ store.seq >= 0
  /\ mode' = "live"
  /\ Wake(TouchPresence(Adopted(store)), {})
  /\ UNCHANGED <<claims, detached, held, sockVars, failures>>
-----------------------------------------------------------------------------
\* createRoom
Init ==
  /\ mode = "room"
  /\ claims = [s \in Seats |-> NoUser]
  /\ live = Blank
  /\ pc = "idle" /\ plan = NoPlan
  /\ detached = FALSE /\ held = Blank
  /\ pending = {} /\ store = NoDoc
  /\ open = {} /\ leaving = {}
  /\ sat = [t \in Tokens |-> NoSeat]
  /\ failures = 0

LoopStep ==
  \/ DecisionArrives
  \/ SlowDecisionArrives
  \/ DecisionRejected
  \/ PauseEnds
  \/ IntermissionEnds
  \/ RunSettles

CommandStep ==
  \/ \E t \in Tokens : EnterRoom(t)
  \/ \E t \in Tokens, s \in Seats : ClaimRoomSeat(t, s)
  \/ \E t \in Tokens : StartMatch(t)
  \/ \E t \in Tokens, s \in Seats : JoinMatch(t, s)
  \/ \E u \in Users : SubmitMove(u)
  \/ \E t \in Tokens : SocketLeaves(t)
  \/ \E t \in Tokens : DisconnectArrives(t)
  \/ \E t \in Tokens : DisconnectLost(t)
  \/ \E n \in Nodes : SyncNodePresence(n)
  \/ \E N \in SUBSET Nodes : EvictStaleNodes(N)
  \/ AbandonTimerFires

DiskStep ==
  \/ \E p \in pending : SaveLands(p)
  \/ \E p \in pending : SaveFails(p)

FailoverStep ==
  \/ Evict
  \/ Crash
  \/ Adopt

Next == LoopStep \/ CommandStep \/ DiskStep \/ FailoverStep

Spec == Init /\ [][Next]_vars

\* A node none of whose sockets is on the match has gone quiet for good as far
\* as the owner's sweep can tell.
QuietNodeSwept(n) == OnNodes(open, {n}) = {} /\ EvictStaleNodes({n})

\* Timers fire, promises settle, writes succeed or fail, and every node repeats
\* its presence on an interval.  Players owe nothing.
Fairness ==
  /\ WF_vars(LoopStep)
  /\ WF_vars(DiskStep)
  /\ WF_vars(AbandonTimerFires)
  /\ \A n \in Nodes : WF_vars(SyncNodePresence(n)) /\ WF_vars(QuietNodeSwept(n))

FairSpec == Spec /\ Fairness
-----------------------------------------------------------------------------
(* Invariants.                                                             *)

\* Every variable stays in its set; the loop holds an evicted LiveMatch only
\* during one of its waits.
TypeOK ==
  /\ mode \in {"room", "live", "absent"}
  /\ claims \in [Seats -> Users \cup {NoUser}]
  /\ live \in LiveMatch /\ held \in LiveMatch
  /\ pc \in {"idle", "deciding", "pausing", "intermission", "settling"}
  /\ plan \in [hand: 0..MaxHands, ply: 0..Plies]
  /\ detached \in BOOLEAN
  /\ pending \subseteq Snapshot
  /\ store \in Snapshot
  /\ open \subseteq Tokens /\ leaving \subseteq Tokens
  /\ sat \in [Tokens -> Seats \cup {NoSeat}]
  /\ failures \in Nat

\* A position whose scores are right: the hands before this one are folded in,
\* and this one exactly when its result is showing, which is a final result at
\* the latest on the last hand.
ScoresRight(g) ==
  /\ g.lastHand \in {0, g.hand}
  /\ (g.lastScope = "none") = (g.lastHand = 0)
  /\ g.lastScope = "round" => g.hand < MaxHands
  /\ g.folded = IF g.lastHand = g.hand THEN g.hand ELSE g.hand - 1

\* Each hand is folded into teamScores exactly once, through every
\* interleaving of the loop with the handlers and through failover: what
\* scoredHand says matches what the scores hold, in the running match, in one
\* the loop still holds after an eviction, and in every snapshot
\* (driveAiTurns 765-769, adopt 404-412).
EachHandScoredOnce ==
  /\ mode = "live" => /\ ScoresRight(live.game)
                      /\ live.scored = live.game.folded
                      /\ live.over = (live.game.lastScope = "game")
  /\ detached => ScoresRight(held.game)
  /\ \A p \in pending \cup {store} : ScoresRight(p.game)

\* The countdown to terminating a match runs exactly while nobody is connected
\* and it is neither over nor flagged already, whichever of the paths that
\* touch presence ran last; nobody is connected to a flagged match
\* (touchPresence 527-562).
CountdownFollowsPresence ==
  mode = "live" =>
    /\ live.timer = (live.conn = {} /\ ~live.abandoned /\ ~live.over)
    /\ live.abandoned => live.conn = {}

\* The sweep can reach every connection: a token is only ever believed
\* connected on a node whose silence would be noticed (connectionNodes and
\* nodeLastSeenAt, 96-105), so none can pin its seat away from the AI forever.
EveryConnectionIsSwept ==
  mode = "live" => \A t \in live.conn : NodeOf[t] \in live.seen
-----------------------------------------------------------------------------
(* Action properties.                                                      *)

\* Once its last hand is scored a match never changes again: no late decision,
\* no second fold, no further deal (matchOver, 771-777).
OverIsFinal ==
  [][mode = "live" /\ live.over /\ mode' = "live"
       => live'.over /\ live'.game = live.game]_vars

\* The document in the repository never goes back to an older sequence, in
\* whatever order writes land (persist-writer.ts, mongo-match-repository.ts).
StoreNeverGoesBack == [][store'.seq >= store.seq]_vars
-----------------------------------------------------------------------------
(* Liveness.                                                               *)

At(h, k) == mode = "live" /\ live.game.hand = h /\ live.game.ply = k

\* A turn nobody present holds never blocks the table while someone is there:
\* the AI gets to it, though wake-ups are lost while a run settles, decisions
\* are refused and players come and go (connect 481-485, driveAiTurns).
AiTurnIsPlayed ==
  \A h \in 1..MaxHands, k \in 0..Plies :
    (At(h, k) /\ AiToMove(live)) ~> ~(At(h, k) /\ AiToMove(live))

\* A finished hand is scored if anybody stays to see it.
HandIsScored ==
  \A h \in 1..MaxHands :
    (mode = "live" /\ live.game.hand = h /\ HandToScore(live))
      ~> ~(mode = "live" /\ live.game.hand = h /\ HandToScore(live))

\* What the owner believes of a socket becomes true, in both directions,
\* though reports are lost or arrive after a rejoin (syncNodePresence
\* 588-597, evictStaleNodes 625-630).
PresenceConverges ==
  \A t \in Tokens :
    /\ (mode = "live" /\ t \in live.conn) ~>
         (mode # "live" \/ t \notin live.conn \/ t \in open)
    /\ (mode = "live" /\ t \in open) ~>
         (mode # "live" \/ t \notin open \/ t \in live.conn)

\* A table everyone has left does not linger: it is flagged for termination
\* unless someone returns, it is over, or it leaves this node (570-586).
EmptyTableEnds ==
  (mode = "live" /\ live.conn = {})
    ~> (mode # "live" \/ live.conn # {} \/ live.over \/ live.abandoned)

\* "After a short intermission ... the next hand is dealt automatically"
\* (match-manager.ts 18-19): while someone is there, a scored round is followed
\* by the next hand.
NextHandIsDealt ==
  \A h \in 1..MaxHands :
    (mode = "live" /\ live.game.hand = h /\ live.game.lastScope = "round")
      ~> (mode # "live" \/ live.game.hand # h \/ live.conn = {})
=============================================================================
