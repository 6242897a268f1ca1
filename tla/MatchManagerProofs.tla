------------------------- MODULE MatchManagerProofs -------------------------
(***************************************************************************)
(* Theorems about MatchManager for every table, every set of players,      *)
(* sockets and nodes, and every bound.  The inductive invariant IInv says  *)
(* of each LiveMatch and each snapshot what the safety invariants say of   *)
(* the running match, and ties the loop's wait to the match it holds.      *)
(***************************************************************************)
EXTENDS MatchManager, TLAPS

Waits == {"deciding", "pausing", "intermission"}

\* A position the engine can be in: while a hand is played it has moves left
\* and no result is showing.
PositionOK(g) ==
  /\ g \in Game
  /\ ScoresRight(g)
  /\ g.phase = "PLAY" => g.ply < Plies /\ g.lastHand = 0

\* What holds of a LiveMatch whoever has it, evicted or not.
MatchOK(L) == L \in LiveMatch /\ PositionOK(L.game)

ScoredOK(L) ==
  /\ L.scored = L.game.folded
  /\ L.over = (L.game.lastScope = "game")

CountdownOK(L) ==
  /\ L.timer = (L.conn = {} /\ ~L.abandoned /\ ~L.over)
  /\ L.abandoned => L.conn = {}

SweptOK(L) == \A t \in L.conn : NodeOf[t] \in L.seen

\* What holds of the running match.
LiveOK(L) == MatchOK(L) /\ ScoredOK(L) /\ CountdownOK(L) /\ SweptOK(L)

SnapsOK(S) == \A p \in S : p \in Snapshot /\ PositionOK(p.game)

\* A match waiting out its intermission shows the result of a round.
Resting(L) == L.game.phase = "SCORING" /\ L.game.lastScope = "round"

LoopOK ==
  /\ pc = "intermission" => Resting(Current)
  /\ pc \in Waits /\ ~detached => mode = "live"
  /\ detached => pc \in Waits

\* The part of the state no step of the loop or of the disk touches.
RestOK ==
  /\ claims \in [Seats -> Users \cup {NoUser}]
  /\ open \subseteq Tokens /\ leaving \subseteq Tokens
  /\ sat \in [Tokens -> Seats \cup {NoSeat}]
  /\ failures \in Nat

IInv ==
  /\ RestOK
  /\ mode \in {"room", "live", "absent"}
  /\ detached \in BOOLEAN
  /\ pc \in {"idle", "settling"} \cup Waits
  /\ plan \in [hand: 0..MaxHands, ply: 0..Plies]
  /\ SnapsOK(pending) /\ SnapsOK({store})
  /\ MatchOK(live) /\ MatchOK(held)
  /\ mode = "live" => LiveOK(live)
  /\ LoopOK
-----------------------------------------------------------------------------
(* The operators on positions.                                             *)

LEMMA NowhereOK == PositionOK(Nowhere) /\ Nowhere \in Game
BY ConstantsAssumption
   DEF Nowhere, FirstHand, PositionOK, Game, ScoresRight

LEMMA FirstHandOK ==
  ASSUME NEW s \in Seats, NEW humans \in SUBSET Seats
  PROVE  PositionOK(FirstHand(s, humans))
BY ConstantsAssumption DEF FirstHand, PositionOK, Game, ScoresRight

LEMMA MovedOK ==
  ASSUME NEW g, PositionOK(g), g.phase = "PLAY", NEW s \in Seats
  PROVE  /\ PositionOK(Moved(g, s))
         /\ Moved(g, s).folded = g.folded
         /\ Moved(g, s).lastScope = g.lastScope
<1> DEFINE m == Moved(g, s)
<1>1. g \in Game /\ g.ply + 1 \in 0..Plies /\ g.lastHand = 0
  BY ConstantsAssumption DEF PositionOK, Game
<1>2. /\ m.phase = IF g.ply + 1 = Plies THEN "SCORING" ELSE "PLAY"
      /\ m.ply = g.ply + 1 /\ m.hand = g.hand
      /\ m.folded = g.folded /\ m.lastHand = g.lastHand
      /\ m.lastScope = g.lastScope
  BY <1>1 DEF Moved, Game
<1>3. m \in Game
  BY <1>1 DEF Moved, Game
<1>4. m.phase = "PLAY" => m.ply < Plies
  BY <1>1, <1>2, ConstantsAssumption
<1> HIDE DEF m
<1>5. PositionOK(m)
  BY <1>1, <1>2, <1>3, <1>4 DEF PositionOK, ScoresRight
<1> QED BY <1>2, <1>5 DEF m

LEMMA FoldedOK ==
  ASSUME NEW g, PositionOK(g), g.phase = "SCORING", g.folded < g.hand,
         NEW scope \in Scopes(g)
  PROVE  /\ PositionOK(Folded(g, scope))
         /\ Folded(g, scope).folded = g.hand
         /\ Folded(g, scope).phase = "SCORING"
         /\ Folded(g, scope).lastScope = scope
<1> DEFINE f == Folded(g, scope)
<1>1. /\ g \in Game /\ g.hand \in 1..MaxHands /\ g.folded = g.hand - 1
      /\ scope \in {"round", "game"} /\ (scope = "round" => g.hand < MaxHands)
  BY ConstantsAssumption DEF PositionOK, ScoresRight, Game, Scopes
<1>2. /\ f.phase = "SCORING" /\ f.hand = g.hand
      /\ f.folded = g.hand /\ f.lastHand = g.hand /\ f.lastScope = scope
  BY <1>1, ConstantsAssumption DEF Folded, Game
<1>3. f \in Game
  <2>1. g.folded + 1 \in 0..MaxHands /\ g.hand \in 0..MaxHands
    BY <1>1, ConstantsAssumption
  <2> QED BY <1>1, <2>1 DEF Folded, Game
<1> HIDE DEF f
<1>4. PositionOK(f)
  BY <1>1, <1>2, <1>3, ConstantsAssumption DEF PositionOK, ScoresRight
<1> QED BY <1>2, <1>4 DEF f

LEMMA DealtOK ==
  ASSUME NEW g, PositionOK(g), g.lastScope = "round", NEW s \in Seats
  PROVE  /\ PositionOK(Dealt(g, s))
         /\ Dealt(g, s).folded = g.folded
         /\ Dealt(g, s).lastScope = "none"
<1> DEFINE d == Dealt(g, s)
<1>1. /\ g \in Game /\ g.hand \in 1..MaxHands /\ g.hand + 1 \in 1..MaxHands
      /\ g.folded = g.hand
  BY ConstantsAssumption DEF PositionOK, ScoresRight, Game
<1>2. /\ d.hand = g.hand + 1 /\ d.ply = 0 /\ d.folded = g.folded
      /\ d.lastHand = 0 /\ d.lastScope = "none"
  BY <1>1 DEF Dealt, Game
<1>3. d \in Game
  <2>1. 0 \in 0..Plies /\ 0 \in 0..MaxHands
    BY ConstantsAssumption
  <2> QED BY <1>1, <2>1 DEF Dealt, Game
<1> HIDE DEF d
<1>4. PositionOK(d)
  BY <1>1, <1>2, <1>3, ConstantsAssumption DEF PositionOK, ScoresRight
<1> QED BY <1>2, <1>4 DEF d

LEMMA BlankOK == MatchOK(Blank)
BY NowhereOK, ConstantsAssumption DEF MatchOK, Blank, LiveMatch

LEMMA SnapOK ==
  ASSUME NEW L, MatchOK(L)
  PROVE  SnapsOK({Snap(L)})
BY DEF MatchOK, SnapsOK, Snap, Snapshot, LiveMatch, PositionOK
-----------------------------------------------------------------------------
(* The operators on a live match.                                          *)

\* The countdown is right after touchPresence, whatever changed before it.
LEMMA TouchOK ==
  ASSUME NEW L, MatchOK(L), ScoredOK(L), SweptOK(L),
         L.timer => ~L.abandoned /\ ~L.over
  PROVE  LiveOK(TouchPresence(L)) /\ TouchPresence(L).game = L.game
BY DEF TouchPresence, LiveOK, MatchOK, ScoredOK, SweptOK, CountdownOK, LiveMatch

LEMMA ConnectedParts ==
  ASSUME NEW L \in LiveMatch, NEW T \in SUBSET Tokens,
         PositionOK(L.game), ScoredOK(L), SweptOK(L)
  PROVE  LET C == Connected(L, T)
         IN /\ MatchOK(C) /\ ScoredOK(C) /\ SweptOK(C)
            /\ C.game = L.game /\ C.timer = L.timer
            /\ C.abandoned = L.abandoned /\ C.over = L.over
<1> DEFINE C == Connected(L, T)
<1>1. {NodeOf[t] : t \in T} \in SUBSET Nodes
  BY ConstantsAssumption
<1>2. /\ C.conn = L.conn \cup T /\ C.seen = L.seen \cup {NodeOf[t] : t \in T}
      /\ C.game = L.game /\ C.timer = L.timer /\ C.scored = L.scored
      /\ C.abandoned = L.abandoned /\ C.over = L.over
  BY DEF Connected, LiveMatch
<1>3. C \in LiveMatch
  <2>1. /\ L.conn \cup T \in SUBSET Tokens
        /\ L.seen \cup {NodeOf[t] : t \in T} \in SUBSET Nodes
    BY <1>1 DEF LiveMatch
  <2> QED BY <2>1 DEF Connected, LiveMatch
<1> HIDE DEF C
<1>4. MatchOK(C) /\ ScoredOK(C)
  BY <1>2, <1>3 DEF MatchOK, ScoredOK
<1>5. SweptOK(C)
  BY <1>2 DEF SweptOK
<1> QED BY <1>2, <1>4, <1>5 DEF C

LEMMA ConnectedOK ==
  ASSUME NEW L, LiveOK(L), NEW T \in SUBSET Tokens
  PROVE  /\ LiveOK(TouchPresence(Connected(L, T)))
         /\ TouchPresence(Connected(L, T)).game = L.game
<1> DEFINE C == Connected(L, T)
<1>1. MatchOK(C) /\ ScoredOK(C) /\ SweptOK(C)
  <2>1. L \in LiveMatch /\ PositionOK(L.game) /\ ScoredOK(L) /\ SweptOK(L)
    BY DEF LiveOK, MatchOK
  <2> QED BY <2>1, ConnectedParts
<1>2. (C.timer => ~C.abandoned /\ ~C.over) /\ C.game = L.game
  BY DEF Connected, LiveOK, MatchOK, CountdownOK, LiveMatch
<1> QED BY <1>1, <1>2, TouchOK

LEMMA DroppedOK ==
  ASSUME NEW L, LiveOK(L), NEW T
  PROVE  /\ LiveOK(TouchPresence(Dropped(L, T)))
         /\ TouchPresence(Dropped(L, T)).game = L.game
<1> DEFINE D == Dropped(L, T)
<1>1. MatchOK(D) /\ ScoredOK(D) /\ SweptOK(D)
  BY DEF Dropped, LiveOK, MatchOK, ScoredOK, SweptOK, LiveMatch
<1>2. (D.timer => ~D.abandoned /\ ~D.over) /\ D.game = L.game
  BY DEF Dropped, LiveOK, MatchOK, CountdownOK, LiveMatch
<1> QED BY <1>1, <1>2, TouchOK

LEMMA SyncedOK ==
  ASSUME NEW L, LiveOK(L), NEW n, open \subseteq Tokens
  PROVE  /\ LiveOK(TouchPresence(Synced(L, n)))
         /\ TouchPresence(Synced(L, n)).game = L.game
<1> DEFINE D == Dropped(L, OnNodes(L.conn, {n}) \ OnNodes(open, {n}))
           C == Connected(D, OnNodes(open, {n}))
<1>1. MatchOK(D) /\ ScoredOK(D) /\ SweptOK(D) /\ D.game = L.game
      /\ (D.timer => ~D.abandoned /\ ~D.over)
  BY DEF Dropped, LiveOK, MatchOK, ScoredOK, SweptOK, CountdownOK, LiveMatch
<1>2. OnNodes(open, {n}) \in SUBSET Tokens
  BY DEF OnNodes
<1> HIDE DEF D
<1>3. MatchOK(C) /\ ScoredOK(C) /\ SweptOK(C) /\ C.game = L.game
      /\ (C.timer => ~C.abandoned /\ ~C.over)
  <2>1. D \in LiveMatch /\ PositionOK(D.game) /\ ScoredOK(D) /\ SweptOK(D)
    BY <1>1 DEF MatchOK
  <2>2. /\ MatchOK(C) /\ ScoredOK(C) /\ SweptOK(C)
        /\ C.game = D.game /\ C.timer = D.timer /\ C.abandoned = D.abandoned
        /\ C.over = D.over
    BY <1>2, <2>1, ConnectedParts
  <2> QED BY <1>1, <2>2
<1>4. Synced(L, n) = C
  BY DEF Synced, D
<1> QED BY <1>3, <1>4, TouchOK

LEMMA ForgottenOK ==
  ASSUME NEW L, LiveOK(L), NEW N
  PROVE  LET E == [Dropped(L, OnNodes(L.conn, N)) EXCEPT !.seen = @ \ N]
         IN LiveOK(TouchPresence(E)) /\ TouchPresence(E).game = L.game
<1> DEFINE E == [Dropped(L, OnNodes(L.conn, N)) EXCEPT !.seen = @ \ N]
<1>1. MatchOK(E) /\ ScoredOK(E) /\ SweptOK(E)
  BY DEF Dropped, OnNodes, LiveOK, MatchOK, ScoredOK, SweptOK, LiveMatch
<1>2. (E.timer => ~E.abandoned /\ ~E.over) /\ E.game = L.game
  BY DEF Dropped, LiveOK, MatchOK, CountdownOK, LiveMatch
<1> QED BY <1>1, <1>2, TouchOK

\* A move keeps everything but the position.
LEMMA PlayedOK ==
  ASSUME NEW L, MatchOK(L), L.game.phase = "PLAY", NEW s \in Seats
  PROVE  /\ MatchOK(AiMoved(L, s))
         /\ LiveOK(L) => LiveOK(AiMoved(L, s))
<1> DEFINE P == AiMoved(L, s)
<1>1. /\ PositionOK(Moved(L.game, s))
      /\ Moved(L.game, s).folded = L.game.folded
      /\ Moved(L.game, s).lastScope = L.game.lastScope
  BY MovedOK DEF MatchOK
<1>2. P.game = Moved(L.game, s)
  BY DEF AiMoved, MatchOK, LiveMatch
<1>3. MatchOK(P)
  <2>1. L \in LiveMatch /\ L.seq + 1 \in Nat /\ Moved(L.game, s) \in Game
    BY <1>1 DEF MatchOK, LiveMatch, PositionOK
  <2>2. P \in LiveMatch
    BY <2>1 DEF AiMoved, LiveMatch
  <2> QED BY <1>1, <1>2, <2>2 DEF MatchOK
<1>4. ASSUME LiveOK(L) PROVE LiveOK(P)
  BY <1>1, <1>2, <1>3, <1>4
     DEF AiMoved, MatchOK, LiveMatch, LiveOK, ScoredOK, CountdownOK, SweptOK
<1> QED BY <1>3, <1>4

\* Dealing the next hand leaves scores and presence alone.
LEMMA DealtMatchOK ==
  ASSUME NEW L, MatchOK(L), L.game.lastScope = "round", NEW s \in Seats
  PROVE  LET D == [L EXCEPT !.game = Dealt(@, s),
                            !.nextRound = FALSE, !.seq = @ + 1]
         IN MatchOK(D) /\ (LiveOK(L) => LiveOK(D))
<1> DEFINE D == [L EXCEPT !.game = Dealt(@, s),
                          !.nextRound = FALSE, !.seq = @ + 1]
<1>1. /\ PositionOK(Dealt(L.game, s))
      /\ Dealt(L.game, s).folded = L.game.folded
      /\ Dealt(L.game, s).lastScope = "none"
  BY DealtOK DEF MatchOK
<1>2. /\ D.game = Dealt(L.game, s)
      /\ D.scored = L.scored /\ D.over = L.over
      /\ D.conn = L.conn /\ D.seen = L.seen
      /\ D.timer = L.timer /\ D.abandoned = L.abandoned
  BY DEF MatchOK, LiveMatch
<1>3. MatchOK(D)
  <2>1. L \in LiveMatch /\ L.seq + 1 \in Nat /\ Dealt(L.game, s) \in Game
    BY <1>1 DEF MatchOK, LiveMatch, PositionOK
  <2>2. D \in LiveMatch
    BY <2>1 DEF LiveMatch
  <2> QED BY <1>1, <1>2, <2>2 DEF MatchOK
<1> HIDE DEF D
<1>4. ASSUME LiveOK(L) PROVE LiveOK(D)
  BY <1>1, <1>2, <1>3, <1>4
     DEF LiveOK, ScoredOK, CountdownOK, SweptOK
<1> QED BY <1>3, <1>4 DEF D

\* The engine's result is folded in once.
LEMMA ScoredHandOK ==
  ASSUME NEW L, LiveOK(L), HandToScore(L), NEW scope \in Scopes(L.game)
  PROVE  /\ LiveOK(Scored(L, scope))
         /\ Scored(L, scope).game.phase = "SCORING"
         /\ Scored(L, scope).game.lastScope = scope
<1> DEFINE R == Scored(L, scope)
<1>1. L \in LiveMatch /\ L.game.folded < L.game.hand /\ L.conn # {}
  BY DEF LiveOK, ScoredOK, MatchOK, HandToScore
<1>2. /\ PositionOK(Folded(L.game, scope))
      /\ Folded(L.game, scope).folded = L.game.hand
      /\ Folded(L.game, scope).phase = "SCORING"
      /\ Folded(L.game, scope).lastScope = scope
  BY <1>1, FoldedOK DEF LiveOK, MatchOK, HandToScore
<1>3. /\ R.game = Folded(L.game, scope)
      /\ R.scored = L.game.hand
      /\ R.over = (scope = "game")
      /\ R.conn = L.conn /\ R.seen = L.seen
      /\ R.timer = L.timer /\ R.abandoned = L.abandoned
  BY <1>1 DEF Scored, LiveMatch
<1>4. R \in LiveMatch
  <2>1. /\ Folded(L.game, scope) \in Game /\ L.seq + 1 \in Nat
        /\ L.game.hand \in 0..MaxHands
    BY <1>1, <1>2, ConstantsAssumption DEF PositionOK, LiveMatch, Game
  <2> QED BY <1>1, <2>1 DEF Scored, LiveMatch
<1> QED
  BY <1>1, <1>2, <1>3, <1>4
     DEF LiveOK, MatchOK, ScoredOK, CountdownOK, SweptOK
\* A match rebuilt from a snapshot knows which hands are in its scores.
LEMMA AdoptedOK ==
  ASSUME NEW doc \in Snapshot, PositionOK(doc.game), doc.seq \in Nat
  PROVE  LET A == Adopted(doc)
         IN MatchOK(A) /\ ScoredOK(A) /\ SweptOK(A) /\ A.timer = FALSE
<1> DEFINE A == Adopted(doc)
<1>1. /\ doc.game \in Game /\ doc.game.hand \in 0..MaxHands
      /\ doc.game.hand - 1 \in 0..MaxHands
  BY ConstantsAssumption DEF PositionOK, Game
<1>2. /\ A.game = doc.game /\ A.conn = {} /\ A.timer = FALSE
      /\ A.over = (doc.game.lastScope = "game")
      /\ A.scored = IF doc.game.lastHand = doc.game.hand
                    THEN doc.game.hand ELSE doc.game.hand - 1
  BY DEF Adopted, Blank
<1>3. A \in LiveMatch
  BY <1>1, BlankOK DEF Adopted, Blank, MatchOK, LiveMatch
<1> HIDE DEF A
<1>4. MatchOK(A) /\ ScoredOK(A) /\ SweptOK(A)
  BY <1>2, <1>3 DEF MatchOK, ScoredOK, SweptOK, PositionOK, ScoresRight
<1> QED BY <1>2, <1>4 DEF A
-----------------------------------------------------------------------------
(* The turn loop's steps.                                                  *)

LEMMA ScheduleOK ==
  ASSUME NEW S, SnapsOK(S), SnapsOK(pending), Schedule(S)
  PROVE  SnapsOK(pending') /\ store' = store
BY DEF Schedule, SnapsOK

\* A match that is over has its hand scored.
LEMMA OverIsScored ==
  ASSUME NEW L, LiveOK(L), L.over
  PROVE  ~HandToScore(L) /\ L.game.phase # "PLAY"
<1>1. /\ L.game \in Game /\ ScoresRight(L.game)
      /\ (L.game.phase = "PLAY" => L.game.lastHand = 0)
      /\ L.scored = L.game.folded /\ L.game.lastScope = "game"
  BY DEF LiveOK, MatchOK, ScoredOK, PositionOK
<1>2. L.game.lastHand # 0 /\ L.game.lastHand = L.game.hand
  BY <1>1 DEF ScoresRight
<1>3. L.game.folded = L.game.hand /\ L.game.hand \in Nat
  BY <1>1, <1>2 DEF ScoresRight, Game
<1> QED BY <1>1, <1>2, <1>3 DEF HandToScore

LEMMA DriveOK ==
  ASSUME NEW L, LiveOK(L), NEW S, SnapsOK(S), SnapsOK(pending),
         plan \in [hand: 0..MaxHands, ply: 0..Plies], Drive(L, S)
  PROVE  /\ LiveOK(live')
         /\ SnapsOK(pending') /\ store' = store
         /\ plan' \in [hand: 0..MaxHands, ply: 0..Plies]
         /\ pc' \in {"deciding", "intermission", "settling"}
         /\ pc' = "intermission" => Resting(live')
         /\ L.over => live' = L
<1>1. CASE ~HandToScore(L) /\ ~AiToMove(L) /\ Return(L, S)
  BY <1>1, ScheduleOK DEF Return
<1>2. CASE /\ HandToScore(L)
           /\ Return(Scored(L, "game"), S \cup {Snap(Scored(L, "game"))})
  <2>1. LiveOK(Scored(L, "game"))
    BY <1>2, ScoredHandOK DEF Scopes
  <2>2. SnapsOK(S \cup {Snap(Scored(L, "game"))})
    BY <2>1, SnapOK DEF SnapsOK, LiveOK
  <2> QED BY <1>2, <2>1, <2>2, ScheduleOK, OverIsScored DEF Return
<1>3. CASE /\ HandToScore(L)
           /\ "round" \in Scopes(L.game)
           /\ live' = Scored(L, "round")
           /\ pc' = "intermission"
           /\ Schedule(S \cup {Snap(Scored(L, "round"))})
           /\ UNCHANGED plan
  <2>1. LiveOK(Scored(L, "round")) /\ Resting(Scored(L, "round"))
    BY <1>3, ScoredHandOK DEF Resting
  <2>2. SnapsOK(S \cup {Snap(Scored(L, "round"))})
    BY <2>1, SnapOK DEF SnapsOK, LiveOK
  <2> QED BY <1>3, <2>1, <2>2, ScheduleOK, OverIsScored
<1>4. CASE /\ AiToMove(L)
           /\ live' = L
           /\ pc' = "deciding"
           /\ plan' = [hand |-> L.game.hand, ply |-> L.game.ply]
           /\ Schedule(S)
  <2>1. L.game.hand \in 0..MaxHands /\ L.game.ply \in 0..Plies
    BY ConstantsAssumption DEF LiveOK, MatchOK, PositionOK, Game
  <2> QED BY <1>4, <2>1, ScheduleOK
<1> QED BY <1>1, <1>2, <1>3, <1>4 DEF Drive

\* Every handler that ends in resume() or in the turn loop: L is the match it
\* leaves, S the snapshots it has scheduled.
LEMMA WakeOK ==
  ASSUME IInv, NEW L, LiveOK(L), NEW S, SnapsOK(S), Wake(L, S),
         RestOK', mode' = "live", UNCHANGED <<detached, held>>,
         pc = "intermission" /\ ~detached => Resting(L)
  PROVE  IInv'
<1>1. /\ SnapsOK(pending) /\ SnapsOK({store}) /\ MatchOK(held)
      /\ plan \in [hand: 0..MaxHands, ply: 0..Plies]
      /\ pc \in {"idle", "settling"} \cup Waits /\ detached \in BOOLEAN
      /\ LoopOK
  BY DEF IInv
<1>2. CASE pc = "idle" /\ Drive(L, S)
  <2>1. /\ LiveOK(live') /\ SnapsOK(pending') /\ store' = store
        /\ plan' \in [hand: 0..MaxHands, ply: 0..Plies]
        /\ pc' \in {"deciding", "intermission", "settling"}
        /\ pc' = "intermission" => Resting(live')
    BY <1>1, <1>2, DriveOK
  <2>2. ~detached
    BY <1>1, <1>2 DEF LoopOK, Waits
  <2>3. LoopOK'
    BY <2>1, <2>2 DEF LoopOK, Current, Resting
  <2>4. MatchOK(live') /\ MatchOK(held')
    BY <1>1, <2>1 DEF LiveOK
  <2> QED BY <1>1, <2>1, <2>3, <2>4 DEF IInv, Waits, SnapsOK
<1>3. CASE pc # "idle" /\ live' = L /\ Schedule(S) /\ UNCHANGED <<pc, plan>>
  <2>1. SnapsOK(pending') /\ store' = store
    BY <1>1, <1>3, ScheduleOK
  <2>2. LoopOK'
    BY <1>1, <1>3 DEF LoopOK, Current, Resting, Waits
  <2>3. MatchOK(live') /\ LiveOK(live') /\ MatchOK(held')
    BY <1>1, <1>3 DEF LiveOK
  <2> QED BY <1>1, <1>3, <2>1, <2>2, <2>3 DEF IInv, Waits, SnapsOK
<1> QED BY <1>2, <1>3 DEF Wake

\* The run ends: what it was holding is let go.
LEMMA ReturnOK ==
  ASSUME IInv, NEW S, SnapsOK(S), Return(live, S),
         RestOK', mode' = mode, detached' = FALSE, held' = Blank
  PROVE  IInv'
BY ScheduleOK, BlankOK DEF Return, IInv, LoopOK, Waits, SnapsOK

\* The loop is back at its head, with the match L in its hands.
LEMMA LoopHeadOK ==
  ASSUME IInv, NEW L, NEW S, SnapsOK(S), LoopHead(L, S), pc \in Waits,
         ~detached => LiveOK(L), RestOK', mode' = mode
  PROVE  IInv'
<1>1. /\ SnapsOK(pending) /\ SnapsOK({store}) /\ MatchOK(Blank) /\ MatchOK(live)
      /\ plan \in [hand: 0..MaxHands, ply: 0..Plies]
      /\ detached' = FALSE /\ held' = Blank
      /\ mode = "live" => LiveOK(live)
      /\ ~detached => mode = "live"
  BY BlankOK DEF IInv, LoopHead, LoopOK
<1>2. ASSUME NEW M, LiveOK(M), Drive(M, S), mode = "live" PROVE IInv'
  <2>1. /\ LiveOK(live') /\ SnapsOK(pending') /\ store' = store
        /\ plan' \in [hand: 0..MaxHands, ply: 0..Plies]
        /\ pc' \in {"deciding", "intermission", "settling"}
        /\ pc' = "intermission" => Resting(live')
    BY <1>1, <1>2, DriveOK
  <2>2. LoopOK'
    BY <1>1, <1>2, <2>1 DEF LoopOK, Current, Resting
  <2>3. MatchOK(live') /\ MatchOK(held')
    BY <1>1, <2>1 DEF LiveOK
  <2> QED BY <1>1, <1>2, <2>1, <2>2, <2>3 DEF IInv, Waits, SnapsOK
<1>3. CASE ~detached /\ Drive(L, S)
  BY <1>1, <1>2, <1>3
<1>4. CASE detached /\ mode = "live" /\ Drive(live, S)
  BY <1>1, <1>2, <1>4
<1>5. CASE detached /\ mode # "live" /\ Return(live, S)
  BY <1>1, <1>5, ReturnOK
<1> QED BY <1>3, <1>4, <1>5 DEF LoopHead

\* The match the loop holds during a wait is sound, and is the running one
\* unless it has been evicted.
LEMMA CurrentOK ==
  ASSUME IInv
  PROVE  /\ MatchOK(Current)
         /\ pc \in Waits /\ ~detached => mode = "live" /\ LiveOK(Current)
BY DEF IInv, LoopOK, Current
-----------------------------------------------------------------------------
(* Every step keeps the invariant.                                         *)

LEMMA InitOK == Init => IInv
<1> SUFFICES ASSUME Init PROVE IInv
  OBVIOUS
<1>1. /\ SnapsOK({store}) /\ SnapsOK(pending)
  BY NowhereOK DEF Init, SnapsOK, NoDoc, Snapshot
<1>2. plan \in [hand: 0..MaxHands, ply: 0..Plies]
  BY ConstantsAssumption DEF Init, NoPlan
<1>3. MatchOK(live) /\ MatchOK(held)
  BY BlankOK DEF Init
<1> QED BY <1>1, <1>2, <1>3 DEF Init, IInv, RestOK, LoopOK, Waits

LEMMA LoopStepOK == IInv /\ LoopStep => IInv'
<1> SUFFICES ASSUME IInv, LoopStep PROVE IInv'
  OBVIOUS
<1> USE CurrentOK
<1>1. CASE DecisionArrives
  <2>1. PICK s \in Seats :
          Hold(AiMoved(Current, s), "pausing", {Snap(AiMoved(Current, s))})
    BY <1>1 DEF DecisionArrives
  <2> DEFINE L == AiMoved(Current, s)
  <2>2. pc = "deciding" /\ Current.game.phase = "PLAY" /\ RestOK' /\ mode' = mode
    BY <1>1 DEF DecisionArrives, Accepts, IInv, RestOK, sockVars
  <2>3. MatchOK(L) /\ (LiveOK(Current) => LiveOK(L)) /\ SnapsOK({Snap(L)})
    BY <2>2, PlayedOK, SnapOK
  <2> HIDE DEF L
  <2>4. SnapsOK(pending') /\ store' = store
    BY <2>1, <2>3, ScheduleOK DEF Hold, IInv, L
  <2>5. /\ MatchOK(live') /\ MatchOK(held')
        /\ mode' = "live" => LiveOK(live')
        /\ pc' = "pausing" /\ plan' = plan /\ detached' = detached
    BY <2>1, <2>2, <2>3 DEF Hold, IInv, Waits, LoopOK, L
  <2>6. LoopOK'
    BY <2>2, <2>5 DEF IInv, LoopOK, Waits
  <2> QED BY <2>2, <2>4, <2>5, <2>6 DEF IInv, Waits, SnapsOK
<1>2. CASE SlowDecisionArrives
  <2>1. PICK s \in Seats :
          LoopHead(AiMoved(Current, s), {Snap(AiMoved(Current, s))})
    BY <1>2 DEF SlowDecisionArrives
  <2> DEFINE L == AiMoved(Current, s)
  <2>2. pc = "deciding" /\ Current.game.phase = "PLAY" /\ RestOK' /\ mode' = mode
    BY <1>2 DEF SlowDecisionArrives, Accepts, IInv, RestOK, sockVars
  <2>3. MatchOK(L) /\ (LiveOK(Current) => LiveOK(L)) /\ SnapsOK({Snap(L)})
    BY <2>2, PlayedOK, SnapOK
  <2> HIDE DEF L
  <2> QED BY <2>1, <2>2, <2>3, LoopHeadOK DEF L, Waits
<1>3. CASE DecisionRejected
  <2>1. RestOK' /\ SnapsOK({})
    BY <1>3 DEF DecisionRejected, IInv, RestOK, SnapsOK, sockVars
  <2> QED BY <1>3, <2>1, ReturnOK DEF DecisionRejected
<1>4. CASE PauseEnds
  <2>1. RestOK' /\ SnapsOK({})
    BY <1>4 DEF PauseEnds, IInv, RestOK, SnapsOK, sockVars
  <2> QED BY <1>4, <2>1, LoopHeadOK DEF PauseEnds, Waits, Current
<1>5. CASE IntermissionEnds
  <2>1. RestOK' /\ SnapsOK({}) /\ mode' = mode /\ pc = "intermission"
    BY <1>5 DEF IntermissionEnds, IInv, RestOK, SnapsOK, sockVars
  <2>2. CASE Return(live, {}) /\ detached' = FALSE /\ held' = Blank
    BY <2>1, <2>2, ReturnOK
  <2>3. ASSUME NEW s \in Seats,
               LET L == [Current EXCEPT !.game = Dealt(@, s),
                                        !.nextRound = FALSE, !.seq = @ + 1]
               IN LoopHead(L, {Snap(L)})
        PROVE  IInv'
    <3> DEFINE L == [Current EXCEPT !.game = Dealt(@, s),
                                    !.nextRound = FALSE, !.seq = @ + 1]
    <3>1. /\ Current.game.lastScope = "round"
          /\ MatchOK(Current)
          /\ pc \in Waits
      BY <2>1 DEF IInv, LoopOK, Resting, Waits
    <3>2. MatchOK(L) /\ (LiveOK(Current) => LiveOK(L))
      BY <3>1, DealtMatchOK
    <3>3. SnapsOK({Snap(L)})
      BY <3>2, SnapOK
    <3> HIDE DEF L
    <3> QED BY <2>1, <2>3, <3>1, <3>2, <3>3, LoopHeadOK DEF L
  <2> QED BY <1>5, <2>2, <2>3 DEF IntermissionEnds
<1>6. CASE RunSettles
  BY <1>6 DEF RunSettles, IInv, RestOK, LoopOK, Waits, diskVars, sockVars, SnapsOK
<1> QED BY <1>1, <1>2, <1>3, <1>4, <1>5, <1>6 DEF LoopStep

\* A handler that leaves the running match's position alone cannot disturb a
\* loop waiting out an intermission.
LEMMA SameGameOK ==
  ASSUME IInv, mode = "live", NEW L, L.game = live.game,
         pc = "intermission", ~detached
  PROVE  Resting(L)
BY DEF IInv, LoopOK, Current, Resting

\* Handlers that only move sockets about.
LEMMA SocketsOK ==
  ASSUME IInv, RestOK', UNCHANGED <<mode, live, loopVars, diskVars>>
  PROVE  IInv'
BY DEF IInv, loopVars, diskVars, LoopOK, Current, Resting, SnapsOK, LiveOK,
       MatchOK, PositionOK, ScoresRight, ScoredOK, CountdownOK, SweptOK

LEMMA RoomStepOK ==
  ASSUME IInv,
         \/ \E t \in Tokens : EnterRoom(t)
         \/ \E t \in Tokens, s \in Seats : ClaimRoomSeat(t, s)
         \/ \E t \in Tokens : SocketLeaves(t)
         \/ \E t \in Tokens : DisconnectLost(t)
  PROVE  IInv'
<1>1. ASSUME NEW t \in Tokens, EnterRoom(t) PROVE IInv'
  <2>1. RestOK'
    BY <1>1 DEF EnterRoom, IInv, RestOK
  <2> QED BY <1>1, <2>1, SocketsOK DEF EnterRoom
<1>2. ASSUME NEW t \in Tokens, NEW s \in Seats, ClaimRoomSeat(t, s) PROVE IInv'
  <2>1. UserOf[t] \in Users
    BY ConstantsAssumption
  <2>2. RestOK'
    BY <1>2, <2>1 DEF ClaimRoomSeat, IInv, RestOK
  <2> QED BY <1>2, <2>2, SocketsOK DEF ClaimRoomSeat
<1>3. ASSUME NEW t \in Tokens, SocketLeaves(t) PROVE IInv'
  <2>1. RestOK'
    BY <1>3 DEF SocketLeaves, IInv, RestOK
  <2> QED BY <1>3, <2>1, SocketsOK DEF SocketLeaves
<1>4. ASSUME NEW t \in Tokens, DisconnectLost(t) PROVE IInv'
  <2>1. RestOK'
    BY <1>4 DEF DisconnectLost, IInv, RestOK
  <2> QED BY <1>4, <2>1, SocketsOK DEF DisconnectLost
<1> QED BY <1>1, <1>2, <1>3, <1>4

LEMMA StartMatchOK ==
  ASSUME IInv, NEW t \in Tokens, StartMatch(t)
  PROVE  IInv'
<1>1. PICK C \in SUBSET Tokens, s \in Seats :
        LET trusted == {c \in C : claims[sat[c]] = UserOf[c]}
            humans  == {x \in Seats : claims[x] # NoUser}
            L == TouchPresence(Connected(
                   [Blank EXCEPT !.game = FirstHand(s, humans),
                                 !.owners = claims], trusted))
        IN Wake(L, {Snap(L)})
  BY DEF StartMatch
<1> DEFINE trusted == {c \in C : claims[sat[c]] = UserOf[c]}
           humans  == {x \in Seats : claims[x] # NoUser}
           B == [Blank EXCEPT !.game = FirstHand(s, humans), !.owners = claims]
           L == TouchPresence(Connected(B, trusted))
<1>2. RestOK' /\ claims \in [Seats -> Users \cup {NoUser}]
  BY DEF StartMatch, IInv, RestOK, sockVars
<1>3. B \in LiveMatch /\ PositionOK(B.game) /\ ScoredOK(B) /\ SweptOK(B)
      /\ B.timer = FALSE
  <2>1. PositionOK(FirstHand(s, humans)) /\ FirstHand(s, humans) \in Game
    BY FirstHandOK DEF PositionOK
  <2>2. /\ B.game = FirstHand(s, humans) /\ B.conn = {} /\ B.timer = FALSE
        /\ B.scored = 0 /\ B.over = FALSE
    BY DEF Blank
  <2>3. B \in LiveMatch
    <3>1. Blank \in LiveMatch
      BY BlankOK DEF MatchOK
    <3> DEFINE g == FirstHand(s, humans)
    <3>2. g \in Game
      BY <2>1
    <3> HIDE DEF g
    <3>3. [Blank EXCEPT !.game = g, !.owners = claims] \in LiveMatch
      BY <1>2, <3>1, <3>2 DEF LiveMatch
    <3> QED BY <3>3 DEF g
  <2>4. /\ FirstHand(s, humans).folded = 0
        /\ FirstHand(s, humans).lastScope = "none"
    BY DEF FirstHand
  <2> HIDE DEF B
  <2> QED BY <2>1, <2>2, <2>3, <2>4 DEF ScoredOK, SweptOK
<1>4. trusted \in SUBSET Tokens
  OBVIOUS
<1> HIDE DEF B
<1>5. LiveOK(L)
  BY <1>3, <1>4, ConnectedParts, TouchOK
<1>6. SnapsOK({Snap(L)})
  BY <1>5, SnapOK DEF LiveOK
<1> HIDE DEF L
<1>7. Wake(L, {Snap(L)}) /\ mode = "room" /\ mode' = "live"
      /\ UNCHANGED <<detached, held>>
  BY <1>1 DEF StartMatch, L, B
<1>8. ~(pc = "intermission" /\ ~detached)
  BY <1>7 DEF IInv, LoopOK, Waits
<1> QED BY <1>2, <1>5, <1>6, <1>7, <1>8, WakeOK

LEMMA CommandStepOK == IInv /\ CommandStep => IInv'
<1> SUFFICES ASSUME IInv, CommandStep PROVE IInv'
  OBVIOUS
<1>0. SnapsOK({}) /\ (mode = "live" => LiveOK(live)) /\ open \subseteq Tokens
  BY DEF SnapsOK, IInv, RestOK
<1>1. ASSUME NEW t \in Tokens, NEW s \in Seats, JoinMatch(t, s) PROVE IInv'
  <2> DEFINE O == [live EXCEPT !.owners[s] = UserOf[t]]
             L == TouchPresence(Connected(O, {t}))
  <2>1. mode = "live" /\ Wake(L, {}) /\ mode' = mode
        /\ UNCHANGED <<detached, held>>
    BY <1>1 DEF JoinMatch
  <2>2. RestOK'
    BY <1>1 DEF JoinMatch, IInv, RestOK
  <2>3. LiveOK(O) /\ O.game = live.game
    BY <1>0, <2>1, ConstantsAssumption
       DEF LiveOK, MatchOK, ScoredOK, CountdownOK, SweptOK, LiveMatch
  <2> HIDE DEF O
  <2>4. LiveOK(L) /\ L.game = live.game
    BY <2>3, ConnectedOK
  <2> HIDE DEF L
  <2> QED BY <1>0, <2>1, <2>2, <2>4, SameGameOK, WakeOK
<1>2. ASSUME NEW u \in Users, SubmitMove(u) PROVE IInv'
  <2>1. PICK s \in Seats : Wake(AiMoved(live, s), {Snap(AiMoved(live, s))})
    BY <1>2 DEF SubmitMove, AiMoved
  <2> DEFINE L == AiMoved(live, s)
  <2>2. /\ mode = "live" /\ mode' = mode /\ live.game.phase = "PLAY" /\ RestOK'
        /\ UNCHANGED <<detached, held>>
    BY <1>2 DEF SubmitMove, IInv, RestOK, sockVars
  <2>3. LiveOK(L)
    BY <1>0, <2>2, PlayedOK DEF LiveOK
  <2>4. SnapsOK({Snap(L)})
    BY <2>3, SnapOK DEF LiveOK
  <2>5. ~(pc = "intermission" /\ ~detached)
    BY <2>2 DEF IInv, LoopOK, Current, Resting
  <2> HIDE DEF L
  <2> QED BY <2>1, <2>2, <2>3, <2>4, <2>5, WakeOK DEF L
<1>3. ASSUME NEW t \in Tokens, DisconnectArrives(t) PROVE IInv'
  <2>1. RestOK' /\ mode' = mode /\ UNCHANGED <<detached, held>>
    BY <1>3 DEF DisconnectArrives, IInv, RestOK
  <2> DEFINE L == TouchPresence(Dropped(live, {t}))
  <2>2. CASE mode = "live" /\ Wake(L, {})
    <3>1. LiveOK(L) /\ L.game = live.game
      BY <1>0, <2>2, DroppedOK
    <3> HIDE DEF L
    <3> QED BY <1>0, <2>1, <2>2, <3>1, SameGameOK, WakeOK
  <2>3. CASE UNCHANGED <<live, pc, plan, diskVars>>
    BY <2>1, <2>3, SocketsOK DEF loopVars
  <2> QED BY <1>3, <2>2, <2>3 DEF DisconnectArrives
<1>4. ASSUME NEW n \in Nodes, SyncNodePresence(n) PROVE IInv'
  <2> DEFINE L == TouchPresence(Synced(live, n))
  <2>1. /\ mode = "live" /\ Wake(L, {}) /\ mode' = mode /\ RestOK'
        /\ UNCHANGED <<detached, held>>
    BY <1>4 DEF SyncNodePresence, IInv, RestOK, sockVars
  <2>2. LiveOK(L) /\ L.game = live.game
    BY <1>0, <2>1, SyncedOK
  <2> HIDE DEF L
  <2> QED BY <1>0, <2>1, <2>2, SameGameOK, WakeOK
<1>5. ASSUME NEW N \in SUBSET Nodes, EvictStaleNodes(N) PROVE IInv'
  <2> DEFINE E == [Dropped(live, OnNodes(live.conn, N)) EXCEPT !.seen = @ \ N]
             L == TouchPresence(E)
  <2>1. /\ mode = "live" /\ Wake(L, {}) /\ mode' = mode /\ RestOK'
        /\ UNCHANGED <<detached, held>>
    BY <1>5 DEF EvictStaleNodes, IInv, RestOK, sockVars
  <2>2. LiveOK(L) /\ L.game = live.game
    BY <1>0, <2>1, ForgottenOK
  <2> HIDE DEF L
  <2> QED BY <1>0, <2>1, <2>2, SameGameOK, WakeOK
<1>6. CASE AbandonTimerFires
  <2>1. /\ mode = "live" /\ mode' = mode /\ pc = "idle" /\ RestOK'
        /\ live.timer
        /\ live' = [live EXCEPT !.timer = FALSE,
                            !.abandoned = @ \/ (~live.over /\ live.conn = {})]
        /\ UNCHANGED <<loopVars, diskVars>>
    BY <1>6 DEF AbandonTimerFires, IInv, RestOK, sockVars
  <2>2. /\ live'.timer = FALSE /\ live'.abandoned = TRUE
        /\ live'.game = live.game /\ live'.conn = live.conn
        /\ live'.seen = live.seen /\ live'.over = live.over
        /\ live'.scored = live.scored /\ live.conn = {}
        /\ live' \in LiveMatch
    BY <1>0, <2>1 DEF LiveOK, MatchOK, CountdownOK, LiveMatch
  <2>3. MatchOK(live') /\ LiveOK(live')
    BY <1>0, <2>1, <2>2 DEF LiveOK, MatchOK, ScoredOK, CountdownOK, SweptOK
  <2>4. SnapsOK(pending') /\ SnapsOK({store'}) /\ MatchOK(held')
    BY <2>1 DEF IInv, loopVars, diskVars
  <2>5. LoopOK'
    BY <2>1 DEF IInv, LoopOK, Waits, loopVars
  <2> QED BY <2>1, <2>3, <2>4, <2>5 DEF IInv, loopVars
<1> QED
  BY <1>1, <1>2, <1>3, <1>4, <1>5, <1>6, RoomStepOK, StartMatchOK
     DEF CommandStep

LEMMA DiskStepOK == IInv /\ DiskStep => IInv'
<1> SUFFICES ASSUME IInv, DiskStep PROVE IInv'
  OBVIOUS
<1>1. /\ RestOK' /\ SnapsOK(pending') /\ SnapsOK({store'})
      /\ UNCHANGED <<mode, live, loopVars>>
  BY DEF DiskStep, SaveLands, SaveFails, Kept, IInv, RestOK, SnapsOK, sockVars
<1> QED
  BY <1>1 DEF IInv, loopVars, LoopOK, Current, Resting, LiveOK,
       MatchOK, PositionOK, ScoresRight, ScoredOK, CountdownOK, SweptOK

LEMMA FailoverStepOK == IInv /\ FailoverStep => IInv'
<1> SUFFICES ASSUME IInv, FailoverStep PROVE IInv'
  OBVIOUS
<1>1. CASE Evict
  <2>1. /\ RestOK' /\ mode' = "absent" /\ live' = Blank /\ MatchOK(Blank)
        /\ UNCHANGED <<pc, plan, diskVars>>
    BY <1>1, BlankOK DEF Evict, IInv, RestOK, sockVars
  <2>2. MatchOK([live EXCEPT !.timer = FALSE])
        /\ [live EXCEPT !.timer = FALSE].game = live.game
    BY DEF IInv, MatchOK, LiveMatch
  <2>3. MatchOK(held') /\ detached' \in BOOLEAN /\ LoopOK'
    <3>1. CASE pc \in Waits /\ ~detached /\ detached' = TRUE
               /\ held' = [live EXCEPT !.timer = FALSE]
      <4>1. held'.game = live.game /\ MatchOK(held')
        BY <2>2, <3>1
      <4>2. pc = "intermission" => Resting(live)
        BY <3>1 DEF IInv, LoopOK, Current
      <4> QED BY <2>1, <3>1, <4>1, <4>2 DEF LoopOK, Current, Resting
    <3>2. CASE (pc \notin Waits \/ detached) /\ UNCHANGED <<detached, held>>
      BY <2>1, <3>2 DEF IInv, LoopOK, Current, Resting, Waits
    <3> QED BY <1>1, <3>1, <3>2 DEF Evict, Waits
  <2> QED BY <2>1, <2>3 DEF IInv, diskVars, SnapsOK
<1>2. CASE Crash
  <2>1. /\ mode' = "absent" /\ live' = Blank /\ held' = Blank
        /\ pc' = "idle" /\ detached' = FALSE /\ MatchOK(Blank)
        /\ pending' = {} /\ plan' = plan
    BY <1>2, BlankOK DEF Crash
  <2>2. RestOK'
    BY <1>2 DEF Crash, IInv, RestOK, OnNodes
  <2>3. SnapsOK(pending') /\ SnapsOK({store'})
    BY <1>2 DEF Crash, Kept, IInv, SnapsOK
  <2> QED BY <2>1, <2>2, <2>3 DEF IInv, LoopOK, Waits
<1>3. CASE Adopt
  <2> DEFINE A == Adopted(store)
             L == TouchPresence(A)
  <2>1. /\ mode = "absent" /\ mode' = "live" /\ Wake(L, {}) /\ RestOK'
        /\ store.seq >= 0 /\ UNCHANGED <<detached, held>>
    BY <1>3 DEF Adopt, IInv, RestOK, sockVars
  <2>2. /\ store \in Snapshot /\ PositionOK(store.game) /\ SnapsOK({})
        /\ store.seq \in Nat
    BY <2>1 DEF IInv, SnapsOK, Snapshot
  <2>3. MatchOK(A) /\ ScoredOK(A) /\ SweptOK(A) /\ A.timer = FALSE
    BY <2>2, AdoptedOK
  <2> HIDE DEF A
  <2>4. LiveOK(L)
    BY <2>3, TouchOK
  <2>5. ~(pc = "intermission" /\ ~detached)
    BY <2>1 DEF IInv, LoopOK, Waits
  <2> HIDE DEF L
  <2> QED BY <2>1, <2>2, <2>4, <2>5, WakeOK
<1> QED BY <1>1, <1>2, <1>3 DEF FailoverStep

LEMMA Inductive == Spec => []IInv
<1>1. IInv /\ [Next]_vars => IInv'
  <2> SUFFICES ASSUME IInv, [Next]_vars PROVE IInv'
    OBVIOUS
  <2>1. CASE UNCHANGED vars
    <3>1. RestOK' /\ UNCHANGED <<mode, live, loopVars, diskVars>>
      BY <2>1 DEF vars, IInv, RestOK, loopVars, diskVars
    <3> QED BY <3>1, SocketsOK
  <2> QED
    BY <2>1, LoopStepOK, CommandStepOK, DiskStepOK, FailoverStepOK DEF Next
<1> QED BY InitOK, <1>1, PTL DEF Spec
-----------------------------------------------------------------------------
(* The theorems.                                                           *)

\* Every variable keeps its type, and the loop holds an evicted LiveMatch only
\* during one of its waits.
THEOREM TypeCorrect == Spec => []TypeOK
<1>1. IInv => TypeOK
  BY DEF IInv, RestOK, TypeOK, SnapsOK, MatchOK, Waits
<1> QED BY Inductive, <1>1, PTL

\* Every hand is folded into the scores exactly once (driveAiTurns 765-769,
\* adopt 404-412), however handlers, failover and lost writes interleave.
THEOREM HandsScoredOnce == Spec => []EachHandScoredOnce
<1>1. IInv => EachHandScoredOnce
  BY DEF IInv, EachHandScoredOnce, SnapsOK, LiveOK, MatchOK, PositionOK, ScoredOK
<1> QED BY Inductive, <1>1, PTL

\* The abandon countdown runs exactly while it should (touchPresence 527-562).
THEOREM CountdownRight == Spec => []CountdownFollowsPresence
<1>1. IInv => CountdownFollowsPresence
  BY DEF IInv, CountdownFollowsPresence, LiveOK, CountdownOK
<1> QED BY Inductive, <1>1, PTL

\* No connection is out of the stale-node sweep's reach (evictStaleNodes).
THEOREM ConnectionsSwept == Spec => []EveryConnectionIsSwept
<1>1. IInv => EveryConnectionIsSwept
  BY DEF IInv, EveryConnectionIsSwept, LiveOK, SweptOK
<1> QED BY Inductive, <1>1, PTL

LEMMA WakeKeepsStore ==
  ASSUME NEW L, NEW S, Wake(L, S)
  PROVE  store' = store
BY DEF Wake, Drive, Return, Schedule

LEMMA LoopHeadKeepsStore ==
  ASSUME NEW L, NEW S, LoopHead(L, S)
  PROVE  store' = store
BY DEF LoopHead, Drive, Return, Schedule

\* The stored document never goes back to an older sequence
\* (MongoMatchRepository.save), whatever order the writes land in.
THEOREM StoreForward == Spec => StoreNeverGoesBack
<1>1. IInv /\ [Next]_vars => (store'.seq >= store.seq \/ UNCHANGED vars)
  <2> SUFFICES ASSUME IInv, [Next]_vars
               PROVE  store'.seq >= store.seq \/ UNCHANGED vars
    OBVIOUS
  <2>1. store.seq \in Int
    BY DEF IInv, SnapsOK, Snapshot
  <2>2. CASE UNCHANGED store
    BY <2>1, <2>2
  <2>3. ASSUME NEW p \in pending \cup {store}, store' = Kept(p)
        PROVE  store'.seq >= store.seq
    <3>1. p.seq \in Int
      BY DEF IInv, SnapsOK, Snapshot
    <3> QED BY <2>1, <2>3, <3>1 DEF Kept
  <2>4. CASE DiskStep
    BY <2>2, <2>3, <2>4 DEF DiskStep, SaveLands, SaveFails
  <2>5. CASE FailoverStep
    BY <2>2, <2>3, <2>5, WakeKeepsStore
       DEF FailoverStep, Crash, Evict, Adopt, diskVars
  <2>6. CASE LoopStep
    BY <2>2, <2>6, LoopHeadKeepsStore
       DEF LoopStep, DecisionArrives, SlowDecisionArrives, DecisionRejected,
           PauseEnds, IntermissionEnds, RunSettles, Hold, Return, Schedule,
           diskVars
  <2>7. CASE CommandStep
    BY <2>2, <2>7, WakeKeepsStore
       DEF CommandStep, EnterRoom, ClaimRoomSeat, StartMatch, JoinMatch,
           SubmitMove, SocketLeaves, DisconnectArrives, DisconnectLost,
           SyncNodePresence, EvictStaleNodes, AbandonTimerFires, diskVars
  <2> QED BY <2>4, <2>5, <2>6, <2>7 DEF Next
<1>2. IInv /\ [Next]_vars => [store'.seq >= store.seq]_vars
  BY <1>1
<1> QED BY Inductive, <1>2, PTL DEF Spec, StoreNeverGoesBack

\* The loop has nothing to do in a match that is over.
LEMMA DriveIdlesWhenOver ==
  ASSUME NEW L, LiveOK(L), L.over, NEW S, Drive(L, S)
  PROVE  live' = L
BY OverIsScored DEF Drive, Return, AiToMove

LEMMA WakeIdlesWhenOver ==
  ASSUME NEW L, LiveOK(L), L.over, NEW S, Wake(L, S)
  PROVE  live' = L
BY DriveIdlesWhenOver DEF Wake

\* Once its last hand is scored a match never changes again (matchOver,
\* driveAiTurns 771-777): nothing a player, the AI or a timer does reopens it.
THEOREM OverForGood == Spec => OverIsFinal
<1> DEFINE Stays == mode = "live" /\ live.over /\ mode' = "live"
                      => live'.over /\ live'.game = live.game
<1>1. IInv /\ [Next]_vars => (Stays \/ UNCHANGED vars)
  <2> SUFFICES ASSUME IInv, Next, mode = "live", live.over, mode' = "live"
               PROVE  live'.over /\ live'.game = live.game
    OBVIOUS
  <2>1. /\ LiveOK(live) /\ ~HandToScore(live) /\ live.game.phase # "PLAY"
        /\ open \subseteq Tokens
    BY OverIsScored DEF IInv, RestOK
  <2>2. CASE live' = live
    BY <2>2
  <2>3. CASE LoopStep
    <3>1. CASE DecisionArrives
      BY <2>1, <3>1 DEF DecisionArrives, Accepts, Current, Hold
    <3>2. CASE SlowDecisionArrives
      BY <2>1, <3>2, DriveIdlesWhenOver
         DEF SlowDecisionArrives, Accepts, Current, LoopHead
    <3>3. CASE DecisionRejected
      BY <3>3 DEF DecisionRejected, Return
    <3>4. CASE PauseEnds
      BY <2>1, <3>4, DriveIdlesWhenOver DEF PauseEnds, LoopHead
    <3>5. CASE IntermissionEnds
      <4>1. CASE ~detached
        <5>1. live.game.lastScope = "round"
          BY <3>5, <4>1 DEF IntermissionEnds, IInv, LoopOK, Current, Resting
        <5> QED BY <2>1, <5>1 DEF LiveOK, ScoredOK
      <4>2. CASE detached
        BY <2>1, <3>5, <4>2, DriveIdlesWhenOver
           DEF IntermissionEnds, LoopHead, Return, IInv
      <4> QED BY <4>1, <4>2
    <3>6. CASE RunSettles
      BY <2>2, <3>6 DEF RunSettles
    <3> QED BY <2>3, <3>1, <3>2, <3>3, <3>4, <3>5, <3>6 DEF LoopStep
  <2>4. CASE CommandStep
    <3>1. ASSUME NEW L, LiveOK(L), L.game = live.game, Wake(L, {})
          PROVE  live'.over /\ live'.game = live.game
      <4>1. L.over
        BY <2>1, <3>1 DEF LiveOK, ScoredOK
      <4> QED BY <3>1, <4>1, WakeIdlesWhenOver
    <3>2. ASSUME NEW t \in Tokens, NEW s \in Seats, JoinMatch(t, s)
          PROVE  live'.over /\ live'.game = live.game
      <4> DEFINE O == [live EXCEPT !.owners[s] = UserOf[t]]
      <4>1. LiveOK(O) /\ O.game = live.game
        BY <2>1, <3>2, ConstantsAssumption
           DEF JoinMatch, LiveOK, MatchOK, ScoredOK, CountdownOK, SweptOK, LiveMatch
      <4>2. Wake(TouchPresence(Connected(O, {t})), {})
        BY <3>2 DEF JoinMatch
      <4> HIDE DEF O
      <4> QED BY <3>1, <4>1, <4>2, ConnectedOK
    <3>3. ASSUME NEW u \in Users, SubmitMove(u) PROVE FALSE
      BY <2>1, <3>3 DEF SubmitMove
    <3>4. ASSUME NEW t \in Tokens, DisconnectArrives(t)
          PROVE  live'.over /\ live'.game = live.game
      BY <2>1, <3>1, <3>4, DroppedOK DEF DisconnectArrives
    <3>5. ASSUME NEW n \in Nodes, SyncNodePresence(n)
          PROVE  live'.over /\ live'.game = live.game
      BY <2>1, <3>1, <3>5, SyncedOK DEF SyncNodePresence
    <3>6. ASSUME NEW N \in SUBSET Nodes, EvictStaleNodes(N)
          PROVE  live'.over /\ live'.game = live.game
      BY <2>1, <3>1, <3>6, ForgottenOK DEF EvictStaleNodes
    <3>7. CASE AbandonTimerFires
      BY <2>1, <3>7 DEF AbandonTimerFires, LiveOK, MatchOK, LiveMatch
    <3>8. CASE \/ \E t \in Tokens : EnterRoom(t)
               \/ \E t \in Tokens, s \in Seats : ClaimRoomSeat(t, s)
               \/ \E t \in Tokens : StartMatch(t)
               \/ \E t \in Tokens : SocketLeaves(t)
               \/ \E t \in Tokens : DisconnectLost(t)
      BY <2>2, <3>8
         DEF EnterRoom, ClaimRoomSeat, StartMatch, SocketLeaves, DisconnectLost
    <3> QED
      BY <2>4, <3>2, <3>3, <3>4, <3>5, <3>6, <3>7, <3>8 DEF CommandStep
  <2>5. CASE DiskStep
    BY <2>2, <2>5 DEF DiskStep, SaveLands, SaveFails
  <2>6. CASE FailoverStep
    BY <2>6 DEF FailoverStep, Evict, Crash, Adopt
  <2> QED BY <2>3, <2>4, <2>5, <2>6 DEF Next
<1>2. IInv /\ [Next]_vars => [Stays]_vars
  BY <1>1
<1> QED BY Inductive, <1>2, PTL DEF Spec, OverIsFinal
=============================================================================
