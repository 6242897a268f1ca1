----------------------------- MODULE FogOfWar -----------------------------
(***************************************************************************)
(* What leaves the process (core/obfuscation/fog-of-war.ts): the masked    *)
(* projection of a position for one viewer, a seat or a spectator.  It is  *)
(* the only form in which a client or the AI prompt ever sees a position.  *)
(***************************************************************************)
EXTENDS Scoring

Spectator == -1

\* maskPlayer: one's own cards, the concealed half of a staged hand apart.
Shown(r, g, s) ==
  IF StagedSize(r, g.phase) = {} THEN g.hands[s] ELSE g.hands[s] \cap g.front[s]

\* Mutant of MaskedHand: the staged half is shown to its owner.
MaskedHandWhole(r, g, s, v) ==
  [cards |-> IF s = v THEN g.hands[s] ELSE {}, count |-> Cardinality(Shown(r, g, s))]

MaskedHand(r, g, s, v) ==
  [cards |-> IF s = v THEN Shown(r, g, s) ELSE {}, count |-> Cardinality(Shown(r, g, s))]

\* A concealed trump is named to its declarer only.
MaskedTrump(g, v) ==
  IF g.trump = {} \/ g.revealed \/ g.declarer = {v} THEN g.trump ELSE {"hidden"}

\* Of the hand, or of the match once that is over.
ViewerWon(r, n, g, v) ==
  IF v = Spectator THEN {}
  ELSE {(TeamOf(r, n, v) \in IF x.endReason = {} THEN x.roundWinners ELSE x.winners) :
          x \in g.lastResult}

\* maskGameState
View(r, n, g, v) ==
  [phase |-> g.phase, dealer |-> g.dealer, turn |-> g.turn, declarer |-> g.declarer,
   trump |-> MaskedTrump(g, v), revealed |-> g.revealed,
   players |-> [s \in Seats(n) |-> MaskedHand(r, g, s, v)],
   won |-> g.won, bid |-> g.bid,
   trick |-> g.trick, lead |-> g.lead, completedTricks |-> g.completedTricks,
   kittyCount |-> Cardinality(g.kitty),
   scores |-> g.scores, points |-> g.points, bags |-> g.bags,
   number |-> g.number,
   legalMoves |-> IF v = g.turn THEN LegalMoves(r, g) ELSE {},
   lastResult |-> g.lastResult, viewerWon |-> ViewerWon(r, n, g, v)]
-----------------------------------------------------------------------------
(* What a viewer is not told: the cards it does not hold or see, and a     *)
(* trump that is not revealed to it.                                       *)

Hidden(r, g, n, v) ==
  (g.kitty \cup UNION {g.hands[s] : s \in Seats(n)})
    \ (IF v = Spectator THEN {} ELSE Shown(r, g, v))

\* The position with two cards of the same deck changing places.
Swapped(g, n, c, d) ==
  LET swap(cards) == {IF x = c THEN d ELSE IF x = d THEN c ELSE x : x \in cards}
  IN  [g EXCEPT !.hands = [s \in Seats(n) |-> swap(g.hands[s])],
                !.front = [s \in Seats(n) |-> swap(g.front[s])],
                !.kitty = swap(@)]

\* The positions that differ from g in one thing the viewer is not told.  Any
\* other position it cannot tell from g is reached by several such steps.
LikePositions(r, n, g, v) ==
  {Swapped(g, n, c, d) : c \in Hidden(r, g, n, v), d \in Hidden(r, g, n, v)}
    \cup IF MaskedTrump(g, v) = g.trump THEN {}
         ELSE {[g EXCEPT !.trump = {s}] : s \in Suits(r)}

=============================================================================
