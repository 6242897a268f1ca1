----------------------------- MODULE TrickPlay -----------------------------
(***************************************************************************)
(* The play of a hand (core/engine): the moves a seat is offered in        *)
(* TRUMP_SELECTION and PLAYING (legal-moves.ts), what each does to the     *)
(* position (apply-move.ts), who takes a trick (trick.ts) and how a hand   *)
(* is dealt (state.ts, deck.ts).  Operators on a position g, the record    *)
(* GameState is; the bidding is in Bidding.                                *)
(***************************************************************************)
EXTENDS RulesLanguage

NoBid == -2   \* bid null, before a seat has acted
Pass  == -1
-----------------------------------------------------------------------------
(* Moves: a move is the sequence of the actions it fuses.                  *)

Select(s) == <<"SELECT_TRUMP", s>>
Reveal    == <<"REVEAL_TRUMP">>
Play(c)   == <<"PLAY_CARD", c>>

InSuit(cards, suits) == {c \in cards : Suit(c) \in suits}

\* generateTrumpSelectionMoves: the declarer names a suit, once.
TrumpMoves(r, g) ==
  IF /\ r.trump.mode \in {"hidden", "bid-selected", "chooser"}
     /\ g.declarer = {g.turn} /\ g.trump = {}
  THEN {<<Select(s)>> : s \in Suits(r)} ELSE {}

\* Mutant of LeadOptions: a seat with nothing but locked suits is not let off.
LeadOptionsStrict(r, hand, broken) ==
  {c \in hand : Suit(c) \notin r.lockedLeadSuits \ broken}

\* leadOptions: a locked suit waits until broken, if the seat has another.
LeadOptions(r, hand, broken) ==
  LET free == {c \in hand : Suit(c) \notin r.lockedLeadSuits \ broken}
  IN  IF free # {} THEN free ELSE hand

\* followSuitOptions: the suit led, else a trump where one is owed.
FollowOptions(r, hand, lead, trump, forced) ==
  IF r.mustFollowSuit /\ InSuit(hand, lead) # {} THEN InSuit(hand, lead)
  ELSE IF (r.mustTrumpIfVoid \/ forced) /\ InSuit(hand, trump) # {}
       THEN InSuit(hand, trump) ELSE hand

Options(r, g, trump, forced) ==
  IF g.lead = {} THEN LeadOptions(r, g.hands[g.turn], g.broken)
  ELSE FollowOptions(r, g.hands[g.turn], g.lead, trump, forced)

VisibleTrump(g) == IF g.revealed THEN g.trump ELSE {}

\* Mutant of OwesTrump: the other flag of the rules is asked.
OwesTrumpIfVoid(r, g) == g.pendingTrumpReveal /\ r.mustTrumpIfVoid

\* forceMustTrump: the seat has just turned trump up and owes one.
OwesTrump(r, g) == g.pendingTrumpReveal /\ r.mustTrumpAfterOwnReveal

\* conditionHolds
Holds(g, condition) ==
  CASE condition = "hand-is-void-in-lead-suit" ->
         g.lead # {} /\ InSuit(g.hands[g.turn], g.lead) = {}
    [] condition = "player-is-declarer" -> g.declarer = {g.turn}
    [] condition = "trump-not-yet-revealed" -> TRUE

Fires(r, g, c) ==
  /\ c.triggerPhase = g.phase
  /\ "REVEAL_TRUMP" \in Range(c.actions)
  /\ \A k \in c.conditions : Holds(g, k)

\* A compound action offers the reveal by itself, or fused with each card the
\* seat could play once trump shows.
CompoundMoves(r, g, c) ==
  IF c.atomic THEN {<<Reveal, Play(x)>> : x \in Options(r, g, g.trump, FALSE)}
  ELSE {<<Reveal>>}

MayReveal(r, g) ==
  g.trick # << >> /\ ~g.revealed /\ ~OwesTrump(r, g) /\ g.trump # {}

\* generatePlayingMoves
PlayingMoves(r, g) ==
  {<<Play(c)>> : c \in Options(r, g, VisibleTrump(g), OwesTrump(r, g))}
    \cup IF MayReveal(r, g)
         THEN UNION {CompoundMoves(r, g, c) : c \in {x \in r.compoundActions : Fires(r, g, x)}}
         ELSE {}

\* generateLegalMoves, for the phases played here
LegalMoves(r, g) ==
  CASE g.phase = "TRUMP_SELECTION" -> TrumpMoves(r, g)
    [] g.phase = "PLAYING" -> PlayingMoves(r, g)
    [] OTHER -> {}
-----------------------------------------------------------------------------
(* Who takes a trick.                                                      *)

Strength(r, c) == CHOOSE i \in DOMAIN r.rankOrder : r.rankOrder[i] = Rank(c)

\* Mutant of TrickValue: the suit led is not looked at.
TrickValueAnySuit(r, c, lead, trump) ==
  IF Suit(c) \in trump THEN 1000 + Strength(r, c) ELSE Strength(r, c)

\* trickValue
TrickValue(r, c, lead, trump) ==
  IF Suit(c) \in trump THEN 1000 + Strength(r, c)
  ELSE IF Suit(c) \in lead THEN Strength(r, c) ELSE -1

\* resolveTrick: the first card of the highest value takes it.
TrickWinner(r, trick, lead, trump) ==
  LET v(i) == TrickValue(r, trick[i][2], lead, trump)
      best == CHOOSE i \in DOMAIN trick :
                \A j \in DOMAIN trick : v(j) < v(i) \/ (v(j) = v(i) /\ i <= j)
  IN  trick[best][1]

CardsOf(trick) == {trick[i][2] : i \in DOMAIN trick}

\* nextPhase
PhaseAfter(r, phase) == OrElse(r.next[phase], phase)

\* The trick is complete: its winner leads, and the last one ends the hand.
\* The trump in sight is kept with the trick, for the properties.
TakeTrick(r, n, g) ==
  LET winner == TrickWinner(r, g.trick, g.lead, VisibleTrump(g))
      trick  == [cards |-> g.trick, winner |-> winner, lead |-> g.lead,
                 trump |-> VisibleTrump(g)]
  IN  [g EXCEPT !.trick = << >>, !.lead = {}, !.turn = winner,
                !.won[winner] = @ + 1,
                !.points[TeamOf(r, n, winner)] = @ + PointsOf(r, CardsOf(g.trick)),
                !.completedTricks = Append(@, trick),
                !.phase = IF \A s \in Seats(n) : g.hands[s] = {}
                          THEN PhaseAfter(r, @) ELSE @]

SeatAfter(n, s) == (s + 1) % n

\* A locked suit is broken the first time it hits the table.
Broken(r, g, card) == g.broken \cup ({Suit(card)} \cap r.lockedLeadSuits)

\* applyPlayCard
PlayCard(r, n, g, card) ==
  LET leads  == g.trick = << >>
      fixes  == r.trump.mode = "declared-by-lead" /\ leads /\ g.trump = {}
      played == [g EXCEPT !.hands[g.turn] = @ \ {card},
                          !.trick = Append(@, <<g.turn, card>>),
                          !.lead = IF leads THEN {Suit(card)} ELSE @,
                          !.pendingTrumpReveal = FALSE,
                          !.trump = IF fixes THEN {Suit(card)} ELSE @,
                          !.revealed = @ \/ fixes,
                          !.broken = Broken(r, g, card)]
  IN  IF Len(played.trick) < n THEN [played EXCEPT !.turn = SeatAfter(n, @)]
      ELSE TakeTrick(r, n, played)

\* applyAction
ApplyAction(r, n, g, action) ==
  CASE action[1] = "SELECT_TRUMP" ->
         [g EXCEPT !.trump = {action[2]}, !.revealed = r.trump.mode # "hidden",
                   !.phase = PhaseAfter(r, @), !.turn = SeatAfter(n, g.dealer)]
    [] action[1] = "REVEAL_TRUMP" ->
         [g EXCEPT !.revealed = TRUE, !.pendingTrumpReveal = TRUE]
    [] action[1] = "PLAY_CARD" -> PlayCard(r, n, g, action[2])

\* applyLegalMove: a move fuses two actions at most, a reveal and a card.
ApplyMove(r, n, g, move) ==
  LET h == ApplyAction(r, n, g, move[1])
  IN  IF Len(move) = 1 THEN h ELSE ApplyAction(r, n, h, move[2])
-----------------------------------------------------------------------------
(* The deal.                                                               *)

Least(a, b) == IF a < b THEN a ELSE b

\* slice: a cut between two cards, or at the end of the deck.
Cut(r, x) == Least(TotalCards(r), x \div Unit(r))

\* deal: the seats take their cards off the deck in turn, then the kitty; cards
\* short of the numbers asked for are short, cards over stay in the box, and a
\* hand that is no whole number of cards gets what lies between two cuts.
Dealt(r, n, number, s) ==
  LET size  == IF s < n THEN HandSize(r, n, number) ELSE KittySize(r, n, number)
      first == s * HandSize(r, n, number)
  IN  Cut(r, first + size) - Cut(r, first)

Boxed(r, n, number) ==
  TotalCards(r) - SumFunction([s \in 0..n |-> Dealt(r, n, number, s)])

\* The deals the shuffle can produce: who gets which cards, which card of the
\* kitty lies on top, and which cards of a staged hand are out first.
Deals(r, n, number) ==
  LET cards(p, s) == {c \in Deck(r) : p[c] = s}
      place == {p \in [Deck(r) -> 0..(IF Boxed(r, n, number) = 0 THEN n ELSE n + 1)] :
                  \A s \in 0..n : Cardinality(cards(p, s)) = Dealt(r, n, number, s)}
      held(p, s) == Cardinality(cards(p, s))
      size(p, s) == Least(held(p, s), OrElse(StagedSize(r, "BIDDING"), held(p, s)))
      fronts(p) ==
        {f \in [Seats(n) -> UNION {kSubset(size(p, s), cards(p, s)) : s \in Seats(n)}] :
           \A s \in Seats(n) :
             f[s] \subseteq cards(p, s) /\ Cardinality(f[s]) = size(p, s)}
      tops(p) == IF r.trump.mode = "kitty-turnup" THEN kSubset(1, cards(p, n)) ELSE {{}}
  IN  UNION {{[hands |-> [s \in Seats(n) |-> cards(p, s)], front |-> f,
               kitty |-> cards(p, n), top |-> t] : f \in fronts(p), t \in tops(p)}
             : p \in place}

\* initialTrump
InitialTrump(r, d) ==
  CASE r.trump.mode = "static" -> r.trump.suit
    [] r.trump.mode = "kitty-turnup" -> {Suit(c) : c \in d.top}
    [] OTHER -> {}

\* chooserSeat
Chooser(r, n, dealer) ==
  IF r.trump.mode = "chooser"
  THEN {(dealer + k) % n : k \in r.trump.chooserOffset} ELSE {}

\* fixedQuotasByDealerOffset: none for a seat beyond the list.
Quota(r, n, dealer, s) ==
  LET i == ((s - dealer + n) % n) + 1
  IN  OrElse({q[i] : q \in {x \in r.quotas : i <= Len(x)}}, NoBid)

FirstPhase(r) == IF r.first = "DEALING" THEN PhaseAfter(r, r.first) ELSE r.first

\* dealHand: the scores and the bags are the only things carried over, and with
\* the scores the competitors that were ever paid a fraction of a point.
DealHand(r, n, dealer, number, d, scores, bags, rough) ==
  [number |-> number, phase |-> FirstPhase(r), dealer |-> dealer,
   turn |-> OrElse(Chooser(r, n, dealer), SeatAfter(n, dealer)),
   declarer |-> Chooser(r, n, dealer),
   trump |-> InitialTrump(r, d),
   revealed |-> r.trump.mode \in {"static", "none", "kitty-turnup"},
   pendingTrumpReveal |-> FALSE,
   hands |-> d.hands, front |-> d.front, kitty |-> d.kitty,
   trick |-> << >>, lead |-> {}, completedTricks |-> << >>, broken |-> {},
   won |-> [s \in Seats(n) |-> 0], points |-> [t \in Teams(r, n) |-> 0],
   bid |-> [s \in Seats(n) |-> Quota(r, n, dealer, s)],
   scores |-> scores, bags |-> bags, rough |-> rough, lastResult |-> {}]

=============================================================================
