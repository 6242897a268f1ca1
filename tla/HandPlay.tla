----------------------------- MODULE HandPlay -----------------------------
(***************************************************************************)
(* A match of several hands as the engine plays it: deal, what the bidding *)
(* leaves behind (its course is module Bidding), trump selection, trick    *)
(* play, scoring, the next deal.  Every legal move is open to the seat on  *)
(* turn, every shuffle to the deal.                                        *)
(*                                                                         *)
(* The rules are drawn from Candidates, sets of rules an author might      *)
(* import, of which only those validateRulesDsl accepts are played.        *)
(***************************************************************************)
EXTENDS FogOfWar

CONSTANTS
  Candidates,  \* the rules offered to the validator
  Lengths      \* match lengths a host may choose; {} leaves it to the rules

ASSUME RulesAssumption ==
  /\ \A r \in Candidates : WellTyped(r)
  /\ \A x \in Lengths : AtMostOne(x)

VARIABLES
  rules,
  n,           \* seats at the table
  override,    \* maxHandsOverride
  g            \* the position, GameState

vars == <<rules, n, override, g>>

NamesTrump(r) == \E b \in r.bidding : b.namesTrump

\* What follows the bidding, or the deal where there is none.
AfterBidding(r) ==
  IF "TRUMP_SELECTION" \in DOMAIN r.next THEN "TRUMP_SELECTION" ELSE "PLAYING"

\* What validateRulesDsl does not ask and these modules do: a deck without
\* duplicates, whose copies would leave a hand together (applyPlayCard), and a
\* bidding of the kinds that module Bidding plays, with bids not below zero,
\* where the passes are.
Modelled(r) ==
  /\ OneOfEach(r)
  /\ \A b \in r.bidding :
       /\ b.minBid >= 0
       /\ b.auction => b.namesTrump
       /\ b.namesTrump => b.pass

\* What validateRulesDsl leaves to the author and play needs: the hands are
\* whole numbers of cards; a hand is bid, where there is a bidding, its trump
\* named, where there is a phase for it and somebody to do so, then played and
\* scored; a turned-up trump has a card to turn up; no card is worth less than
\* nothing; the target is above the zero that a match starts from; and a
\* declarer's contract has a declarer, who cannot lose by keeping it.
Playable(r) ==
  /\ Unit(r) = 1
  /\ FirstPhase(r) = IF r.bidding # {} THEN "BIDDING" ELSE AfterBidding(r)
  /\ r.bidding # {} => r.next["BIDDING"] = {AfterBidding(r)}
  /\ "TRUMP_SELECTION" \in DOMAIN r.next =>
       /\ r.next["TRUMP_SELECTION"] = {"PLAYING"}
       /\ r.trump.mode \in {"hidden", "bid-selected", "chooser"}
       /\ IF r.bidding = {} THEN r.trump.mode = "chooser" ELSE NamesTrump(r)
  /\ r.next["PLAYING"] = {"SCORING"}
  /\ r.trump.mode = "kitty-turnup" =>
       \A k \in TableSizes(r), i \in 1..2 : KittySize(r, k, i) > 0
  /\ \A c \in Deck(r) : CardPointValue(r, c) >= 0
  /\ \A p \in r.target : p > 0
  /\ \A f \in ScoringFormula(r) : f.kind = "declarer-contract" =>
       NamesTrump(r) /\ \A x \in f.stake : x >= 0

\* The rules a match can be opened with, and those of them that play out.
Accepted == {r \in Candidates : ValidRules(r) /\ Modelled(r)}
RuleSets == {r \in Accepted : Playable(r)}

\* createMatch
Opened ==
  /\ n \in TableSizes(rules)
  /\ override \in {x \in Lengths : ValidHandLimit(x)}
  /\ \E d \in Deals(rules, n, 1) :
       LET zero == [t \in Teams(rules, n) |-> 0]
       IN  g = DealHand(rules, n, 0, 1, d, zero, zero, {})

Init == rules \in RuleSets /\ Opened

\* An auction ends when all seats but one have passed: at its number, or, where
\* nobody has to bid, at the dealer, who acts last and has not acted.
AuctionEnds(b) ==
  {[s \in Seats(n) |-> IF s = d THEN v ELSE Pass] : d \in Seats(n), v \in b.minBid..b.maxBid}
    \cup IF b.mustBid THEN {}
         ELSE {[s \in Seats(n) |-> IF s = g.dealer THEN NoBid ELSE Pass]}

\* When a seat acts in a single round: the dealer last.
Place(s) == IF s > g.dealer THEN s - g.dealer ELSE s - g.dealer + n

\* A single round for the trump: every number beats the ones before it.
RoundEnds(b) ==
  {q \in [Seats(n) -> (b.minBid..b.maxBid) \cup {Pass}] :
     \A s, u \in Seats(n) : Place(s) < Place(u) /\ q[u] # Pass => q[s] < q[u]}

\* A quota is no more than the cards a seat holds.
QuotasStaked(b) ==
  {q \in [Seats(n) -> (b.minBid..b.maxBid) \cup {x \in {Pass} : b.pass}] :
     \A s \in Seats(n) : q[s] <= Cardinality(g.hands[s])}

\* What the seats may have bid when the bidding is over.
BidsMade ==
  UNION {IF b.auction THEN AuctionEnds(b)
         ELSE IF b.namesTrump THEN RoundEnds(b) ELSE QuotasStaked(b) : b \in rules.bidding}

\* The last seat to bid has a choice: the hook yields to a seat that has none.
HasChoice(b, size) == b.pass \/ (b.minBid < b.maxBid /\ b.minBid < size)

HookAllows(bids) ==
  LET size == Cardinality(g.hands[g.dealer]) IN
  \A b \in rules.bidding :
    b.forbidExactTotal /\ HasChoice(b, size) /\ bids[g.dealer] # Pass =>
      SumFunction([s \in Seats(n) |-> IF bids[s] > 0 THEN bids[s] ELSE 0]) # size

\* The highest bidder, the dealer if nobody bid, and nobody if it is for quotas.
DeclarerOf(bids) ==
  LET bidders == {s \in Seats(n) : bids[s] >= 0} IN
  IF ~NamesTrump(rules) THEN {}
  ELSE IF bidders = {} THEN {g.dealer}
  ELSE {s \in bidders : \A u \in bidders : bids[u] <= bids[s]}

\* transitionOutOfBidding
Bid ==
  /\ g.phase = "BIDDING"
  /\ \E bids \in BidsMade :
       /\ HookAllows(bids)
       /\ LET next == PhaseAfter(rules, g.phase)
              d    == DeclarerOf(bids)
          IN  g' = [g EXCEPT !.bid = bids, !.declarer = d, !.phase = next,
                             !.turn = IF next = "TRUMP_SELECTION" /\ d # {}
                                      THEN OrElse(d, 0) ELSE SeatAfter(n, g.dealer)]
  /\ UNCHANGED <<rules, n, override>>

\* applyMove: whatever generateLegalMoves offers.
Move ==
  /\ \E m \in LegalMoves(rules, g) : g' = ApplyMove(rules, n, g, m)
  /\ UNCHANGED <<rules, n, override>>

Score ==
  /\ g.phase = "SCORING" /\ g.lastResult = {}
  /\ \E short \in SUBSET Rough(rules, n, g) :
       g' = ApplyHandScoring(rules, n, g, short, override)
  /\ UNCHANGED <<rules, n, override>>

\* startNextHand, dealt by the match manager while the match is not over.
StartNextHand ==
  /\ \E x \in g.lastResult : x.endReason = {}
  /\ \E d \in Deals(rules, n, g.number + 1) :
       g' = DealHand(rules, n, SeatAfter(n, g.dealer), g.number + 1, d,
                     g.scores, g.bags, g.rough)
  /\ UNCHANGED <<rules, n, override>>

\* A hand is bid and played until SCORING, scored, and the next one dealt; a
\* draft is tried out the same way, with the first move offered at each turn.
Next == Bid \/ Move \/ Score \/ StartNextHand

Spec == Init /\ [][Next]_vars
-----------------------------------------------------------------------------
(* Properties.                                                             *)

Tricks == DOMAIN g.completedTricks
TrickCards(i) == CardsOf(g.completedTricks[i].cards)
Played == CardsOf(g.trick) \cup UNION {TrickCards(i) : i \in Tricks}

\* The books of a hand balance: the hands, the kitty and the tricks share out
\* the deck, all seats hold as many cards but for the trick on the table, and
\* tricksWon and handPoints are what completedTricks says was taken (apply-move
\* keeps the summaries and the history apart).
LedgerBalances ==
  /\ Played \cup g.kitty \cup UNION Range(g.hands) = Deck(rules)
  /\ Cardinality(Played) + Cardinality(g.kitty)
       + SumFunction([s \in Seats(n) |-> Cardinality(g.hands[s])])
     = Cardinality(Deck(rules))
  /\ \A s \in Seats(n) :
       /\ Cardinality(g.hands[s]) + Cardinality({i \in DOMAIN g.trick : g.trick[i][1] = s})
          = HandSize(rules, n, g.number) - Len(g.completedTricks)
       /\ g.won[s] = Cardinality({i \in Tricks : g.completedTricks[i].winner = s})
  /\ \A t \in Teams(rules, n) :
       g.points[t] = SumFunction([i \in {i \in Tricks : g.completedTricks[i].winner \in t} |->
                                    PointsOf(rules, TrickCards(i))])

\* A hand of accepted rules that meet Playable is never stuck: while trump is to
\* be named or cards are to be played, the seat on turn is offered something, and
\* what it is offered it holds (generateLegalMoves).
SomeMoveUntilScoring ==
  g.phase \in {"TRUMP_SELECTION", "PLAYING"} =>
    /\ LegalMoves(rules, g) # {}
    /\ \A m \in LegalMoves(rules, g) : \A i \in DOMAIN m :
         m[i][1] = "PLAY_CARD" => m[i][2] \in g.hands[g.turn]

PlayedBy(s, trick) == {trick[k][2] : k \in {x \in DOMAIN trick : trick[x][1] = s}}

\* The cards seat s still had when trick i began.
HeldAt(s, i) ==
  g.hands[s] \cup PlayedBy(s, g.trick)
    \cup UNION {PlayedBy(s, g.completedTricks[j].cards) : j \in {x \in Tricks : x >= i}}

Highest(cards, c) == c \in cards /\ \A d \in cards : Strength(rules, d) <= Strength(rules, c)

\* The course of a hand is lawful in hindsight: nobody who discarded still had
\* the suit led, a locked suit was led only after it had been played or by a
\* seat with nothing else, and each trick went to the highest of the trumps in
\* sight, or to the highest card of the suit led; a trump nobody had revealed
\* took nothing (followSuitOptions, leadOptions, resolveTrick).
PlayIsLawful ==
  \A i \in Tricks :
    LET trick  == g.completedTricks[i]
        leader == trick.cards[1][1]
        trumps == InSuit(TrickCards(i), trick.trump)
        locked == trick.lead \cap rules.lockedLeadSuits
        before == UNION {TrickCards(j) : j \in {x \in Tricks : x < i}}
    IN  /\ rules.mustFollowSuit => \A k \in 2..n :
             Suit(trick.cards[k][2]) \in trick.lead
               \/ InSuit(HeldAt(trick.cards[k][1], i), trick.lead) = {}
        /\ locked # {} /\ InSuit(before, locked) = {} =>
             \A c \in HeldAt(leader, i) : Suit(c) \in rules.lockedLeadSuits
        /\ \E k \in 1..n :
             /\ trick.cards[k][1] = trick.winner
             /\ Highest(IF trumps # {} THEN trumps ELSE InSuit(TrickCards(i), trick.lead),
                        trick.cards[k][2])

\* A view tells nobody what it must not: for every viewer, a position that
\* differs only in cards it does not see, or in a trump not revealed to it,
\* looks the same, its list of legal moves included (maskGameState).
FogHidesTheRest ==
  \A v \in Seats(n) \cup {Spectator} :
    \A h \in LikePositions(rules, n, g, v) :
      View(rules, n, h, v) = View(rules, n, g, v)

\* What FogHidesTheRest asks of an author and the validator does not: a reveal
\* that is fused with the trump it makes its seat owe lists the cards of the
\* hidden suit, so it is for the declarer, who knows it (generateCompoundMoves).
FusedForDeclarer(r) ==
  \A c \in r.compoundActions :
    c.atomic /\ r.mustTrumpIfVoid => "player-is-declarer" \in c.conditions

NobodyPassed == \A s \in Seats(n) : g.bid[s] # Pass

\* Scoring neither loses nor invents points: a mirrored contract between two
\* sides is zero-sum, whoever declares and whether or not anybody bid, and one
\* that was bid is made by one side, which does not lose by it; quotas are
\* measured against all the tricks, penalties are paid out once, or once per
\* opponent of a seat that shot the moon, the hook leaves somebody's contract
\* missed unless the last seat had no choice, a seat passed or a nil stands
\* outside the contracts, and no side is left with a whole lump of bags
\* (handDeltas, computeScores, applyExactTotalHook).
ScoresAddUp ==
  \A x \in g.lastResult : \A f \in ScoringFormula(rules) :
    LET sum  == SumFunction(x.delta)
        all  == Captured(rules, n, g)
        size == HandSize(rules, n, g.number)
    IN  /\ f.kind = "declarer-contract" /\ Cardinality(Teams(rules, n)) = 2 =>
             /\ f.mirror => sum = 0
             /\ g.bid[OrElse(g.declarer, 0)] >= 0 =>
                  /\ \E t \in Teams(rules, n) : x.contract[t] = {TRUE}
                  /\ \E t \in Teams(rules, n) : x.contract[t] = {FALSE}
                  /\ \A t \in Teams(rules, n) : x.contract[t] = {TRUE} => x.delta[t] >= 0
        /\ f.kind = "bid-difference" =>
             sum = Points(size - SumFunction([s \in Seats(n) |-> SeatBid(g, s)]))
        /\ f.kind = "penalty-points" =>
             sum \in {Points(all), -Points(all), Points(all * (Cardinality(Teams(rules, n)) - 1))}
        /\ /\ f.kind = "exact-bid" /\ rules.basis # "points" /\ rules.nil = {}
           /\ NobodyPassed
           /\ \E b \in rules.bidding : b.forbidExactTotal /\ ~b.namesTrump /\ HasChoice(b, size)
           => \E t \in Teams(rules, n) : x.contract[t] = {FALSE}
        /\ \A b \in rules.bags : \A t \in Teams(rules, n) : g.bags[t] \in 0..(b.per - 1)

\* A match has the length that was agreed: no hand is dealt past the limit or
\* once a total is past the target, or at it, unless that is a sum of fractions
\* that may lie a rounding error below; and a match that is over has somebody to
\* have won it (matchEndReason, buildResult).
MatchHasItsLength ==
  /\ g.number <= HandLimit(rules, override)
  /\ g.lastResult = {} => \A p \in rules.target : \A t \in Teams(rules, n) :
       g.scores[t] < Points(p) \/ (g.scores[t] = Points(p) /\ t \in g.rough)
  /\ \A x \in g.lastResult : x.winners # {}

\* What 29 owes for turning trump up: the card played next, by the same seat,
\* is a trump, unless the seat follows suit or has no trump
\* (mustTrumpAfterOwnReveal).
RevealIsPaid ==
  [][rules.mustTrumpAfterOwnReveal /\ g.pendingTrumpReveal /\ g'.hands # g.hands =>
       LET c == CHOOSE x \in g.hands[g.turn] : x \notin g'.hands[g.turn]
       IN  \/ Suit(c) \in g.trump \cup g.lead
           \/ InSuit(g.hands[g.turn], g.trump) = {}]_vars
=============================================================================
