---------------------------- MODULE MCHandPlay ----------------------------
(* Games in the style of the ones the rules language names, on small decks. *)
EXTENDS HandPlay

None == << >>   \* a table of point values with no entry

\* Three seats, each for itself, two cards each of six; trump is fixed.
Plain ==
  [min |-> 3, max |-> 3, pairs |-> FALSE, teams |-> None,
   suits |-> <<"S", "H">>, ranks |-> <<1, 2, 3>>,
   rankOrder |-> <<1, 2, 3>>, excluded |-> {},
   rankPoints |-> None, suitPoints |-> None, cardPoints |-> None,
   deal |-> [mode |-> "even-split"],
   trump |-> [mode |-> "static", suit |-> {"S"}, chooserOffset |-> {}],
   bidding |-> {},
   first |-> "DEALING",
   next |-> [DEALING |-> {"PLAYING"}, PLAYING |-> {"SCORING"}, SCORING |-> {}],
   mustFollowSuit |-> TRUE, mustTrumpIfVoid |-> FALSE,
   mustTrumpAfterOwnReveal |-> FALSE, lockedLeadSuits |-> {},
   compoundActions |-> {},
   basis |-> "tricks", formula |-> {}, target |-> {}, maxHands |-> {},
   lowerIsBetter |-> FALSE, bags |-> {}, nil |-> {}, moonShot |-> {},
   quotas |-> {}]

WithRanks(r, ranks) == [r EXCEPT !.ranks = ranks, !.rankOrder = ranks]

Quotas(low, high, hook) ==
  {[minBid |-> low, maxBid |-> high, auction |-> FALSE, namesTrump |-> FALSE,
    pass |-> FALSE, mustBid |-> FALSE, forbidExactTotal |-> hook]}
OneRound(low, high) ==
  {[minBid |-> low, maxBid |-> high, auction |-> FALSE, namesTrump |-> TRUE,
    pass |-> TRUE, mustBid |-> FALSE, forbidExactTotal |-> FALSE]}
Auction(low, high, mustBid) ==
  {[minBid |-> low, maxBid |-> high, auction |-> TRUE, namesTrump |-> TRUE,
    pass |-> TRUE, mustBid |-> mustBid, forbidExactTotal |-> FALSE]}

BiddingFirst ==
  [DEALING |-> {"BIDDING"}, BIDDING |-> {"PLAYING"}, PLAYING |-> {"SCORING"},
   SCORING |-> {}]
TrumpFirst ==
  [DEALING |-> {"TRUMP_SELECTION"}, TRUMP_SELECTION |-> {"PLAYING"},
   PLAYING |-> {"SCORING"}, SCORING |-> {}]
AuctionFirst ==
  [DEALING |-> {"BIDDING"}, BIDDING |-> {"TRUMP_SELECTION"},
   TRUMP_SELECTION |-> {"PLAYING"}, PLAYING |-> {"SCORING"}, SCORING |-> {}]

Pairs == [i \in {4} |-> <<{0, 2}, {1, 3}>>]
Partners(r) ==
  [WithRanks(r, <<1, 2>>) EXCEPT !.min = 4, !.max = 4, !.pairs = TRUE, !.teams = Pairs]

Callbreak == [Plain EXCEPT !.bidding = Quotas(1, 2, FALSE), !.next = BiddingFirst]

Hearts ==
  [Plain EXCEPT !.trump = [mode |-> "none", suit |-> {}, chooserOffset |-> {}],
     !.lockedLeadSuits = {"H"}, !.suitPoints = [H |-> 1],
     !.cardPoints = (<<"S", 3>> :> 2), !.basis = "points",
     !.formula = {[kind |-> "penalty-points"]}, !.lowerIsBetter = TRUE,
     !.moonShot = {"others-take-penalty"}, !.target = {4}, !.maxHands = {2}]

\* 29: trump concealed, the reveal a move of its own that obliges to trump.
TwentyNine ==
  [WithRanks(Plain, <<1, 2>>) EXCEPT !.suits = <<"S", "H", "D">>,
     !.trump = [mode |-> "hidden", suit |-> {}, chooserOffset |-> {}],
     !.deal = [mode |-> "fixed", unit |-> 1, handSize |-> 2, kittySize |-> 0,
               biddingHandSize |-> {}],
     !.bidding = Auction(4, 4, TRUE), !.next = AuctionFirst,
     !.rankPoints = (2 :> 3 @@ 1 :> 1), !.basis = "points",
     !.mustTrumpAfterOwnReveal = TRUE,
     !.compoundActions = {[triggerPhase |-> "PLAYING", atomic |-> FALSE,
        actions |-> <<"REVEAL_TRUMP", "PLAY_CARD">>,
        conditions |-> {"hand-is-void-in-lead-suit"}]},
     !.formula = {[kind |-> "declarer-contract", stake |-> {1}, mirror |-> FALSE]}]

\* The same with the reveal and the card fused, open to the declarer only, and
\* the hand dealt in two halves, at a table of two where each may bid once.
Fused ==
  [TwentyNine EXCEPT !.min = 2, !.max = 2,
     !.deal = [mode |-> "fixed", unit |-> 1, handSize |-> 2, kittySize |-> 2,
               biddingHandSize |-> {1}],
     !.bidding = OneRound(1, 2), !.mustTrumpIfVoid = TRUE,
     !.compoundActions = {[triggerPhase |-> "PLAYING", atomic |-> TRUE,
        actions |-> <<"REVEAL_TRUMP", "PLAY_CARD">>,
        conditions |-> {"hand-is-void-in-lead-suit", "player-is-declarer"}]},
     !.formula = {[kind |-> "declarer-contract", stake |-> {}, mirror |-> TRUE]}]

\* A contract that a dealer may be left with who never bid.
Unbid ==
  [Partners(Plain) EXCEPT !.rankOrder = <<1>>, !.ranks = <<1>>,
     !.suits = <<"S", "H", "D", "C">>,
     !.trump = [mode |-> "bid-selected", suit |-> {}, chooserOffset |-> {}],
     !.bidding = Auction(1, 2, FALSE), !.next = AuctionFirst,
     !.formula = {[kind |-> "declarer-contract", stake |-> {}, mirror |-> TRUE]}]

\* An overtrick is worth 1.4, and two and three of them (2.8 + 4.2) not quite 7.
Fractions ==
  [WithRanks(Plain, <<1, 2, 3, 4, 5, 6>>) EXCEPT !.min = 2, !.max = 2, !.suits = <<"S">>,
     !.trump = [mode |-> "none", suit |-> {}, chooserOffset |-> {}],
     !.quotas = {<<0, 0>>}, !.target = {7}, !.maxHands = {3},
     !.formula = {[kind |-> "bid-plus-overtrick-fraction", overtrickValue |-> {14}]}]

OhHell ==
  [WithRanks(Plain, <<1, 2>>) EXCEPT !.min = 2,
     !.trump = [mode |-> "kitty-turnup", suit |-> {}, chooserOffset |-> {}],
     !.deal = [mode |-> "schedule", handSizes |-> <<1>>],
     !.bidding = Quotas(0, 1, TRUE), !.next = BiddingFirst, !.maxHands = {2},
     !.formula = {[kind |-> "exact-bid", base |-> 10, perTrick |-> 1, missPerTrick |-> -1]}]

\* The same where a seat may pass.
OhHellPassed ==
  [OhHell EXCEPT !.bidding = {[b EXCEPT !.pass = TRUE] : b \in OhHell.bidding}]

Spades ==
  [Partners(Plain) EXCEPT !.bidding = Quotas(0, 1, FALSE), !.next = BiddingFirst,
     !.formula = {[kind |-> "bid-multiplier", madeMultiplier |-> 10,
                   overtrickValue |-> 1, missMultiplier |-> -10]},
     !.bags = {[per |-> 2, penalty |-> 10]},
     !.nil = {[bid |-> 0, bonus |-> 5, penalty |-> 5]}, !.target = {30}, !.maxHands = {2}]

CourtPiece ==
  [Plain EXCEPT !.maxHands = {2},
     !.trump = [mode |-> "declared-by-lead", suit |-> {}, chooserOffset |-> {}],
     !.formula = {[kind |-> "threshold-win", threshold |-> 1, value |-> 1]}]

ThreeTwoFive ==
  [Plain EXCEPT !.trump = [mode |-> "chooser", suit |-> {}, chooserOffset |-> {2}],
     !.next = TrumpFirst, !.mustTrumpIfVoid = TRUE, !.quotas = {<<0, 1, 1>>},
     !.formula = {[kind |-> "bid-difference"]}]

Whist ==
  [Plain EXCEPT !.min = 2, !.max = 2, !.excluded = {<<"H", 1>>},
     !.formula = {[kind |-> "capture", threshold |-> 1]}]

\* What an author may get wrong: cards that do not add up, a schedule too long
\* for the table, a quota short, a contract nobody bids.
Wrong ==
  {[TwentyNine EXCEPT !.deal.handSize = 3],
   [OhHell EXCEPT !.deal.handSizes = <<1, 3>>],
   [ThreeTwoFive EXCEPT !.quotas = {<<1, 1>>}],
   [Callbreak EXCEPT !.bidding = {}, !.next = Plain.next,
      !.formula = {[kind |-> "bid-difference"]}]}

\* Three cards for two seats, by halves.
HalfCards ==
  [Plain EXCEPT !.min = 2, !.max = 2, !.suits = <<"S">>,
     !.deal = [mode |-> "fixed", unit |-> 2, handSize |-> 3, kittySize |-> 0,
               biddingHandSize |-> {}]]

\* What the validator lets him: a deal of half cards, a suit or a rank twice.
Unplayable ==
  {HalfCards, [Plain EXCEPT !.suits = <<"S", "H", "S">>],
   [Plain EXCEPT !.ranks = <<1, 2, 2>>]}

Games ==
  {Plain, Callbreak, Hearts, TwentyNine, Fused, Unbid, Fractions, OhHell, OhHellPassed,
   Spades, CourtPiece, ThreeTwoFive, Whist} \cup Wrong \cup Unplayable

HostsChoices == {{}, {1}}

\* All of them are games whose views tell nothing.
ASSUME GamesAssumption == \A r \in RuleSets : FusedForDeclarer(r)

=============================================================================
