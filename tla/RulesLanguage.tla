--------------------------- MODULE RulesLanguage ---------------------------
(***************************************************************************)
(* The rules.json language (shared/rules-schema.ts): what a set of rules   *)
(* says, which sets validateRulesDsl accepts, and the questions the engine *)
(* asks of one (resolveDeal, handLimit, scoringFormula and the rest).      *)
(*                                                                         *)
(* A card is <<suit, rank>>.  An optional field is a set of at most one    *)
(* element, empty when the document leaves it out.  A phase carries the    *)
(* name of its kind.  That a field has its JSON type is WellTyped, which    *)
(* every record built here is taken to be.  Numbers are integers but for a *)
(* fixed deal's, in fractions of a card, and the worth of an overtrick, in *)
(* tenths of a point; a bidding that names no trump is for trick quotas.   *)
(***************************************************************************)
EXTENDS Integers, SequencesExt

Seats(n) == 0..(n - 1)
Suit(c)  == c[1]
Rank(c)  == c[2]

\* MAX_HANDS_CEILING
HandsCeiling == 50

\* The one element of an optional field, or what stands in for it.
OrElse(opt, default) == IF opt = {} THEN default ELSE CHOOSE x \in opt : TRUE
-----------------------------------------------------------------------------
(* The deck and the deal.                                                  *)

Suits(r) == Range(r.suits)

Grid(r) == Suits(r) \X Range(r.ranks)

\* Nothing is listed twice.  buildDeck makes a card for every listing, so that
\* a deck is a set of cards, and Deck it, under this condition only.
OneOfEach(r) == IsInjective(r.suits) /\ IsInjective(r.ranks)

\* buildDeck
Deck(r) == Grid(r) \ r.excluded

\* What a deck is counted as, listings and all.
TotalCards(r) == Len(r.suits) * Len(r.ranks) - Cardinality(r.excluded)

Worth(table, x) == IF x \in DOMAIN table THEN table[x] ELSE 0

\* cardPointValue: a card's own value overrides those of its rank and suit.
CardPointValue(r, c) ==
  IF c \in DOMAIN r.cardPoints THEN r.cardPoints[c]
  ELSE Worth(r.rankPoints, Rank(c)) + Worth(r.suitPoints, Suit(c))

PointsOf(r, cards) == SumFunction([c \in cards |-> CardPointValue(r, c)])

\* supportedPlayerCounts
TableSizes(r) == r.min..r.max

\* The fraction of a card that the numbers of a deal are given in.
Unit(r) == IF r.deal.mode = "fixed" THEN r.deal.unit ELSE 1

\* resolveDeal: a schedule wraps round for a match that outruns it.
HandSize(r, n, number) ==
  CASE r.deal.mode = "fixed" -> r.deal.handSize
    [] r.deal.mode = "schedule" ->
         r.deal.handSizes[((number - 1) % Len(r.deal.handSizes)) + 1]
    [] OTHER -> TotalCards(r) \div n

KittySize(r, n, number) ==
  IF r.deal.mode = "fixed" THEN r.deal.kittySize
  ELSE TotalCards(r) - HandSize(r, n, number) * n

\* visibleHandCount: how much of a hand is out before trump is fixed.
StagedSize(r, phase) ==
  IF r.deal.mode = "fixed" /\ phase \in {"DEALING", "BIDDING", "TRUMP_SELECTION"}
  THEN {k \div Unit(r) : k \in r.deal.biddingHandSize} ELSE {}

\* teamKeyForSeat and allTeamKeys: the competitors are the sets of seats that
\* score together.
Teams(r, n) == IF r.pairs THEN Range(r.teams[n]) ELSE {{s} : s \in Seats(n)}
TeamOf(r, n, s) == CHOOSE t \in Teams(r, n) : s \in t
-----------------------------------------------------------------------------
(* Scoring and length.                                                     *)

\* scoringFormula: the default of each basis.
ScoringFormula(r) ==
  IF r.formula # {} THEN r.formula
  ELSE CASE r.basis = "tricks" ->
              {[kind |-> "bid-plus-overtrick-fraction", overtrickValue |-> {}]}
         [] r.basis = "points" ->
              {[kind |-> "declarer-contract", stake |-> {}, mirror |-> TRUE]}
         [] OTHER -> {}

\* formulaHasContract
ContractKinds == {"bid-plus-overtrick-fraction", "bid-multiplier", "exact-bid",
                  "bid-difference", "declarer-contract"}

HasContract(formula) == \E f \in formula : f.kind \in ContractKinds

\* handLimit: the host's choice, the plugin's, the ceiling, or a single hand.
HandLimit(r, override) ==
  OrElse(override,
    OrElse(r.maxHands, IF r.target # {} THEN HandsCeiling ELSE 1))

\* validateHandLimit
ValidHandLimit(override) == override \subseteq 1..HandsCeiling
-----------------------------------------------------------------------------
(* The JSON types of a rules.json.                                         *)

AtMostOne(opt) == \A x, y \in opt : x = y

\* Ranks has thirteen members.
MaxRanks == 13

FormulaKinds ==
  ContractKinds \cup {"threshold-win", "capture", "penalty-points"}

FormulaTyped(f) ==
  /\ f.kind \in FormulaKinds
  /\ f.kind = "bid-plus-overtrick-fraction" =>
       f.overtrickValue \subseteq Int /\ AtMostOne(f.overtrickValue)
  /\ f.kind = "bid-multiplier" =>
       {f.madeMultiplier, f.overtrickValue, f.missMultiplier} \subseteq Int
  /\ f.kind = "exact-bid" => {f.base, f.perTrick, f.missPerTrick} \subseteq Int
  /\ f.kind = "threshold-win" => {f.threshold, f.value} \subseteq Int
  /\ f.kind = "capture" => f.threshold \in Int
  /\ f.kind = "declarer-contract" =>
       f.stake \subseteq Int /\ AtMostOne(f.stake) /\ f.mirror \in BOOLEAN

DealTyped(deal) ==
  /\ deal.mode = "fixed" =>
       /\ deal.unit \in Nat \ {0}
       /\ {deal.handSize, deal.kittySize} \subseteq Int
       /\ deal.biddingHandSize \subseteq Int /\ AtMostOne(deal.biddingHandSize)
  /\ deal.mode = "schedule" => deal.handSizes \in Seq(Int)

WellTyped(r) ==
  /\ r.min \in Int /\ r.max \in Int
  /\ r.suits \in Seq(Range(r.suits)) /\ r.ranks \in Seq(Range(r.ranks))
  /\ r.rankOrder \in Seq(Range(r.rankOrder))
  /\ IsInjective(r.rankOrder) => Len(r.rankOrder) <= MaxRanks
  /\ \A c \in Grid(r) : CardPointValue(r, c) \in Int
  /\ DealTyped(r.deal)
  /\ r.trump.chooserOffset \subseteq Int /\ AtMostOne(r.trump.chooserOffset)
  /\ AtMostOne(r.bidding) /\ \A b \in r.bidding : {b.minBid, b.maxBid} \subseteq Int
  /\ AtMostOne(r.formula) /\ \A f \in r.formula : FormulaTyped(f)
  /\ r.target \subseteq Int /\ AtMostOne(r.target)
  /\ r.maxHands \subseteq Int /\ AtMostOne(r.maxHands)
  /\ AtMostOne(r.bags) /\ \A b \in r.bags : {b.per, b.penalty} \subseteq Int
  /\ AtMostOne(r.nil) /\ \A m \in r.nil : {m.bid, m.bonus, m.penalty} \subseteq Int
  /\ AtMostOne(r.moonShot)
  /\ AtMostOne(r.quotas) /\ r.quotas \subseteq Seq(Nat)
-----------------------------------------------------------------------------
(* validateRulesDsl, section by section.                                   *)

ValidPlayers(r) ==
  /\ r.min >= 2 /\ r.max >= r.min
  /\ r.pairs => \A n \in TableSizes(r) :
       /\ Len(r.teams[n]) >= 2
       /\ UNION Range(r.teams[n]) = Seats(n)
       /\ \A i, j \in DOMAIN r.teams[n] : i # j => r.teams[n][i] \cap r.teams[n][j] = {}

\* Mutant of ValidDeal: the cards of the deal are not counted.
ValidDealUncounted(r) ==
  CASE r.deal.mode = "schedule" -> Len(r.deal.handSizes) > 0
    [] r.deal.mode = "fixed" -> r.min = r.max
    [] OTHER -> TRUE

\* The cards suffice: the largest hand of a schedule at the largest table, a
\* fixed deal to the last card, an even split for one card each.
ValidDeal(r) ==
  CASE r.deal.mode = "schedule" ->
         /\ Len(r.deal.handSizes) > 0
         /\ \A k \in Range(r.deal.handSizes) : k >= 1 /\ k * r.max <= TotalCards(r)
    [] r.deal.mode = "fixed" ->
         /\ r.min = r.max
         /\ r.deal.handSize > 0 /\ r.deal.kittySize >= 0
         /\ \A k \in r.deal.biddingHandSize : 0 < k /\ k < r.deal.handSize
         /\ r.deal.unit * TotalCards(r) = r.deal.handSize * r.min + r.deal.kittySize
    [] OTHER -> \A n \in TableSizes(r) : TotalCards(r) \div n >= 1

ValidDeck(r) ==
  /\ r.suits # << >> /\ r.ranks # << >>
  /\ Len(r.rankOrder) = Len(r.ranks)
  /\ IsInjective(r.rankOrder) /\ Range(r.ranks) \subseteq Range(r.rankOrder)
  /\ r.excluded \subseteq Grid(r)
  /\ ValidDeal(r)

ValidTrump(r) ==
  /\ r.trump.mode = "static" => r.trump.suit # {}
  /\ r.trump.mode = "chooser" =>
       \E k \in r.trump.chooserOffset : k \in 0..(r.min - 1)
  /\ r.trump.mode = "kitty-turnup" /\ r.deal.mode = "fixed" => r.deal.kittySize > 0

ValidBidding(r) ==
  /\ \A b \in r.bidding :
       /\ b.minBid <= b.maxBid
       /\ b.mustBid => b.auction
       /\ b.forbidExactTotal => ~b.auction
  /\ r.trump.mode = "bid-selected" => \E b \in r.bidding : b.namesTrump
  /\ r.trump.mode = "none" => \A b \in r.bidding : ~b.namesTrump

\* Every phase leads to one that exists, and one of them ends the hand.
ValidPhases(r) ==
  /\ DOMAIN r.next # {}
  /\ \A p \in DOMAIN r.next : r.next[p] \subseteq DOMAIN r.next
  /\ \E p \in DOMAIN r.next : r.next[p] = {}

ValidTrickRules(r) == r.lockedLeadSuits \subseteq Suits(r)

ProducesBids(r) == r.bidding # {} \/ r.quotas # {}

ValidScoring(r) ==
  /\ r.maxHands \subseteq 1..HandsCeiling
  /\ \A f \in r.formula :
       /\ f.kind \in ContractKinds \ {"declarer-contract"} => ProducesBids(r)
       /\ r.bags # {} => f.kind = "bid-multiplier"
       /\ r.moonShot # {} => f.kind = "penalty-points"
  /\ r.formula = {} => r.bags = {} /\ r.moonShot = {}
  /\ \A b \in r.bags : b.per >= 1
  /\ \A m \in r.nil : \A b \in r.bidding : m.bid >= b.minBid
  /\ \A q \in r.quotas : Len(q) = r.min /\ r.bidding = {}

\* A compound action names a phase, fuses two actions or more and says when.
ValidCompounds(r) ==
  \A c \in r.compoundActions :
    c.triggerPhase \in DOMAIN r.next /\ Len(c.actions) >= 2 /\ c.conditions # {}

ValidRules(r) ==
  /\ ValidPlayers(r) /\ ValidDeck(r) /\ ValidTrump(r) /\ ValidBidding(r)
  /\ ValidPhases(r) /\ ValidTrickRules(r) /\ ValidScoring(r) /\ ValidCompounds(r)

=============================================================================
