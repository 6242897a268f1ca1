------------------------------ MODULE Scoring ------------------------------
(***************************************************************************)
(* What a finished hand is worth (core/engine/scoring.ts): what each       *)
(* competitor captured, the eight payout formulas, the bags, the moon, and *)
(* the result that says who won the hand and whether the match is over.    *)
(*                                                                         *)
(* Scores are counted in tenths of a point, so that every score is an      *)
(* integer: what is shown (round2).  The code adds floating-point numbers, *)
(* and one that fractions were added to may lie a rounding error off; only *)
(* the comparison with the target can tell, so that MatchEndReason is told *)
(* which totals fall short of what they show.                              *)
(***************************************************************************)
EXTENDS TrickPlay

Points(x) == 10 * x
-----------------------------------------------------------------------------
(* tallyCaptured                                                           *)

NilBidders(r, g, t) == {s \in t : g.bid[s] # NoBid /\ \E m \in r.nil : g.bid[s] = m.bid}

Contractors(r, g, t) == {s \in t : g.bid[s] >= 0} \ NilBidders(r, g, t)

\* The side's contract, nil bids apart; none if nobody on it bid.
TeamBid(r, g, t) ==
  IF Contractors(r, g, t) = {} THEN {}
  ELSE {SumFunctionOnSet(g.bid, Contractors(r, g, t))}

Made(r, g, t) ==
  IF r.basis = "points" THEN g.points[t] ELSE SumFunctionOnSet(g.won, t)
-----------------------------------------------------------------------------
(* handDeltas: one operator per formula, for one competitor.               *)

SeatBid(g, s) == IF g.bid[s] = NoBid THEN 0 ELSE g.bid[s]

AbsDiff(a, b) == IF a < b THEN b - a ELSE a - b

\* In tenths of a point; 0.1 unless the rules say otherwise.
OvertrickValue(f) == OrElse(f.overtrickValue, 1)

\* Callbreak: the bid and a fraction per overtrick, or the bid lost.
BidPlusFraction(f, g, t) ==
  SumFunction([s \in t |->
    IF g.won[s] >= SeatBid(g, s)
    THEN Points(SeatBid(g, s)) + (g.won[s] - SeatBid(g, s)) * OvertrickValue(f)
    ELSE -Points(SeatBid(g, s))])

\* Whose totals fractions of a point were ever added to, this hand's included.
Rough(r, n, g) ==
  g.rough \cup
    {t \in Teams(r, n) : \E f \in ScoringFormula(r) :
       /\ f.kind = "bid-plus-overtrick-fraction" /\ OvertrickValue(f) % 10 # 0
       /\ \E s \in t : g.won[s] > SeatBid(g, s)}

\* addNil
NilWorth(r, g, t) ==
  SumFunction([s \in NilBidders(r, g, t) |->
    SumFunction([m \in r.nil |-> IF g.won[s] = 0 THEN m.bonus ELSE -m.penalty])])

\* Spades: a multiple of the side's bid, a trickle per overtrick, and nils.
BidMultiplier(r, f, g, t) ==
  LET contract(b) ==
        IF Made(r, g, t) >= b
        THEN b * f.madeMultiplier + (Made(r, g, t) - b) * f.overtrickValue
        ELSE b * f.missMultiplier
  IN  Points(SumFunction([b \in TeamBid(r, g, t) |-> contract(b)]) + NilWorth(r, g, t))

\* Oh Hell: the bid to the trick.
ExactBid(f, g, t) ==
  SumFunction([s \in t |->
    Points(IF g.won[s] = SeatBid(g, s) THEN f.base + f.perTrick * g.won[s]
           ELSE f.missPerTrick * AbsDiff(g.won[s], SeatBid(g, s)))])

\* 3-2-5: the signed distance from the quota.
BidDifference(g, t) ==
  SumFunction([s \in t |-> Points(g.won[s] - SeatBid(g, s))])

DeclarerBid(r, g) ==
  LET d == OrElse(g.declarer, 0) IN
  IF g.bid[d] # NoBid THEN g.bid[d] ELSE OrElse({b.minBid : b \in r.bidding}, 0)

DeclarerTeam(r, n, g) == TeamOf(r, n, OrElse(g.declarer, 0))

\* 29: only the declaring side has a contract; the others may mirror it.
DeclarerContract(r, n, f, g, t) ==
  LET made  == Made(r, g, DeclarerTeam(r, n, g)) >= DeclarerBid(r, g)
      stake == Points(OrElse(f.stake, DeclarerBid(r, g)))
  IN  CASE t = DeclarerTeam(r, n, g) -> IF made THEN stake ELSE -stake
        [] t # DeclarerTeam(r, n, g) /\ f.mirror -> IF made THEN -stake ELSE stake
        [] OTHER -> 0

Captured(r, n, g) == SumFunction([t \in Teams(r, n) |-> Made(r, g, t)])

\* findMoonShooter: every point of the deck, the kitty's included.
MoonShooters(r, n, g) ==
  {t \in Teams(r, n) :
     /\ r.moonShot # {} /\ Cardinality(Teams(r, n)) >= 2
     /\ Captured(r, n, g) > 0
     /\ Captured(r, n, g) = PointsOf(r, Deck(r))
     /\ Made(r, g, t) = Captured(r, n, g)}

\* Hearts: what was captured counts against its captor, unless it is all.
PenaltyPoints(r, n, g, t) ==
  LET total == Captured(r, n, g) IN
  Points(CASE MoonShooters(r, n, g) = {} -> Made(r, g, t)
           [] "shooter-subtracts" \in r.moonShot /\ MoonShooters(r, n, g) # {} ->
                IF t \in MoonShooters(r, n, g) THEN -total ELSE 0
           [] OTHER -> IF t \in MoonShooters(r, n, g) THEN 0 ELSE total)

HandDelta(r, n, f, g, t) ==
  CASE f.kind = "bid-plus-overtrick-fraction" -> BidPlusFraction(f, g, t)
    [] f.kind = "bid-multiplier" -> BidMultiplier(r, f, g, t)
    [] f.kind = "exact-bid" -> ExactBid(f, g, t)
    [] f.kind = "bid-difference" -> BidDifference(g, t)
    [] f.kind = "threshold-win" ->
         IF Made(r, g, t) >= f.threshold THEN Points(f.value) ELSE 0
    [] f.kind = "declarer-contract" -> DeclarerContract(r, n, f, g, t)
    [] f.kind = "capture" ->
         IF Made(r, g, t) > f.threshold THEN Points(Made(r, g, t) - f.threshold) ELSE 0
    [] f.kind = "penalty-points" -> PenaltyPoints(r, n, g, t)
-----------------------------------------------------------------------------
(* computeScores: the deltas, and the bags paid off in whole lumps.        *)

\* Overtricks, or every trick of a side that has no contract at all.
Earned(r, g, t) ==
  LET over == Made(r, g, t) - OrElse(TeamBid(r, g, t), 0)
  IN  IF over > 0 THEN over ELSE 0

RunningBags(r, g, t) == g.bags[t] + Earned(r, g, t)

\* Mutant of BagsLeft: reaching the limit exactly is not enough to pay.
BagsLeftOver(r, g) ==
  [t \in DOMAIN g.bags |->
     IF \E b \in r.bags : RunningBags(r, g, t) > b.per
     THEN RunningBags(r, g, t) % OrElse({b.per : b \in r.bags}, 1)
     ELSE RunningBags(r, g, t)]

BagsLeft(r, g) ==
  [t \in DOMAIN g.bags |->
     IF r.bags = {} THEN g.bags[t]
     ELSE RunningBags(r, g, t) % OrElse({b.per : b \in r.bags}, 1)]

BagPenalty(r, g, t) ==
  SumFunction([b \in r.bags |-> (RunningBags(r, g, t) \div b.per) * b.penalty])

NewScores(r, n, g) ==
  [t \in Teams(r, n) |->
     g.scores[t] + SumFunction([f \in ScoringFormula(r) |-> HandDelta(r, n, f, g, t)])
                 - Points(BagPenalty(r, g, t))]
-----------------------------------------------------------------------------
(* buildResult                                                             *)

\* contractOutcome: whether a side made it, where the game shows a contract.
ContractOutcome(r, n, g, t) ==
  LET f    == ScoringFormula(r)
      kind == OrElse({x.kind : x \in f}, "none")
      bid  == TeamBid(r, g, t)
      made == Made(r, g, DeclarerTeam(r, n, g)) >= DeclarerBid(r, g)
  IN  CASE ~HasContract(f) -> {}
        [] kind = "declarer-contract" ->
             IF g.declarer = {} \/ g.bid[OrElse(g.declarer, 0)] = NoBid THEN {}
             ELSE {(t = DeclarerTeam(r, n, g)) = made}
        [] kind = "exact-bid" -> {Made(r, g, t) = b : b \in bid}
        [] OTHER -> {Made(r, g, t) >= b : b \in bid}

\* A total is at the target, unless it is one of those that show the target and
\* fall short of it.
Reached(r, scores, short) ==
  \E p \in r.target : \E t \in DOMAIN scores :
    scores[t] > Points(p) \/ (scores[t] = Points(p) /\ t \notin short)

\* Mutant of MatchEndReason: the hand limit is passed before it is noticed.
MatchEndReasonLate(r, number, scores, short, override) ==
  IF Reached(r, scores, short) THEN {"target-score"}
  ELSE IF number > HandLimit(r, override) THEN {"hand-limit"} ELSE {}

\* matchEndReason: a total at the target, high or low, or the last hand.
MatchEndReason(r, number, scores, short, override) ==
  IF Reached(r, scores, short) THEN {"target-score"}
  ELSE IF number >= HandLimit(r, override) THEN {"hand-limit"} ELSE {}

Best(r, values) ==
  {t \in DOMAIN values : \A u \in DOMAIN values :
     IF r.lowerIsBetter THEN values[t] <= values[u] ELSE values[t] >= values[u]}

HandGains(r, n, g, scores) == [t \in Teams(r, n) |-> scores[t] - g.scores[t]]

Result(r, n, g, scores, short, override) ==
  [delta |-> HandGains(r, n, g, scores),
   contract |-> [t \in Teams(r, n) |-> ContractOutcome(r, n, g, t)],
   roundWinners |-> Best(r, HandGains(r, n, g, scores)),
   winners |-> Best(r, scores),
   endReason |-> MatchEndReason(r, g.number, scores, short, override)]

\* applyHandScoring
ApplyHandScoring(r, n, g, short, override) ==
  [g EXCEPT !.scores = NewScores(r, n, g), !.bags = BagsLeft(r, g),
            !.rough = Rough(r, n, g),
            !.lastResult = {Result(r, n, g, NewScores(r, n, g), short, override)}]

=============================================================================
