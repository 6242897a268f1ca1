------------------------------ MODULE Bidding ------------------------------
(***************************************************************************)
(* The bidding of one hand (core/engine): which bids and passes a seat is  *)
(* offered (legal-moves.ts), what each does and whose turn it makes it     *)
(* (apply-move.ts), and who owns the contract (highBidHolder, state.ts).   *)
(* Both styles the rules language has are here: the single round, in which *)
(* every seat acts once, and the auction, in which a pass is final, a bid  *)
(* may be raised when the turn comes round again, and a seat that opened   *)
(* before the holder may take the contract back at the same number.        *)
(*                                                                         *)
(* The flags are a variable that never changes, so one run covers every    *)
(* combination that FlagSets admits.                                       *)
(***************************************************************************)
EXTENDS Integers, FiniteSets, Functions

CONSTANTS
  N,        \* seats at the table
  MinBid,   \* bidding.minBid
  MaxBid,   \* bidding.maxBid
  HandCards \* cards in a hand when the bidding starts

ASSUME ConstantsAssumption ==
  /\ N \in Nat /\ N >= 2
  /\ MinBid \in Nat /\ MaxBid \in Nat /\ MinBid <= MaxBid
  /\ HandCards \in Nat \ {0}

VARIABLES
  flags,     \* the bidding configuration of the plugin
  dealer,
  phase,     \* BIDDING, then TRUMP if the declarer names a suit, then PLAY
  turn,      \* turnSeat
  bid,       \* per seat: Null (null), Passed (-1) or the number bid
  order,     \* per seat: bidOrder, when it opened; Null if it never bid
  declarer,  \* declarerSeat; Null while there is none
  top        \* history: the highest number bid so far; Null before any

biddingVars == <<flags, dealer, phase, turn, bid, order, declarer, top>>

Bidders == 0..(N - 1)
Null  == -2
Passed  == -1
-----------------------------------------------------------------------------
(* The rules.                                                              *)

BiddingRules ==
  [auction: BOOLEAN,      \* style
   competitive: BOOLEAN,  \* determines "trump-suit"
   pass: BOOLEAN,         \* allowPass
   mustBid: BOOLEAN,      \* dealerMustBid
   hold: BOOLEAN,         \* holdBidBySeniority
   hook: BOOLEAN,         \* forbidExactTotal
   picksTrump: BOOLEAN]   \* the phase after BIDDING is TRUMP_SELECTION

\* What validateRulesDsl demands of the flags.
Validated(r) ==
  /\ r.mustBid => r.auction
  /\ r.hold => r.auction
  /\ r.hook => ~r.auction

\* What it does not demand and play needs: a competitive seat that cannot
\* outbid the maximum must be able to pass; an auction must be about a
\* contract; a suit is named by a declarer; some quota must be within reach.
PlayableFlags(r) ==
  /\ r.competitive => r.pass
  /\ r.auction => r.competitive
  /\ r.picksTrump => r.competitive
  /\ r.competitive \/ r.pass \/ MinBid <= HandCards

FlagSets == {r \in BiddingRules : Validated(r) /\ PlayableFlags(r)}
-----------------------------------------------------------------------------
(* Seats around the table.                                                 *)

\* seatAfter: (s + 1) modulo N
After(s) == IF s = N - 1 THEN 0 ELSE s + 1

\* How many seats the turn moves on to get from t to s; N to come back to t.
Steps(t, s) == IF s > t THEN s - t ELSE s - t + N

\* The first of the seats in A that the loop of advanceBidding meets after t.
IsNext(A, t, s) == s \in A /\ \A r \in A : Steps(t, s) <= Steps(t, r)
-----------------------------------------------------------------------------
(* The contract.                                                           *)

\* highBidHolder: the highest number, the senior of two equal ones.
IsHolder(b, o, s) ==
  /\ b[s] >= 0
  /\ \A r \in Bidders \ {s} : b[r] < b[s] \/ (b[r] = b[s] /\ o[s] < o[r])

\* nextBidOrder
NextOrder(o) == Cardinality({s \in Bidders : o[s] # Null})

\* The first of the highest bidders, as the reduce of a single round finds it.
IsFirstHighest(b, s) ==
  /\ b[s] >= 0
  /\ \A r \in Bidders : b[r] <= b[s] /\ (r < s => b[r] < b[s])
-----------------------------------------------------------------------------
(* The moves offered (generateBiddingMoves, applyExactTotalHook).          *)

MyBid == bid[turn]

OnTurn == IF flags.auction THEN MyBid # Passed ELSE MyBid = Null

\* Mutant of MayHold: a junior seat may match the holder as well.
MayHoldUnseniored(h) ==
  flags.auction /\ flags.hold /\ h # turn /\ order[turn] # Null

\* The hold rule: a seat that opened before the holder may match it.
MayHold(h) ==
  flags.auction /\ flags.hold /\ h # turn /\ order[turn] # Null
    /\ order[turn] < order[h]

\* Mutant of Outbids: matching the holder is open to everyone.
MatchesOrOutbids(v, h) == v >= bid[h]

Outbids(v, h) == v > bid[h] \/ (v = bid[h] /\ MayHold(h))

BidOffered(v) ==
  /\ v \in MinBid..MaxBid
  /\ IF flags.competitive
     THEN \A h \in Bidders : IsHolder(bid, order, h) => Outbids(v, h)
     ELSE v <= HandCards

OthersPassed == \A s \in Bidders \ {turn} : bid[s] = Passed

\* Mutant of ForcedToBid: a seat that has not bid is always made to.
ForcedUntilItBids == flags.auction /\ flags.mustBid /\ MyBid = Null

\* Nothing is bid and this seat is the last that can.
ForcedToBid ==
  flags.auction /\ flags.mustBid /\ MyBid = Null /\ OthersPassed

PassOffered == flags.pass /\ ~(flags.competitive /\ ForcedToBid)

\* Mutant of Hooked: yetToBid is counted without the seat to act.
HookedTooLate == flags.hook /\ MyBid = Null /\ \A s \in Bidders : bid[s] # Null

\* The hook applies to the last seat of a single round.
Hooked == flags.hook /\ MyBid = Null
            /\ \A s \in Bidders \ {turn} : bid[s] # Null

Total(b) == SumFunction([s \in Bidders |-> IF b[s] > 0 THEN b[s] ELSE 0])

Forbidden == HandCards - Total(bid)

\* The hook takes one number away, unless that would leave nothing.
LegalBid(v) ==
  /\ BidOffered(v)
  /\ Hooked /\ v = Forbidden =>
       ~PassOffered /\ \A w \in MinBid..MaxBid : BidOffered(w) => w = v
-----------------------------------------------------------------------------
(* What a bid or a pass leads to.                                          *)

\* transitionOutOfBidding
LeaveBidding(d) ==
  /\ declarer' = d
  /\ phase' = IF flags.picksTrump THEN "TRUMP" ELSE "PLAY"
  /\ turn' = IF flags.picksTrump /\ d # Null THEN d ELSE After(dealer)

TurnToNext(A) ==
  /\ \E s \in A : IsNext(A, turn, s) /\ turn' = s
  /\ UNCHANGED <<phase, declarer>>

Active(b) == {s \in Bidders : b[s] # Passed}

\* Mutant of AuctionGoesOn: lastBidderMustStillAct forgotten.
AuctionEndsAtOne(b) == \E s \in Active(b) : \E r \in Active(b) : r # s

\* More than one seat is in, or the one left must still bid.
AuctionGoesOn(b) ==
  \E s \in Active(b) :
    \/ \E r \in Active(b) : r # s
    \/ b[s] = Null /\ flags.mustBid

\* Who wins an auction: the holder, else the seat left in, else the dealer.
IsWinner(b, o, d) ==
  IF \E h \in Bidders : IsHolder(b, o, h) THEN IsHolder(b, o, d)
  ELSE IF Active(b) # {} THEN d \in Active(b) ELSE d = dealer

\* advanceAuctionBidding
AdvanceAuction(b, o) ==
  \/ AuctionGoesOn(b) /\ TurnToNext(Active(b))
  \/ /\ ~AuctionGoesOn(b)
     /\ \E d \in Bidders : IsWinner(b, o, d) /\ LeaveBidding(d)

\* Who a single round makes declarer: nobody if it only stakes quotas.
IsDeclarer(b, d) ==
  IF ~flags.competitive THEN d = Null
  ELSE IF \E s \in Bidders : b[s] >= 0 THEN d \in Bidders /\ IsFirstHighest(b, d)
  ELSE d = dealer

Unacted(b) == {s \in Bidders : b[s] = Null}

\* advanceBidding, style "single-round"
AdvanceRound(b) ==
  \/ Unacted(b) # {} /\ TurnToNext(Unacted(b))
  \/ /\ Unacted(b) = {}
     /\ \E d \in Bidders \cup {Null} : IsDeclarer(b, d) /\ LeaveBidding(d)

Advance(b, o) == IF flags.auction THEN AdvanceAuction(b, o) ELSE AdvanceRound(b)

\* applyAction PLACE_BID: seniority is stamped on the opening bid only.
PlaceBid(v) ==
  /\ phase = "BIDDING" /\ OnTurn /\ LegalBid(v)
  /\ bid' = [bid EXCEPT ![turn] = v]
  /\ order' = IF order[turn] # Null THEN order
              ELSE [order EXCEPT ![turn] = NextOrder(order)]
  /\ top' = IF v > top THEN v ELSE top
  /\ Advance(bid', order')
  /\ UNCHANGED <<flags, dealer>>

\* applyAction PASS_BID
PassBid ==
  /\ phase = "BIDDING" /\ OnTurn /\ PassOffered
  /\ bid' = [bid EXCEPT ![turn] = Passed]
  /\ Advance(bid', order)
  /\ UNCHANGED <<flags, dealer, order, top>>

\* applyAction SELECT_TRUMP and advanceAfterTrumpSelection
SelectTrump ==
  /\ phase = "TRUMP" /\ turn = declarer
  /\ phase' = "PLAY"
  /\ turn' = After(dealer)
  /\ UNCHANGED <<flags, dealer, bid, order, declarer, top>>

\* dealHand: any seat may be dealing, the seat to its left opens.
BiddingInit ==
  /\ flags \in FlagSets
  /\ dealer \in Bidders
  /\ phase = "BIDDING"
  /\ turn = After(dealer)
  /\ bid = [s \in Bidders |-> Null]
  /\ order = [s \in Bidders |-> Null]
  /\ declarer = Null
  /\ top = Null

BiddingNext == (\E v \in MinBid..MaxBid : PlaceBid(v)) \/ PassBid \/ SelectTrump

BiddingSpec == BiddingInit /\ [][BiddingNext]_biddingVars
-----------------------------------------------------------------------------
(* Properties.                                                             *)

\* Every variable stays in its range, the turn on the table included, and a
\* seat that stands at a number has a seniority.
TypeOK ==
  /\ flags \in FlagSets
  /\ dealer \in Bidders
  /\ phase \in {"BIDDING", "TRUMP", "PLAY"}
  /\ turn \in Bidders
  /\ bid \in [Bidders -> MinBid..MaxBid \cup {Null, Passed}]
  /\ order \in [Bidders -> Nat \cup {Null}]
  /\ \A s \in Bidders : bid[s] >= 0 => order[s] # Null
  /\ declarer \in Bidders \cup {Null}
  /\ top \in MinBid..MaxBid \cup {Null}

\* In a competitive game the highest number ever bid always has one owner who
\* has not passed: while the bidding runs it is never that owner's turn, and
\* the owner is who becomes declarer (the claim made at the end of
\* advanceAuctionBidding, "the sole un-passed seat is by construction the one
\* holding the high bid").
ContractStands ==
  flags.competitive /\ top # Null =>
    \E h \in Bidders :
      /\ IsHolder(bid, order, h) /\ bid[h] = top
      /\ IF phase = "BIDDING" THEN turn # h ELSE declarer = h

\* A declarer who never bid is the dealer, and there is none such when the
\* rules force the last seat to bid (the fallbacks of both advance functions).
UnbidDeclarerIsDealer ==
  flags.competitive /\ phase # "BIDDING" /\ bid[declarer] < 0 =>
    top = Null /\ declarer = dealer /\ ~flags.mustBid

\* The seat to act is offered something until play starts: the forced bid, the
\* hook and the floor never leave a seat without a move.
SomeMoveAlways ==
  /\ phase = "BIDDING" =>
       OnTurn /\ (PassOffered \/ \E v \in MinBid..MaxBid : LegalBid(v))
  /\ phase = "TRUMP" => turn = declarer

\* The hook's promise: where nobody may pass and the last seat has a choice,
\* the bids never add up to the tricks available.
HookKeepsAContractFailing ==
  /\ flags.hook /\ ~flags.pass /\ phase # "BIDDING"
  /\ MinBid < MaxBid /\ MinBid < HandCards
  => Total(bid) # HandCards

\* A bid always takes the contract: no legal bid, a hold included, leaves
\* somebody else the holder.
EveryBidTakesTheContract ==
  [][flags.competitive /\ phase = "BIDDING" /\ bid'[turn] >= 0
       => IsHolder(bid', order', turn)]_biddingVars

\* No bidding goes on for ever: however the seats bid, raise and hold, from
\* some point on there is nothing left to do.
BiddingIsFinite == <>[][FALSE]_biddingVars

=============================================================================
