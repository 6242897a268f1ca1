\* Every course of the bidding, and every legal course of play, for every
\* accepted set of rules.
SPECIFICATION MCSpec
CONSTANTS
  N = 4
  MinBid = 1
  MaxBid = 4
  HandCards = 5
  Candidates <- Games
  Lengths <- HostsChoices
INVARIANT ContractStands
INVARIANT UnbidDeclarerIsDealer
INVARIANT SomeMoveAlways
INVARIANT HookKeepsAContractFailing
INVARIANT LedgerBalances
INVARIANT SomeMoveUntilScoring
INVARIANT PlayIsLawful
INVARIANT FogHidesTheRest
INVARIANT ScoresAddUp
INVARIANT MatchHasItsLength
PROPERTY EveryBidTakesTheContract
PROPERTY BiddingIsFinite
PROPERTY RevealIsPaid
CHECK_DEADLOCK FALSE
