----------------------------- MODULE MCWholeHand -----------------------------
(* A hand in two parts, chosen at the start: a bidding at a table of four,   *)
(* for every combination of flags, or the games of MCHandPlay, which take    *)
(* the end states of their biddings from the rules.  The part that is not    *)
(* played stays at one of its initial states.                                *)
EXTENDS MCHandPlay, Bidding

VARIABLE part

hand == vars

\* One deal of Whist.
HandAtRest ==
  /\ rules = Whist /\ override = {} /\ Init
  /\ g.hands = [s \in 0..1 |-> IF s = 0 THEN {<<"S", 1>>, <<"S", 2>>}
                                      ELSE {<<"S", 3>>, <<"H", 2>>}]

BiddingAtRest ==
  /\ flags = CHOOSE f \in FlagSets : TRUE
  /\ dealer = 0 /\ BiddingInit

MCInit ==
  \/ part = "bidding" /\ BiddingInit /\ HandAtRest
  \/ part = "play" /\ BiddingAtRest /\ Init

MCNext ==
  /\ \/ part = "bidding" /\ BiddingNext /\ UNCHANGED hand
     \/ part = "play" /\ Next /\ UNCHANGED biddingVars
  /\ UNCHANGED part

MCSpec == MCInit /\ [][MCNext]_<<hand, biddingVars, part>>
=============================================================================
