--------------------------- MODULE BiddingProofs ---------------------------
(***************************************************************************)
(* Proofs about Bidding, for a table of any size, any range of bids and    *)
(* any hand size.                                                          *)
(***************************************************************************)
EXTENDS Bidding, FiniteSetTheorems, WellFoundedInduction, TLAPS

(* The inductive invariant: the properties and what they rest on.          *)

\* Before anything is bid nobody stands at a number, and nobody has a number
\* above the highest one.
BidsBelowTop ==
  /\ top = Null => \A s \in Bidders : bid[s] \in {Null, Passed}
  /\ \A s \in Bidders : bid[s] >= 0 => bid[s] <= top

\* The turn is with a seat that may act.
TurnCanAct == phase = "BIDDING" => OnTurn

\* In an auction everyone between the holder and the turn has passed.
LastWord ==
  phase = "BIDDING" /\ flags.auction =>
    \A h \in Bidders : IsHolder(bid, order, h) =>
      \A s \in Bidders : Steps(h, s) < Steps(h, turn) => bid[s] = Passed

\* Until the first bid of an auction the passes go round from the dealer's
\* left, and reach exactly to the turn.
OpeningPasses ==
  phase = "BIDDING" /\ flags.auction /\ top = Null =>
    \A s \in Bidders :
      bid[s] = IF Steps(dealer, s) < Steps(dealer, turn) THEN Passed ELSE Null

\* A competitive single round has no two equal bids.
RoundDistinct ==
  ~flags.auction /\ flags.competitive =>
    \A r, s \in Bidders : r # s /\ bid[r] >= 0 => bid[r] # bid[s]

DeclarerNamed ==
  phase # "BIDDING" /\ flags.competitive => declarer \in Bidders

SuitNamer == phase = "TRUMP" => turn = declarer

IInv ==
  /\ TypeOK
  /\ ContractStands
  /\ UnbidDeclarerIsDealer
  /\ BidsBelowTop
  /\ TurnCanAct
  /\ LastWord
  /\ OpeningPasses
  /\ RoundDistinct
  /\ DeclarerNamed
  /\ SuitNamer
-----------------------------------------------------------------------------
(* The table and the rules.                                                *)

LEMMA NullPass == Null = -2 /\ Passed = -1
  BY DEF Null, Passed

LEMMA RulesFields ==
  ASSUME NEW r \in FlagSets
  PROVE  /\ r.competitive => r.pass
         /\ r.auction => r.competitive
         /\ r.picksTrump => r.competitive
         /\ r.competitive \/ r.pass \/ MinBid <= HandCards
         /\ r.mustBid => r.auction
         /\ r.hold => r.auction
         /\ r.hook => ~r.auction
  BY DEF FlagSets, Validated, PlayableFlags

LEMMA AfterSeat ==
  ASSUME NEW s \in Bidders
  PROVE  After(s) \in Bidders
  BY ConstantsAssumption DEF Bidders, After

LEMMA StepsRange ==
  ASSUME NEW s \in Bidders, NEW t \in Bidders
  PROVE  Steps(t, s) \in 1..N /\ (Steps(t, s) = N <=> s = t)
  BY ConstantsAssumption DEF Bidders, Steps

\* Going round from h, seat u comes after t and before s, seen from t.
LEMMA RingOrder ==
  ASSUME NEW h \in Bidders, NEW t \in Bidders, NEW s \in Bidders, NEW u \in Bidders,
         h # t, Steps(t, u) <= Steps(t, h), Steps(h, s) < Steps(h, u)
  PROVE  \/ u = h
         \/ Steps(h, s) < Steps(h, t)
         \/ s = t
         \/ Steps(t, s) < Steps(t, u)
  BY ConstantsAssumption DEF Bidders, Steps

\* A seat u that comes no sooner than h after t lies before t seen from h.
LEMMA RingNear ==
  ASSUME NEW h \in Bidders, NEW t \in Bidders, NEW u \in Bidders,
         h # t, u # h, u # t, Steps(t, h) <= Steps(t, u)
  PROVE  Steps(h, u) < Steps(h, t)
  BY ConstantsAssumption DEF Bidders, Steps

\* Seen from d, the seat after t among those beyond t.
LEMMA RingBeyond ==
  ASSUME NEW d \in Bidders, NEW t \in Bidders, NEW s \in Bidders,
         Steps(d, t) < Steps(d, s)
  PROVE  Steps(t, s) = Steps(d, s) - Steps(d, t)
  BY ConstantsAssumption DEF Bidders, Steps

LEMMA NextOrderNat ==
  ASSUME NEW o \in [Bidders -> Nat \cup {Null}]
  PROVE  NextOrder(o) \in Nat
<1>1. IsFiniteSet(Bidders)
  BY FS_Interval, ConstantsAssumption DEF Bidders
<1>2. IsFiniteSet({s \in Bidders : o[s] # Null})
  BY <1>1, FS_Subset
<1> QED
  BY <1>2, FS_CardinalityType DEF NextOrder

LEMMA UniqueHolder ==
  ASSUME NEW b \in [Bidders -> MinBid..MaxBid \cup {Null, Passed}],
         NEW o \in [Bidders -> Nat \cup {Null}],
         NEW g \in Bidders, NEW h \in Bidders,
         IsHolder(b, o, g), IsHolder(b, o, h)
  PROVE  g = h
  BY ConstantsAssumption, NullPass DEF IsHolder
-----------------------------------------------------------------------------
(* Sums.  Total is SumFunction, a recursion over the set of seats; what it *)
(* adds up to follows, as in HandPlayProofs, from the existence of a least *)
(* counterexample.  (The two models share names, so not the lemmas.)       *)

\* A set of naturals that is not empty has a least element.
LEMMA NatMin ==
  ASSUME NEW T, T \subseteq Nat, T # {}
  PROVE  \E m \in T : \A k \in T : m <= k
<1> DEFINE R == OpToRel(<, Nat)
<1>1. IsWellFoundedOn(R, Nat)
  BY NatLessThanWellFounded
<1>2. ASSUME NEW x \in Nat, NEW y \in Nat, x < y PROVE <<x, y>> \in R
  BY <1>2 DEF OpToRel
<1> HIDE DEF R
<1>3. PICK x \in T : \A y \in T : ~ (<<y, x>> \in R)
  BY <1>1, WFMin
<1>4. ASSUME NEW k \in T PROVE x <= k
  <2>1. ~ (<<k, x>> \in R) /\ x \in Nat /\ k \in Nat
    BY <1>3
  <2>2. ~(k < x)
    BY <2>1, <1>2
  <2> QED BY <2>1, <2>2
<1> QED BY <1>3, <1>4

\* The element that a sum takes first.
Chosen(s) == CHOOSE x \in s : TRUE

\* What SumFunctionOnSet recurses through.
Adds(f, S, it) ==
  it = [s \in SUBSET S |->
          IF s = {} THEN 0
          ELSE f[CHOOSE x \in s : TRUE] + it[s \ {CHOOSE x \in s : TRUE}]]

\* The sum is read off a function that recurses as Adds asks.
LEMMA SumUnfold ==
  ASSUME NEW f, NEW S, NEW jt, Adds(f, S, jt)
  PROVE  \E it : Adds(f, S, it) /\ SumFunctionOnSet(f, S) = it[S]
<1> DEFINE Q == CHOOSE it : it = [s \in SUBSET S |->
                  IF s = {} THEN 0
                  ELSE f[CHOOSE x \in s : TRUE] + it[s \ {CHOOSE x \in s : TRUE}]]
<1>1. Adds(f, S, Q)
  <2>1. \E it : it = [s \in SUBSET S |->
                  IF s = {} THEN 0
                  ELSE f[CHOOSE x \in s : TRUE] + it[s \ {CHOOSE x \in s : TRUE}]]
    BY DEF Adds
  <2> QED BY <2>1, Zenon DEF Adds
<1>2. SumFunctionOnSet(f, S) = Q[S]
  BY Zenon DEF SumFunctionOnSet, FoldFunctionOnSet, MapThenFoldSet
<1> HIDE DEF Q
<1> QED BY <1>1, <1>2

\* p recurses as Adds asks on the subsets of at most k elements.
AddsUpto(f, S, k, p) ==
  \A s \in SUBSET S : Cardinality(s) <= k =>
    p[s] = IF s = {} THEN 0 ELSE f[Chosen(s)] + p[s \ {Chosen(s)}]

\* On a finite set there is such a function.
LEMMA AddsExists ==
  ASSUME NEW f, NEW S, IsFiniteSet(S)
  PROVE  \E it : Adds(f, S, it)
<1> DEFINE Good(k) == \E p : p = [s \in SUBSET S |-> p[s]] /\ AddsUpto(f, S, k, p)
           Bad == {k \in Nat : ~Good(k)}
<1>1. ASSUME NEW k \in Bad, \A j \in Bad : k <= j PROVE FALSE
  <2>1. k \in Nat /\ ~Good(k)
    OBVIOUS
  <2>2. k # 0
    <3> DEFINE p0 == [s \in SUBSET S |-> 0]
    <3>1. AddsUpto(f, S, 0, p0)
      <4> SUFFICES ASSUME NEW s \in SUBSET S, Cardinality(s) <= 0 PROVE s = {}
        BY DEF AddsUpto
      <4> QED BY FS_Subset, FS_CardinalityType, FS_EmptySet
    <3>2. p0 = [s \in SUBSET S |-> p0[s]]
      OBVIOUS
    <3> HIDE DEF p0
    <3> QED BY <3>1, <3>2, <2>1
  <2>3. k - 1 \in Nat /\ Good(k - 1)
    <3>1. k - 1 \in Nat /\ ~(k <= k - 1)
      BY <2>1, <2>2
    <3>2. k - 1 \notin Bad
      BY <3>1, <1>1
    <3> QED BY <3>1, <3>2
  <2>4. PICK p : p = [s \in SUBSET S |-> p[s]] /\ AddsUpto(f, S, k - 1, p)
    BY <2>3
  <2> DEFINE q == [s \in SUBSET S |->
                     IF Cardinality(s) <= k - 1 THEN p[s]
                     ELSE f[Chosen(s)] + p[s \ {Chosen(s)}]]
  <2>5. AddsUpto(f, S, k, q)
    <3> SUFFICES ASSUME NEW s \in SUBSET S, Cardinality(s) <= k
                 PROVE  q[s] = IF s = {} THEN 0 ELSE f[Chosen(s)] + q[s \ {Chosen(s)}]
      BY DEF AddsUpto
    <3>1. CASE s = {}
      <4>1. Cardinality(s) = 0
        BY <3>1, FS_EmptySet
      <4>2. q[s] = p[s]
        BY <4>1, <2>3
      <4>3. 0 <= k - 1
        BY <2>3
      <4>4. p[s] = 0
        BY <4>1, <4>3, <2>4, <3>1 DEF AddsUpto
      <4> QED BY <4>2, <4>4, <3>1
    <3>2. CASE s # {}
      <4>1. Chosen(s) \in s /\ IsFiniteSet(s) /\ Cardinality(s) \in Nat
        BY <3>2, FS_Subset, FS_CardinalityType DEF Chosen
      <4>2. Cardinality(s \ {Chosen(s)}) = Cardinality(s) - 1
        BY <4>1, FS_RemoveElement
      <4>3. s \ {Chosen(s)} \in SUBSET S
        OBVIOUS
      <4>4. q[s \ {Chosen(s)}] = p[s \ {Chosen(s)}]
        BY <4>1, <4>2, <4>3, <2>3
      <4>5. q[s] = f[Chosen(s)] + p[s \ {Chosen(s)}]
        <5>1. CASE Cardinality(s) <= k - 1
          <6>1. q[s] = p[s]
            BY <5>1
          <6>2. p[s] = f[Chosen(s)] + p[s \ {Chosen(s)}]
            BY <5>1, <2>4, <3>2 DEF AddsUpto
          <6> QED BY <6>1, <6>2
        <5>2. CASE ~(Cardinality(s) <= k - 1)
          BY <5>2
        <5> QED BY <5>1, <5>2
      <4> QED BY <4>4, <4>5, <3>2
    <3> QED BY <3>1, <3>2
  <2>6. q = [s \in SUBSET S |-> q[s]]
    OBVIOUS
  <2> HIDE DEF q
  <2> QED BY <2>5, <2>6, <2>1
<1>2. Bad = {}
  <2>1. Bad \subseteq Nat
    OBVIOUS
  <2> HIDE DEF Bad
  <2> QED BY <2>1, <1>1, NatMin
<1>3. Cardinality(S) \in Nat
  BY FS_CardinalityType
<1>4. PICK p : p = [s \in SUBSET S |-> p[s]] /\ AddsUpto(f, S, Cardinality(S), p)
  BY <1>2, <1>3
<1>5. \A s \in SUBSET S : Cardinality(s) <= Cardinality(S)
  BY FS_Subset
<1>6. \A s \in SUBSET S : p[s] = IF s = {} THEN 0 ELSE f[Chosen(s)] + p[s \ {Chosen(s)}]
  BY <1>4, <1>5 DEF AddsUpto
<1>7. Adds(f, S, p)
  BY <1>4, <1>6 DEF Adds, Chosen
<1> QED BY <1>7

\* Two such functions agree where both are defined.
LEMMA AddsUnique ==
  ASSUME NEW f, NEW S, NEW T, NEW it, NEW jt, IsFiniteSet(S),
         Adds(f, S, it), Adds(f, T, jt), S \subseteq T
  PROVE  it[S] = jt[S]
<1> DEFINE K == {Cardinality(U) : U \in {V \in SUBSET S : it[V] # jt[V]}}
<1> SUFFICES ASSUME it[S] # jt[S] PROVE FALSE
  OBVIOUS
<1>1. K \subseteq Nat /\ K # {}
  BY FS_Subset, FS_CardinalityType
<1>2. PICK k \in K : \A j \in K : k <= j
  <2> HIDE DEF K
  <2> QED BY <1>1, NatMin
<1>3. PICK U \in SUBSET S : it[U] # jt[U] /\ k = Cardinality(U)
  BY <1>2
<1>4. IsFiniteSet(U) /\ U \in SUBSET T
  BY <1>3, FS_Subset
<1>5. U # {}
  BY <1>3, <1>4 DEF Adds
<1> DEFINE c == Chosen(U)
<1>6. c \in U
  BY <1>5 DEF Chosen
<1>7. it[U] = f[c] + it[U \ {c}] /\ jt[U] = f[c] + jt[U \ {c}]
  BY <1>4, <1>5 DEF Adds, Chosen
<1>8. k \in Nat /\ Cardinality(U \ {c}) = k - 1
  BY <1>1, <1>3, <1>4, <1>6, FS_RemoveElement
<1>9. it[U \ {c}] # jt[U \ {c}]
  BY <1>3, <1>7
<1>10. k - 1 \in K
  BY <1>8, <1>9
<1> HIDE DEF K
<1> QED BY <1>2, <1>8, <1>10

\* Nothing adds up to zero.
LEMMA SumEmpty == ASSUME NEW f PROVE SumFunctionOnSet(f, {}) = 0
<1>1. PICK it : Adds(f, {}, it) /\ SumFunctionOnSet(f, {}) = it[{}]
  BY AddsExists, SumUnfold, FS_EmptySet
<1> QED BY <1>1 DEF Adds

\* The sum takes one element at a time, in the order CHOOSE picks them.
LEMMA SumChosen ==
  ASSUME NEW f, NEW S, IsFiniteSet(S), S # {}
  PROVE  SumFunctionOnSet(f, S) = f[Chosen(S)] + SumFunctionOnSet(f, S \ {Chosen(S)})
<1>1. PICK it : Adds(f, S, it) /\ SumFunctionOnSet(f, S) = it[S]
  BY AddsExists, SumUnfold
<1> DEFINE U == S \ {Chosen(S)}
<1>2. IsFiniteSet(U) /\ U \subseteq S
  BY FS_Subset
<1>3. PICK jt : Adds(f, U, jt) /\ SumFunctionOnSet(f, U) = jt[U]
  BY <1>2, AddsExists, SumUnfold
<1>4. jt[U] = it[U]
  BY <1>1, <1>2, <1>3, AddsUnique
<1>5. it[S] = f[Chosen(S)] + it[U]
  BY <1>1 DEF Adds, Chosen
<1> QED BY <1>1, <1>3, <1>4, <1>5

\* A finite set on which f has integer values.
Ints(f, S) == IsFiniteSet(S) /\ \A x \in S : f[x] \in Int

\* A sum of integers is an integer.
LEMMA SumInt ==
  ASSUME NEW f, NEW S, Ints(f, S)
  PROVE  SumFunctionOnSet(f, S) \in Int
<1> DEFINE K == {Cardinality(T) : T \in {U \in SUBSET S : SumFunctionOnSet(f, U) \notin Int}}
<1> SUFFICES ASSUME SumFunctionOnSet(f, S) \notin Int PROVE FALSE
  OBVIOUS
<1>1. K \subseteq Nat /\ K # {}
  BY FS_Subset, FS_CardinalityType DEF Ints
<1>2. PICK k \in K : \A j \in K : k <= j
  <2> HIDE DEF K
  <2> QED BY <1>1, NatMin
<1>3. PICK T \in SUBSET S : SumFunctionOnSet(f, T) \notin Int /\ k = Cardinality(T)
  BY <1>2
<1>4. IsFiniteSet(T) /\ T # {}
  <2>1. T # {}
    BY <1>3, SumEmpty
  <2> QED BY <1>3, <2>1, FS_Subset DEF Ints
<1> DEFINE c == Chosen(T)
<1>5. c \in T /\ f[c] \in Int
  BY <1>4 DEF Chosen, Ints
<1>6. k \in Nat /\ Cardinality(T \ {c}) = k - 1
  BY <1>1, <1>3, <1>4, <1>5, FS_RemoveElement
<1>7. SumFunctionOnSet(f, T \ {c}) \notin Int
  <2>1. SumFunctionOnSet(f, T) = f[c] + SumFunctionOnSet(f, T \ {c})
    BY <1>4, SumChosen
  <2> HIDE DEF c
  <2> QED BY <2>1, <1>3, <1>5
<1>8. k - 1 \in K
  BY <1>6, <1>7
<1> HIDE DEF K
<1> QED BY <1>2, <1>6, <1>8

\* The order of a sum does not matter.
LEMMA SumAny ==
  ASSUME NEW f, NEW S, Ints(f, S), NEW x \in S
  PROVE  SumFunctionOnSet(f, S) = f[x] + SumFunctionOnSet(f, S \ {x})
<1> DEFINE Fine(T) == \A y \in T : SumFunctionOnSet(f, T) = f[y] + SumFunctionOnSet(f, T \ {y})
           K == {Cardinality(T) : T \in {U \in SUBSET S : ~Fine(U)}}
<1> SUFFICES ASSUME ~Fine(S) PROVE FALSE
  OBVIOUS
<1>1. K \subseteq Nat /\ K # {}
  BY FS_Subset, FS_CardinalityType DEF Ints
<1>2. PICK k \in K : \A j \in K : k <= j
  <2> HIDE DEF K
  <2> QED BY <1>1, NatMin
<1>3. PICK T \in SUBSET S : ~Fine(T) /\ k = Cardinality(T)
  BY <1>2
<1>4. PICK y \in T : SumFunctionOnSet(f, T) # f[y] + SumFunctionOnSet(f, T \ {y})
  BY <1>3
<1>5. IsFiniteSet(T) /\ T # {}
  BY <1>3, <1>4, FS_Subset DEF Ints
<1>6. PICK c : c = Chosen(T)
  OBVIOUS
<1>7. c \in T
  BY <1>5, <1>6 DEF Chosen
<1>8. SumFunctionOnSet(f, T) = f[c] + SumFunctionOnSet(f, T \ {c})
  BY <1>5, <1>6, SumChosen
<1>9. c # y
  BY <1>4, <1>8
<1>10. \A z \in T : Fine(T \ {z})
  <2> SUFFICES ASSUME NEW z \in T, ~Fine(T \ {z}) PROVE FALSE
    OBVIOUS
  <2>1. k \in Nat /\ Cardinality(T \ {z}) = k - 1
    BY <1>1, <1>3, <1>5, FS_RemoveElement
  <2>2. k - 1 \in K
    BY <2>1
  <2> HIDE DEF K
  <2> QED BY <1>2, <2>1, <2>2
<1> DEFINE U == (T \ {c}) \ {y}
<1>11. SumFunctionOnSet(f, T \ {c}) = f[y] + SumFunctionOnSet(f, U)
  BY <1>9, <1>7, <1>10
<1>12. (T \ {y}) \ {c} = U
  OBVIOUS
<1>13. SumFunctionOnSet(f, T \ {y}) = f[c] + SumFunctionOnSet(f, U)
  BY <1>9, <1>7, <1>10, <1>12
<1>14. Ints(f, U)
  BY FS_Subset, <1>5 DEF Ints
<1>15. f[y] \in Int /\ f[c] \in Int /\ SumFunctionOnSet(f, U) \in Int
  BY <1>7, <1>14, SumInt DEF Ints
<1> QED BY <1>4, <1>8, <1>11, <1>13, <1>15

\* Functions that agree on a set have the same sum over it.
LEMMA SumSame ==
  ASSUME NEW f, NEW h, NEW S, Ints(f, S), \A x \in S : h[x] = f[x]
  PROVE  SumFunctionOnSet(h, S) = SumFunctionOnSet(f, S)
<1> DEFINE Fine(T) == SumFunctionOnSet(h, T) = SumFunctionOnSet(f, T)
           K == {Cardinality(T) : T \in {U \in SUBSET S : ~Fine(U)}}
<1> SUFFICES ASSUME ~Fine(S) PROVE FALSE
  OBVIOUS
<1>1. K \subseteq Nat /\ K # {}
  BY FS_Subset, FS_CardinalityType DEF Ints
<1>2. PICK k \in K : \A j \in K : k <= j
  <2> HIDE DEF K
  <2> QED BY <1>1, NatMin
<1>3. PICK T \in SUBSET S : ~Fine(T) /\ k = Cardinality(T)
  BY <1>2
<1>4. IsFiniteSet(T) /\ T # {}
  <2>1. T # {}
    BY <1>3, SumEmpty
  <2> QED BY <1>3, <2>1, FS_Subset DEF Ints
<1>5. PICK c : c = Chosen(T)
  OBVIOUS
<1>6. c \in T /\ h[c] = f[c]
  BY <1>4, <1>5 DEF Chosen
<1>7. /\ SumFunctionOnSet(f, T) = f[c] + SumFunctionOnSet(f, T \ {c})
      /\ SumFunctionOnSet(h, T) = h[c] + SumFunctionOnSet(h, T \ {c})
  BY <1>4, <1>5, SumChosen
<1>8. ~Fine(T \ {c})
  BY <1>3, <1>6, <1>7
<1>9. k \in Nat /\ Cardinality(T \ {c}) = k - 1
  BY <1>1, <1>3, <1>4, <1>6, FS_RemoveElement
<1>10. k - 1 \in K
  BY <1>8, <1>9
<1> HIDE DEF K
<1> QED BY <1>2, <1>9, <1>10

\* q is b with a bid of v by seat t, which had not acted.
FirstBid(b, t, v, q) ==
  /\ b \in [Bidders -> MinBid..MaxBid \cup {Null, Passed}] /\ t \in Bidders /\ b[t] = Null
  /\ v \in MinBid..MaxBid /\ q = [b EXCEPT ![t] = v]

\* A bid of a seat that had none raises the total by what it bids.
LEMMA TotalGrows ==
  ASSUME NEW b, NEW t, NEW v, NEW q, FirstBid(b, t, v, q)
  PROVE  Total(b) \in Int /\ Total(q) = Total(b) + v
<1> DEFINE f == [s \in Bidders |-> IF b[s] > 0 THEN b[s] ELSE 0]
           h == [s \in Bidders |-> IF q[s] > 0 THEN q[s] ELSE 0]
           others == Bidders \ {t}
<1> USE DEF FirstBid
<1>1. IsFiniteSet(Bidders)
  BY FS_Interval, ConstantsAssumption DEF Bidders
<1>2. \A s \in Bidders : f[s] \in Int /\ h[s] \in Int
  BY NullPass, ConstantsAssumption
<1>3. f[t] = 0 /\ h[t] = v
  BY NullPass, ConstantsAssumption
<1>4. \A s \in others : h[s] = f[s]
  OBVIOUS
<1>5. Total(b) = SumFunctionOnSet(f, Bidders) /\ Total(q) = SumFunctionOnSet(h, Bidders)
  BY DEF Total, SumFunction
<1> HIDE DEF f, h
<1>6. Ints(f, Bidders) /\ Ints(h, Bidders) /\ Ints(f, others)
  BY <1>1, <1>2, FS_Subset DEF Ints
<1>7. /\ SumFunctionOnSet(f, Bidders) = f[t] + SumFunctionOnSet(f, others)
      /\ SumFunctionOnSet(h, Bidders) = h[t] + SumFunctionOnSet(h, others)
  BY <1>6, SumAny
<1>8. SumFunctionOnSet(h, others) = SumFunctionOnSet(f, others)
  BY <1>4, <1>6, SumSame
<1>9. SumFunctionOnSet(f, others) \in Int /\ v \in Int
  BY <1>6, SumInt
<1> QED BY <1>3, <1>5, <1>7, <1>8, <1>9
-----------------------------------------------------------------------------
LEMMA InitOK == BiddingInit => IInv
<1> SUFFICES ASSUME BiddingInit PROVE IInv
  OBVIOUS
<1> USE NullPass, ConstantsAssumption DEF BiddingInit
<1>1. TypeOK
  BY AfterSeat DEF TypeOK
<1>2. ContractStands /\ UnbidDeclarerIsDealer /\ BidsBelowTop
  BY DEF ContractStands, UnbidDeclarerIsDealer, BidsBelowTop
<1>3. TurnCanAct
  BY <1>1 DEF TypeOK, TurnCanAct, OnTurn, MyBid
<1>4. LastWord
  BY DEF LastWord, IsHolder
<1>5. OpeningPasses
  <2>1. Steps(dealer, turn) = 1
    BY DEF Steps, After, Bidders
  <2> QED
    BY <2>1, StepsRange DEF OpeningPasses
<1>6. RoundDistinct /\ DeclarerNamed /\ SuitNamer
  BY DEF RoundDistinct, DeclarerNamed, SuitNamer
<1> QED
  BY <1>1, <1>2, <1>3, <1>4, <1>5, <1>6 DEF IInv
-----------------------------------------------------------------------------
(* What Advance leaves: the bidding with another seat, or over.            *)

Continues ==
  /\ phase' = "BIDDING" /\ declarer' = declarer /\ turn' \in Bidders
  /\ flags.auction =>
       AuctionGoesOn(bid') /\ IsNext(Active(bid'), turn, turn')
  /\ ~flags.auction => bid'[turn'] = Null

Finishes ==
  /\ phase' \in {"TRUMP", "PLAY"} /\ turn' \in Bidders
  /\ declarer' \in Bidders \cup {Null}
  /\ flags.competitive => declarer' \in Bidders
  /\ phase' = "TRUMP" => turn' = declarer'
  /\ flags.auction =>
       ~AuctionGoesOn(bid') /\ IsWinner(bid', order', declarer')
  /\ ~flags.auction => Unacted(bid') = {} /\ IsDeclarer(bid', declarer')

LEMMA AdvanceOutcome ==
  ASSUME TypeOK, phase = "BIDDING", UNCHANGED <<flags, dealer>>,
         Advance(bid', order')
  PROVE  Continues \/ Finishes
<1> USE NullPass DEF TypeOK
<1>0. After(dealer) \in Bidders
  BY AfterSeat
<1>n. Null \notin Bidders
  BY ConstantsAssumption DEF Bidders
<1>1. CASE flags.auction
  <2>1. CASE AuctionGoesOn(bid') /\ TurnToNext(Active(bid'))
    BY <1>1, <2>1 DEF TurnToNext, Continues, IsNext, Active
  <2>2. CASE ~AuctionGoesOn(bid')
               /\ \E d \in Bidders : IsWinner(bid', order', d) /\ LeaveBidding(d)
    BY <1>0, <1>1, <1>n, <2>2 DEF LeaveBidding, Finishes
  <2> QED
    BY <1>1, <2>1, <2>2 DEF Advance, AdvanceAuction
<1>2. CASE ~flags.auction
  <2>1. CASE Unacted(bid') # {} /\ TurnToNext(Unacted(bid'))
    BY <1>2, <2>1 DEF TurnToNext, Continues, IsNext, Unacted
  <2>2. CASE Unacted(bid') = {}
    <3>1. PICK d \in Bidders \cup {Null} :
            IsDeclarer(bid', d) /\ LeaveBidding(d)
      BY <1>2, <2>2 DEF Advance, AdvanceRound
    <3>2. flags.competitive => d \in Bidders
      BY <3>1 DEF IsDeclarer
    <3>3. flags.picksTrump => flags.competitive
      BY RulesFields
    <3> QED
      BY <1>0, <1>2, <1>n, <2>2, <3>1, <3>2, <3>3 DEF LeaveBidding, Finishes
  <2> QED
    BY <1>2, <2>1, <2>2 DEF Advance, AdvanceRound
<1> QED
  BY <1>1, <1>2
-----------------------------------------------------------------------------
(* A bid.                                                                  *)

LEMMA BidTypes ==
  ASSUME TypeOK, NEW v \in MinBid..MaxBid, PlaceBid(v)
  PROVE  /\ TypeOK'
         /\ bid' = [bid EXCEPT ![turn] = v] /\ bid'[turn] = v
         /\ \A s \in Bidders \ {turn} : bid'[s] = bid[s] /\ order'[s] = order[s]
         /\ order[turn] # Null => order' = order
<1> USE NullPass, ConstantsAssumption DEF TypeOK
<1>1. NextOrder(order) \in Nat
  BY NextOrderNat
<1>2. /\ bid' = [bid EXCEPT ![turn] = v]
      /\ order' = IF order[turn] # Null THEN order
                  ELSE [order EXCEPT ![turn] = NextOrder(order)]
      /\ top' = IF v > top THEN v ELSE top
      /\ UNCHANGED <<flags, dealer>> /\ phase = "BIDDING"
      /\ Advance(bid', order')
  BY DEF PlaceBid
<1>3. bid' \in [Bidders -> MinBid..MaxBid \cup {Null, Passed}]
  BY <1>2
<1>4. order' \in [Bidders -> Nat \cup {Null}] /\ order'[turn] # Null
  BY <1>1, <1>2
<1>5. \A s \in Bidders \ {turn} : bid'[s] = bid[s] /\ order'[s] = order[s]
  BY <1>2
<1>6. \A s \in Bidders : bid'[s] >= 0 => order'[s] # Null
  BY <1>4, <1>5
<1>7. Continues \/ Finishes
  BY <1>2, AdvanceOutcome
<1>8. phase' \in {"BIDDING", "TRUMP", "PLAY"} /\ turn' \in Bidders
        /\ declarer' \in Bidders \cup {Null}
  BY <1>7 DEF Continues, Finishes
<1> QED
  BY <1>2, <1>3, <1>4, <1>5, <1>6, <1>8

\* A competitive bid makes its seat the holder of the highest number.
LEMMA BidTakes ==
  ASSUME IInv, flags.competitive, NEW v \in MinBid..MaxBid, PlaceBid(v)
  PROVE  /\ IsHolder(bid', order', turn) /\ top' = v
         /\ ~flags.auction => \A s \in Bidders \ {turn} : bid[s] < v
<1> USE NullPass, ConstantsAssumption DEF TypeOK
<1>t. TypeOK
  BY DEF IInv
<1>1. TypeOK' /\ bid'[turn] = v
        /\ (\A s \in Bidders \ {turn} : bid'[s] = bid[s] /\ order'[s] = order[s])
        /\ (order[turn] # Null => order' = order)
  BY <1>t, BidTypes
<1>2. /\ phase = "BIDDING" /\ top' = IF v > top THEN v ELSE top
      /\ \A h \in Bidders : IsHolder(bid, order, h) => Outbids(v, h)
  BY DEF PlaceBid, LegalBid, BidOffered
<1>3. CASE top = Null
  <2>1. \A s \in Bidders : bid[s] \in {Null, Passed}
    BY <1>3 DEF IInv, BidsBelowTop
  <2> QED
    BY <1>t, <1>1, <1>2, <1>3, <2>1 DEF IsHolder
<1>4. CASE top # Null
  <2>1. PICK h \in Bidders :
          IsHolder(bid, order, h) /\ bid[h] = top /\ turn # h
    BY <1>2, <1>4 DEF IInv, ContractStands
  <2>2. v > top \/ (v = top /\ MayHold(h))
    BY <1>2, <2>1 DEF Outbids
  <2>3. top' = v
    BY <1>t, <1>2, <2>2
  <2>4. CASE v > top
    BY <1>t, <1>1, <1>2, <2>1, <2>3, <2>4 DEF IsHolder
  <2>5. CASE v = top /\ MayHold(h)
    BY <1>t, <1>1, <1>2, <2>1, <2>3, <2>5 DEF IsHolder, MayHold
  <2> QED
    BY <2>2, <2>4, <2>5
<1> QED
  BY <1>t, <1>3, <1>4

LEMMA BidOK ==
  ASSUME IInv, NEW v \in MinBid..MaxBid, PlaceBid(v)
  PROVE  IInv'
<1> USE NullPass, ConstantsAssumption DEF TypeOK
<1>t. TypeOK /\ flags.auction \in BOOLEAN /\ (flags.auction => flags.competitive)
  BY RulesFields DEF IInv, FlagSets, BiddingRules
<1>1. TypeOK' /\ bid'[turn] = v
        /\ (\A s \in Bidders \ {turn} : bid'[s] = bid[s] /\ order'[s] = order[s])
  BY <1>t, BidTypes
<1>2. /\ phase = "BIDDING" /\ top' = IF v > top THEN v ELSE top
      /\ UNCHANGED <<flags, dealer>> /\ Advance(bid', order') /\ OnTurn
  BY DEF PlaceBid
<1>3. Continues \/ Finishes
  BY <1>t, <1>2, AdvanceOutcome
<1>4. top' # Null /\ top' >= v /\ top' >= top
  BY <1>t, <1>2
<1>5. BidsBelowTop'
  BY <1>t, <1>1, <1>4 DEF IInv, BidsBelowTop
<1>6. OpeningPasses' /\ SuitNamer' /\ DeclarerNamed'
  BY <1>2, <1>3, <1>4
  DEF OpeningPasses, SuitNamer, DeclarerNamed, Continues, Finishes
<1>7. TurnCanAct'
  BY <1>1, <1>2, <1>3
  DEF TurnCanAct, OnTurn, MyBid, Continues, Finishes, IsNext, Active
<1>8. CASE ~flags.competitive
  BY <1>t, <1>1, <1>2, <1>5, <1>6, <1>7, <1>8
  DEF IInv, ContractStands, UnbidDeclarerIsDealer, LastWord, RoundDistinct
<1>9. CASE flags.competitive
  <2>1. /\ IsHolder(bid', order', turn) /\ top' = v
        /\ ~flags.auction => \A s \in Bidders \ {turn} : bid[s] < v
    BY <1>9, BidTakes
  <2>2. \A h \in Bidders : IsHolder(bid', order', h) => h = turn
    BY <1>1, <2>1, UniqueHolder, <1>t
  <2>3. RoundDistinct'
    BY <1>t, <1>1, <1>2, <2>1 DEF IInv, RoundDistinct
  <2>4. CASE Continues
    <3>1. turn' # turn
      <4>1. CASE flags.auction
        <5>1. PICK r \in Bidders : bid'[r] # Passed /\ r # turn
          BY <1>1, <2>4, <4>1 DEF Continues, AuctionGoesOn, Active
        <5>2. Steps(turn, turn') <= Steps(turn, r)
          BY <2>4, <4>1, <5>1 DEF Continues, IsNext, Active
        <5> QED
          BY <1>t, <5>1, <5>2, StepsRange
      <4>2. CASE ~flags.auction
        BY <1>1, <2>4, <4>2 DEF Continues
      <4> QED
        BY <4>1, <4>2
    <3>2. ContractStands'
      BY <1>1, <1>2, <2>1, <2>4, <3>1, <1>t DEF ContractStands, Continues
    <3>3. LastWord'
      <4> SUFFICES ASSUME flags.auction, NEW s \in Bidders,
                          Steps(turn, s) < Steps(turn, turn')
                   PROVE  bid'[s] = Passed
        BY <1>2, <2>2 DEF LastWord
      <4>1. IsNext(Active(bid'), turn, turn')
        BY <2>4 DEF Continues
      <4>2. Steps(turn, s) \in Int /\ Steps(turn, turn') \in Int
        BY <1>t, <1>1, StepsRange
      <4> QED
        BY <4>1, <4>2 DEF IsNext, Active
    <3>4. UnbidDeclarerIsDealer'
      BY <2>4 DEF UnbidDeclarerIsDealer, Continues
    <3> QED
      BY <1>1, <1>5, <1>6, <1>7, <2>3, <3>2, <3>3, <3>4 DEF IInv
  <2>5. CASE Finishes
    <3>1. declarer' = turn
      <4>1. CASE flags.auction
        BY <1>9, <1>t, <2>1, <2>2, <2>5, <4>1 DEF Finishes, IsWinner
      <4>2. CASE ~flags.auction
        <5>1. IsFirstHighest(bid', declarer') /\ declarer' \in Bidders
          BY <1>2, <1>9, <1>t, <1>1, <2>5, <4>2 DEF Finishes, IsDeclarer
        <5> QED
          BY <1>1, <1>t, <2>1, <4>2, <5>1 DEF IsFirstHighest
      <4> QED
        BY <4>1, <4>2
    <3>2. ContractStands' /\ UnbidDeclarerIsDealer' /\ LastWord'
      BY <1>1, <1>2, <1>t, <2>1, <2>5, <3>1
      DEF ContractStands, UnbidDeclarerIsDealer, LastWord, Finishes
    <3> QED
      BY <1>1, <1>5, <1>6, <1>7, <2>3, <3>2 DEF IInv
  <2> QED
    BY <1>3, <2>4, <2>5
<1> QED
  BY <1>8, <1>9
-----------------------------------------------------------------------------
(* A pass.                                                                 *)

LEMMA PassTypes ==
  ASSUME TypeOK, PassBid
  PROVE  /\ TypeOK'
         /\ bid'[turn] = Passed /\ \A s \in Bidders \ {turn} : bid'[s] = bid[s]
<1> USE NullPass, ConstantsAssumption DEF TypeOK
<1>1. /\ bid' = [bid EXCEPT ![turn] = Passed]
      /\ UNCHANGED <<flags, dealer, order, top>> /\ phase = "BIDDING"
      /\ Advance(bid', order')
  BY DEF PassBid
<1>2. Continues \/ Finishes
  BY <1>1, AdvanceOutcome
<1>3. phase' \in {"BIDDING", "TRUMP", "PLAY"} /\ turn' \in Bidders
        /\ declarer' \in Bidders \cup {Null}
  BY <1>2 DEF Continues, Finishes
<1> QED
  BY <1>1, <1>3

\* The owner of the contract is never the one who passes, and still owns it.
LEMMA HolderStays ==
  ASSUME IInv, PassBid, flags.competitive, NEW h \in Bidders,
         IsHolder(bid, order, h)
  PROVE  /\ h # turn /\ bid[h] = top
         /\ IsHolder(bid', order', h) /\ bid'[h] = bid[h]
         /\ \A g \in Bidders : IsHolder(bid', order', g) => g = h
<1> USE NullPass, ConstantsAssumption DEF TypeOK
<1>1. TypeOK /\ TypeOK' /\ order' = order /\ top' = top /\ phase = "BIDDING"
        /\ bid'[turn] = Passed /\ \A s \in Bidders \ {turn} : bid'[s] = bid[s]
  BY PassTypes DEF IInv, PassBid
<1>2. top # Null
  BY <1>1 DEF IInv, BidsBelowTop, IsHolder
<1>3. PICK g \in Bidders : IsHolder(bid, order, g) /\ bid[g] = top /\ turn # g
  BY <1>1, <1>2 DEF IInv, ContractStands
<1>4. g = h
  BY <1>1, <1>3, UniqueHolder
<1>5. IsHolder(bid', order', h)
  BY <1>1, <1>3, <1>4 DEF IsHolder
<1> QED
  BY <1>1, <1>3, <1>4, <1>5, UniqueHolder

\* While somebody owns the contract.
LEMMA PassAfterBid ==
  ASSUME IInv, PassBid, flags.competitive, top # Null
  PROVE  ContractStands' /\ LastWord' /\ UnbidDeclarerIsDealer'
<1> USE NullPass, ConstantsAssumption DEF TypeOK
<1>1. TypeOK /\ TypeOK' /\ phase = "BIDDING"
        /\ UNCHANGED <<flags, dealer, order, top>>
        /\ bid'[turn] = Passed /\ \A s \in Bidders \ {turn} : bid'[s] = bid[s]
  BY PassTypes DEF IInv, PassBid
<1>2. PICK h \in Bidders : IsHolder(bid, order, h)
  BY <1>1 DEF IInv, ContractStands
<1>3. /\ h # turn /\ bid[h] = top /\ bid'[h] = top /\ bid[h] >= 0
      /\ IsHolder(bid', order', h)
      /\ \A g \in Bidders : IsHolder(bid', order', g) => g = h
  BY <1>2, HolderStays DEF IsHolder
<1>4. Continues \/ Finishes
  BY <1>1, AdvanceOutcome DEF PassBid
<1>5. CASE Continues
  <2>1. flags.auction =>
          /\ h \in Active(bid') /\ IsNext(Active(bid'), turn, turn')
          /\ \A s \in Bidders : Steps(h, s) < Steps(h, turn) => bid[s] = Passed
    BY <1>1, <1>2, <1>3, <1>5 DEF Continues, Active, IInv, LastWord
  <2>2. turn' # h
    <3>1. CASE flags.auction
      <4>1. PICK r \in Bidders : bid'[r] # Passed /\ r # h
        BY <1>1, <1>3, <1>5, <3>1 DEF Continues, AuctionGoesOn, Active
      <4>2. Steps(turn, turn') <= Steps(turn, r)
        BY <2>1, <3>1, <4>1 DEF IsNext, Active
      <4>3. ~(Steps(h, r) < Steps(h, turn)) /\ r # turn
        BY <1>1, <2>1, <3>1, <4>1
      <4> QED
        BY <1>1, <1>3, <4>1, <4>2, <4>3, RingNear
    <3>2. CASE ~flags.auction
      BY <1>1, <1>3, <1>5, <3>2 DEF Continues
    <3> QED
      BY <3>1, <3>2
  <2>3. LastWord'
    <3> SUFFICES ASSUME flags.auction, NEW s \in Bidders,
                        Steps(h, s) < Steps(h, turn')
                 PROVE  bid'[s] = Passed
      BY <1>1, <1>3 DEF LastWord
    <3>1. \/ Steps(h, s) < Steps(h, turn)
          \/ s = turn
          \/ Steps(turn, s) < Steps(turn, turn')
      BY <1>1, <1>3, <2>1, <2>2, RingOrder DEF IsNext
    <3>2. Steps(turn, s) \in Int /\ Steps(turn, turn') \in Int
      BY <1>1, StepsRange
    <3> QED
      BY <1>1, <2>1, <3>1, <3>2 DEF IsNext, Active
  <2> QED
    BY <1>1, <1>3, <1>5, <2>2, <2>3
    DEF ContractStands, UnbidDeclarerIsDealer, Continues
<1>6. CASE Finishes
  <2>1. declarer' = h
    <3>1. CASE flags.auction
      BY <1>3, <1>6, <3>1 DEF Finishes, IsWinner
    <3>2. CASE ~flags.auction
      <4>1. IsFirstHighest(bid', declarer') /\ declarer' \in Bidders
        BY <1>1, <1>3, <1>6, <3>2 DEF Finishes, IsDeclarer
      <4>2. \A r, s \in Bidders : r # s /\ bid[r] >= 0 => bid[r] # bid[s]
        BY <3>2 DEF IInv, RoundDistinct
      <4>3. bid'[declarer'] >= bid'[h] /\ bid'[h] >= bid'[declarer']
        BY <1>1, <1>3, <4>1 DEF IsFirstHighest, IsHolder
      <4> QED
        BY <1>1, <1>3, <4>1, <4>2, <4>3
    <3> QED
      BY <3>1, <3>2
  <2> QED
    BY <1>1, <1>3, <1>6, <2>1
    DEF ContractStands, UnbidDeclarerIsDealer, LastWord, Finishes
<1> QED
  BY <1>4, <1>5, <1>6

\* While nobody does.
LEMMA PassBeforeBid ==
  ASSUME IInv, PassBid, flags.competitive, top = Null
  PROVE  OpeningPasses' /\ LastWord' /\ UnbidDeclarerIsDealer'
<1> USE NullPass, ConstantsAssumption DEF TypeOK
<1>1. TypeOK /\ TypeOK' /\ phase = "BIDDING" /\ PassOffered
        /\ UNCHANGED <<flags, dealer, order, top>>
        /\ bid'[turn] = Passed /\ \A s \in Bidders \ {turn} : bid'[s] = bid[s]
  BY PassTypes DEF IInv, PassBid
<1>2. /\ \A s \in Bidders : bid[s] \in {Null, Passed} /\ bid'[s] \in {Null, Passed}
      /\ \A s \in Bidders : ~IsHolder(bid', order', s)
  BY <1>1 DEF IInv, BidsBelowTop, IsHolder
<1>3. LastWord'
  BY <1>2 DEF LastWord
<1>4. Continues \/ Finishes
  BY <1>1, AdvanceOutcome DEF PassBid
<1>5. flags.auction =>
        \A s \in Bidders :
          bid'[s] = IF Steps(dealer, s) <= Steps(dealer, turn) THEN Passed ELSE Null
  <2> SUFFICES ASSUME flags.auction, NEW s \in Bidders
               PROVE  bid'[s] =
                 IF Steps(dealer, s) <= Steps(dealer, turn) THEN Passed ELSE Null
    OBVIOUS
  <2>1. bid[s] = IF Steps(dealer, s) < Steps(dealer, turn) THEN Passed ELSE Null
    BY <1>1 DEF IInv, OpeningPasses
  <2>2. Steps(dealer, s) = Steps(dealer, turn) <=> s = turn
    BY <1>1 DEF Steps, Bidders
  <2>3. Steps(dealer, s) \in Int /\ Steps(dealer, turn) \in Int
    BY <1>1, StepsRange
  <2> QED
    BY <1>1, <2>1, <2>2, <2>3
<1>6. CASE Continues
  <2>1. OpeningPasses'
    <3> SUFFICES ASSUME flags.auction, NEW s \in Bidders
                 PROVE  bid'[s] =
                   IF Steps(dealer, s) < Steps(dealer, turn') THEN Passed ELSE Null
      BY <1>1 DEF OpeningPasses
    <3>1. turn' \in Active(bid')
            /\ \A r \in Active(bid') : Steps(turn, turn') <= Steps(turn, r)
      BY <1>6 DEF Continues, IsNext
    <3>2. Steps(dealer, turn) < Steps(dealer, turn')
      BY <1>1, <1>5, <3>1, StepsRange DEF Active
    <3>3. CASE Steps(dealer, s) <= Steps(dealer, turn)
      BY <1>1, <1>5, <3>2, <3>3, StepsRange
    <3>4. CASE Steps(dealer, turn) < Steps(dealer, s)
      <4>1. s \in Active(bid') /\ bid'[s] = Null
        BY <1>1, <1>5, <3>4, StepsRange DEF Active
      <4>2. Steps(turn, turn') <= Steps(turn, s)
        BY <3>1, <4>1
      <4>3. ~(Steps(dealer, s) < Steps(dealer, turn'))
        BY <1>1, <3>2, <3>4, <4>2, RingBeyond, StepsRange
      <4> QED
        BY <4>1, <4>3
    <3> QED
      BY <1>1, <3>3, <3>4, StepsRange
  <2> QED
    BY <1>3, <1>6, <2>1 DEF UnbidDeclarerIsDealer, Continues
<1>7. CASE Finishes
  <2>1. OpeningPasses'
    BY <1>7 DEF OpeningPasses, Finishes
  <2>2. declarer' = dealer /\ ~flags.mustBid
    <3>1. CASE ~flags.auction
      <4>1. declarer' = dealer
        BY <1>1, <1>2, <1>7, <3>1 DEF Finishes, IsDeclarer
      <4> QED
        BY <1>1, <3>1, <4>1, RulesFields
    <3>2. CASE flags.auction /\ turn = dealer
      <4>1. Active(bid') = {}
        BY <1>1, <1>5, <3>2, StepsRange DEF Active
      <4>2. declarer' = dealer
        BY <1>2, <1>7, <3>2, <4>1 DEF Finishes, IsWinner
      <4>3. OthersPassed /\ MyBid = Null
        <5>1. OthersPassed
          BY <1>1, <4>1 DEF OthersPassed, Active
        <5>2. OnTurn
          BY DEF PassBid
        <5> QED
          BY <1>1, <1>2, <3>2, <5>1, <5>2 DEF OnTurn, MyBid
      <4> QED
        BY <1>1, <3>2, <4>2, <4>3 DEF PassOffered, ForcedToBid
    <3>3. CASE flags.auction /\ turn # dealer
      <4>1. bid'[dealer] = Null
        BY <1>1, <1>5, <3>3, StepsRange
      <4>2. Active(bid') = {dealer} /\ ~flags.mustBid
        BY <1>1, <1>7, <3>3, <4>1 DEF Finishes, AuctionGoesOn, Active
      <4> QED
        BY <1>2, <1>7, <3>3, <4>2 DEF Finishes, IsWinner
    <3> QED
      BY <3>1, <3>2, <3>3
  <2> QED
    BY <1>1, <1>3, <2>1, <2>2 DEF UnbidDeclarerIsDealer
<1> QED
  BY <1>4, <1>6, <1>7

LEMMA PassOK ==
  ASSUME IInv, PassBid
  PROVE  IInv'
<1> USE NullPass, ConstantsAssumption DEF TypeOK
<1>1. TypeOK /\ TypeOK' /\ phase = "BIDDING"
        /\ UNCHANGED <<flags, dealer, order, top>>
        /\ bid'[turn] = Passed /\ \A s \in Bidders \ {turn} : bid'[s] = bid[s]
  BY PassTypes DEF IInv, PassBid
<1>2. Continues \/ Finishes
  BY <1>1, AdvanceOutcome DEF PassBid
<1>3. BidsBelowTop' /\ RoundDistinct'
  BY <1>1 DEF IInv, BidsBelowTop, RoundDistinct
<1>4. TurnCanAct' /\ SuitNamer' /\ DeclarerNamed'
  BY <1>1, <1>2
  DEF TurnCanAct, OnTurn, MyBid, SuitNamer, DeclarerNamed, Continues, Finishes,
      IsNext, Active
<1>5. /\ ContractStands' /\ LastWord' /\ OpeningPasses'
      /\ UnbidDeclarerIsDealer'
  <2>1. CASE ~flags.competitive
    BY <1>1, <2>1, RulesFields
    DEF ContractStands, LastWord, OpeningPasses, UnbidDeclarerIsDealer
  <2>2. CASE flags.competitive /\ top # Null
    BY <1>1, <2>2, PassAfterBid DEF OpeningPasses
  <2>3. CASE flags.competitive /\ top = Null
    BY <1>1, <2>3, PassBeforeBid DEF ContractStands
  <2> QED
    BY <2>1, <2>2, <2>3
<1> QED
  BY <1>1, <1>3, <1>4, <1>5 DEF IInv
-----------------------------------------------------------------------------
LEMMA SelectOK ==
  ASSUME IInv, SelectTrump
  PROVE  IInv'
<1> USE NullPass, ConstantsAssumption DEF TypeOK
<1>1. After(dealer) \in Bidders
  BY AfterSeat DEF IInv
<1>2. /\ phase = "TRUMP" /\ phase' = "PLAY" /\ turn' = After(dealer)
      /\ UNCHANGED <<flags, dealer, bid, order, declarer, top>>
  BY DEF SelectTrump
<1>3. TypeOK'
  BY <1>1, <1>2 DEF IInv
<1> QED
  BY <1>2, <1>3
  DEF IInv, ContractStands, UnbidDeclarerIsDealer, BidsBelowTop, TurnCanAct,
      LastWord, OpeningPasses, RoundDistinct, DeclarerNamed, SuitNamer, IsHolder

LEMMA StutterOK ==
  ASSUME IInv, UNCHANGED biddingVars
  PROVE  IInv'
  BY DEF IInv, biddingVars, TypeOK, ContractStands, UnbidDeclarerIsDealer,
         BidsBelowTop, TurnCanAct, OnTurn, MyBid, LastWord, OpeningPasses,
         RoundDistinct, DeclarerNamed, SuitNamer, IsHolder

LEMMA Inductive == IInv /\ [BiddingNext]_biddingVars => IInv'
  BY BidOK, PassOK, SelectOK, StutterOK DEF BiddingNext

LEMMA Invariance == BiddingSpec => []IInv
<1> QED
  BY InitOK, Inductive, PTL DEF BiddingSpec
-----------------------------------------------------------------------------
(* The hook.                                                               *)

\* The last bid of a round under the hook does not make the total exact: with
\* two numbers to choose from, the one that would is not offered.
LEMMA LastBidMisses ==
  ASSUME TypeOK, flags.hook, ~flags.pass, MinBid < MaxBid, MinBid < HandCards,
         NEW v \in MinBid..MaxBid, PlaceBid(v), Finishes
  PROVE  Total(bid') # HandCards
<1> USE NullPass, ConstantsAssumption DEF TypeOK
<1>1. ~flags.auction /\ ~flags.competitive
  BY RulesFields
<1>2. bid' = [bid EXCEPT ![turn] = v] /\ OnTurn /\ LegalBid(v)
  BY DEF PlaceBid
<1>3. bid[turn] = Null
  BY <1>1, <1>2 DEF OnTurn, MyBid
<1>4. \A s \in Bidders \ {turn} : bid[s] # Null
  <2>1. \A s \in Bidders : bid'[s] # Null
    BY <1>1 DEF Finishes, Unacted
  <2> QED BY <1>2, <2>1
<1>5. Hooked
  BY <1>3, <1>4 DEF Hooked, MyBid
<1>6. BidOffered(MinBid) /\ BidOffered(MinBid + 1)
  BY <1>1 DEF BidOffered
<1>7. v # Forbidden
  <2>1. MinBid \in MinBid..MaxBid /\ MinBid + 1 \in MinBid..MaxBid /\ MinBid # MinBid + 1
    OBVIOUS
  <2> QED BY <1>2, <1>5, <1>6, <2>1 DEF LegalBid
<1>8. Total(bid) \in Int /\ Total(bid') = Total(bid) + v
  <2>1. PICK q : q = bid'
    OBVIOUS
  <2>2. q = [bid EXCEPT ![turn] = v]
    BY <1>2, <2>1
  <2>3. FirstBid(bid, turn, v, q)
    BY <1>3, <2>2 DEF FirstBid
  <2>4. Total(bid) \in Int /\ Total(q) = Total(bid) + v
    BY <2>3, TotalGrows
  <2> QED BY <2>1, <2>4
<1>9. v # HandCards - Total(bid)
  BY <1>7 DEF Forbidden
<1> QED BY <1>8, <1>9

LEMMA HookStep ==
  ASSUME IInv, HookKeepsAContractFailing, [BiddingNext]_biddingVars
  PROVE  HookKeepsAContractFailing'
<1>t. TypeOK
  BY DEF IInv
<1>1. ASSUME NEW v \in MinBid..MaxBid, PlaceBid(v) PROVE HookKeepsAContractFailing'
  <2>1. phase = "BIDDING" /\ UNCHANGED <<flags, dealer>> /\ Advance(bid', order')
    BY <1>1 DEF PlaceBid
  <2>2. CASE Continues
    BY <2>2 DEF Continues, HookKeepsAContractFailing
  <2>3. CASE Finishes
    BY <1>t, <1>1, <2>1, <2>3, LastBidMisses DEF HookKeepsAContractFailing
  <2> QED BY <1>t, <2>1, <2>2, <2>3, AdvanceOutcome
<1>2. CASE PassBid
  BY <1>2 DEF PassBid, PassOffered, HookKeepsAContractFailing
<1>3. CASE SelectTrump
  BY <1>3 DEF SelectTrump, Total, HookKeepsAContractFailing
<1>4. CASE UNCHANGED biddingVars
  BY <1>4 DEF biddingVars, Total, HookKeepsAContractFailing
<1> QED BY <1>1, <1>2, <1>3, <1>4 DEF BiddingNext
-----------------------------------------------------------------------------
(* The theorems.                                                           *)

\* The state stays in its ranges at a table of any size: the turn never leaves
\* the table, and nobody stands at a number without a seniority.
THEOREM BiddingTypes == BiddingSpec => []TypeOK
<1>1. IInv => TypeOK
  BY DEF IInv
<1> QED
  BY <1>1, Invariance, PTL

\* Competitive bidding: the highest number has one standing owner, who is not
\* to act while the bidding runs and is the declarer when it is over.
THEOREM ContractAlwaysStands == BiddingSpec => []ContractStands
<1>1. IInv => ContractStands
  BY DEF IInv
<1> QED
  BY <1>1, Invariance, PTL

\* The declarer who never bid is the dealer, and exists only without the rule
\* that forces the last seat to bid.
THEOREM FallbackIsDealer == BiddingSpec => []UnbidDeclarerIsDealer
<1>1. IInv => UnbidDeclarerIsDealer
  BY DEF IInv
<1> QED
  BY <1>1, Invariance, PTL

\* Forced bids, the hook and the floor leave the seat to act a move, whatever
\* the rules.
THEOREM NeverWithoutMove == BiddingSpec => []SomeMoveAlways
<1>1. IInv => SomeMoveAlways
  <2> SUFFICES ASSUME IInv PROVE SomeMoveAlways
    OBVIOUS
  <2> USE NullPass, ConstantsAssumption DEF TypeOK
  <2>t. TypeOK
    BY DEF IInv
  <2>1. phase = "TRUMP" => turn = declarer
    BY DEF IInv, SuitNamer
  <2>2. ASSUME phase = "BIDDING", ~PassOffered
        PROVE  \E v \in MinBid..MaxBid : LegalBid(v)
    <3>1. BidOffered(MinBid)
      <4>1. CASE flags.competitive
        <5>1. ForcedToBid
          BY <2>t, <2>2, <4>1, RulesFields DEF PassOffered
        <5>2. \A s \in Bidders : ~IsHolder(bid, order, s)
          BY <2>t, <5>1 DEF ForcedToBid, OthersPassed, MyBid, IsHolder
        <5> QED
          BY <4>1, <5>2 DEF BidOffered
      <4>2. CASE ~flags.competitive
        BY <2>t, <2>2, <4>2, RulesFields DEF PassOffered, BidOffered
      <4> QED
        BY <4>1, <4>2
    <3>2. CASE \A w \in MinBid..MaxBid : BidOffered(w) => w = MinBid
      BY <2>2, <3>1, <3>2 DEF LegalBid
    <3>3. CASE \E w \in MinBid..MaxBid : BidOffered(w) /\ w # MinBid
      BY <2>2, <3>1, <3>3 DEF LegalBid
    <3> QED
      BY <3>2, <3>3
  <2> QED
    BY <2>1, <2>2 DEF SomeMoveAlways, IInv, TurnCanAct
<1> QED
  BY <1>1, Invariance, PTL

\* Every legal bid of a competitive game, a hold included, takes the contract.
THEOREM BidsTakeTheContract == BiddingSpec => EveryBidTakesTheContract
<1>1. IInv /\ [BiddingNext]_biddingVars =>
        [flags.competitive /\ phase = "BIDDING" /\ bid'[turn] >= 0
           => IsHolder(bid', order', turn)]_biddingVars
  <2> SUFFICES ASSUME IInv, BiddingNext, flags.competitive, phase = "BIDDING",
                      bid'[turn] >= 0
               PROVE  IsHolder(bid', order', turn)
    OBVIOUS
  <2>1. CASE \E v \in MinBid..MaxBid : PlaceBid(v)
    BY <2>1, BidTakes
  <2>2. ~PassBid
    BY PassTypes, NullPass DEF IInv
  <2>3. ~SelectTrump
    BY DEF SelectTrump
  <2> QED
    BY <2>1, <2>2, <2>3 DEF BiddingNext
<1> QED
  BY <1>1, Invariance, PTL DEF BiddingSpec, EveryBidTakesTheContract

\* Under the hook the bids of a round without passes never add up to the
\* tricks, unless the last seat had no choice (applyExactTotalHook).
THEOREM HookHolds == BiddingSpec => []HookKeepsAContractFailing
<1>1. BiddingInit => HookKeepsAContractFailing
  BY DEF BiddingInit, HookKeepsAContractFailing
<1>2. IInv /\ HookKeepsAContractFailing /\ [BiddingNext]_biddingVars => HookKeepsAContractFailing'
  BY HookStep
<1> QED
  BY <1>1, <1>2, Invariance, PTL DEF BiddingSpec
=============================================================================
