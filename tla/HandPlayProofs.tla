-------------------------- MODULE HandPlayProofs --------------------------
(***************************************************************************)
(* Proofs about HandPlay, for all rules, tables and deals.                 *)
(*                                                                         *)
(* Ready says that a hand is in order, and is inductive by itself.  On it  *)
(* rest four invariants, each inductive with those below it: Books, that   *)
(* the summaries say what the history says; Settled, what was bid and what *)
(* the totals are; History, that each trick was played lawfully; and       *)
(* Reported, that a result is true to the hand it scored.                  *)
(*                                                                         *)
(* The model sums over sets with SumFunction, which recurses on a set.     *)
(* What a sum is follows here from the existence of a least counterexample *)
(* (NatMin): no set of the smallest size breaks a rule of addition.        *)
(***************************************************************************)
EXTENDS HandPlay, FiniteSetTheorems, SequenceTheorems, WellFoundedInduction, TLAPS

-----------------------------------------------------------------------------
(* Induction over finite sets, through least elements.                     *)

\* A set of naturals that is not empty has a least element.
LEMMA NatMin ==
  ASSUME NEW T, T \subseteq Nat, T # {}
  PROVE  \E m \in T : \A k \in T : m <= k
<1> DEFINE R == OpToRel(<, Nat)
<1>1. IsWellFoundedOn(R, Nat)
  BY NatLessThanWellFounded
<1>2. ASSUME NEW x \in Nat, NEW y \in Nat, x < y PROVE <<x, y>> \in R
  BY <1>2 DEF OpToRel
<1> HIDE DEF R
<1>3. PICK x \in T : \A y \in T : ~ (<<y, x>> \in R)
  BY <1>1, WFMin
<1>4. ASSUME NEW k \in T PROVE x <= k
  <2>1. ~ (<<k, x>> \in R) /\ x \in Nat /\ k \in Nat
    BY <1>3
  <2>2. ~(k < x)
    BY <2>1, <1>2
  <2> QED BY <2>1, <2>2
<1> QED BY <1>3, <1>4

\* A set of subsets that has the empty one, and T with one more element
\* whenever it has T, has the whole of a finite set.
LEMMA SubsetInduction ==
  ASSUME NEW S, IsFiniteSet(S), NEW Good, {} \in Good,
         \A T \in SUBSET S : \A x \in S \ T : T \in Good => T \cup {x} \in Good
  PROVE  S \in Good
<1> DEFINE Bad == {T \in SUBSET S : T \notin Good}
           K == {Cardinality(T) : T \in Bad}
<1> SUFFICES ASSUME S \notin Good PROVE FALSE
  OBVIOUS
<1>1. K \subseteq Nat /\ K # {}
  BY FS_Subset, FS_CardinalityType
<1>2. PICK k \in K : \A j \in K : k <= j
  <2> HIDE DEF K
  <2> QED BY <1>1, NatMin
<1>3. PICK T \in Bad : k = Cardinality(T)
  BY <1>2
<1>4. IsFiniteSet(T) /\ T # {} /\ T \subseteq S
  BY <1>3, FS_Subset
<1>5. PICK x \in T : TRUE
  BY <1>4
<1>6. k \in Nat /\ Cardinality(T \ {x}) = k - 1
  BY <1>1, <1>3, <1>4, <1>5, FS_RemoveElement
<1>7. T \ {x} \in Good
  <2>1. CASE T \ {x} \in Bad
    <3>1. k - 1 \in K
      BY <2>1, <1>6
    <3> HIDE DEF K
    <3> QED BY <3>1, <1>2, <1>6
  <2> QED BY <2>1, <1>4
<1>8. (T \ {x}) \cup {x} = T
  BY <1>5
<1> QED BY <1>3, <1>4, <1>5, <1>7, <1>8

-----------------------------------------------------------------------------
(* Sums.                                                                   *)

\* The element that a sum takes first.
Chosen(s) == CHOOSE x \in s : TRUE

\* What SumFunctionOnSet recurses through.
Adds(f, S, it) ==
  it = [s \in SUBSET S |->
          IF s = {} THEN 0
          ELSE f[CHOOSE x \in s : TRUE] + it[s \ {CHOOSE x \in s : TRUE}]]

\* The sum is read off a function that recurses as Adds asks.
LEMMA SumUnfold ==
  ASSUME NEW f, NEW S, NEW jt, Adds(f, S, jt)
  PROVE  \E it : Adds(f, S, it) /\ SumFunctionOnSet(f, S) = it[S]
<1> DEFINE Q == CHOOSE it : it = [s \in SUBSET S |->
                  IF s = {} THEN 0
                  ELSE f[CHOOSE x \in s : TRUE] + it[s \ {CHOOSE x \in s : TRUE}]]
<1>1. Adds(f, S, Q)
  <2>1. \E it : it = [s \in SUBSET S |->
                  IF s = {} THEN 0
                  ELSE f[CHOOSE x \in s : TRUE] + it[s \ {CHOOSE x \in s : TRUE}]]
    BY DEF Adds
  <2> QED BY <2>1, Zenon DEF Adds
<1>2. SumFunctionOnSet(f, S) = Q[S]
  BY Zenon DEF SumFunctionOnSet, FoldFunctionOnSet, MapThenFoldSet
<1> HIDE DEF Q
<1> QED BY <1>1, <1>2

\* p recurses as Adds asks on the subsets of at most k elements.
AddsUpto(f, S, k, p) ==
  \A s \in SUBSET S : Cardinality(s) <= k =>
    p[s] = IF s = {} THEN 0 ELSE f[Chosen(s)] + p[s \ {Chosen(s)}]

\* On a finite set there is such a function.
LEMMA AddsExists ==
  ASSUME NEW f, NEW S, IsFiniteSet(S)
  PROVE  \E it : Adds(f, S, it)
<1> DEFINE Good(k) == \E p : p = [s \in SUBSET S |-> p[s]] /\ AddsUpto(f, S, k, p)
           Bad == {k \in Nat : ~Good(k)}
<1>1. ASSUME NEW k \in Bad, \A j \in Bad : k <= j PROVE FALSE
  <2>1. k \in Nat /\ ~Good(k)
    OBVIOUS
  <2>2. k # 0
    <3> DEFINE p0 == [s \in SUBSET S |-> 0]
    <3>1. AddsUpto(f, S, 0, p0)
      <4> SUFFICES ASSUME NEW s \in SUBSET S, Cardinality(s) <= 0 PROVE s = {}
        BY DEF AddsUpto
      <4> QED BY FS_Subset, FS_CardinalityType, FS_EmptySet
    <3>2. p0 = [s \in SUBSET S |-> p0[s]]
      OBVIOUS
    <3> HIDE DEF p0
    <3> QED BY <3>1, <3>2, <2>1
  <2>3. k - 1 \in Nat /\ Good(k - 1)
    <3>1. k - 1 \in Nat /\ ~(k <= k - 1)
      BY <2>1, <2>2
    <3>2. k - 1 \notin Bad
      BY <3>1, <1>1
    <3> QED BY <3>1, <3>2
  <2>4. PICK p : p = [s \in SUBSET S |-> p[s]] /\ AddsUpto(f, S, k - 1, p)
    BY <2>3
  <2> DEFINE q == [s \in SUBSET S |->
                     IF Cardinality(s) <= k - 1 THEN p[s]
                     ELSE f[Chosen(s)] + p[s \ {Chosen(s)}]]
  <2>5. AddsUpto(f, S, k, q)
    <3> SUFFICES ASSUME NEW s \in SUBSET S, Cardinality(s) <= k
                 PROVE  q[s] = IF s = {} THEN 0 ELSE f[Chosen(s)] + q[s \ {Chosen(s)}]
      BY DEF AddsUpto
    <3>1. CASE s = {}
      <4>1. Cardinality(s) = 0
        BY <3>1, FS_EmptySet
      <4>2. q[s] = p[s]
        BY <4>1, <2>3
      <4>3. 0 <= k - 1
        BY <2>3
      <4>4. p[s] = 0
        BY <4>1, <4>3, <2>4, <3>1 DEF AddsUpto
      <4> QED BY <4>2, <4>4, <3>1
    <3>2. CASE s # {}
      <4>1. Chosen(s) \in s /\ IsFiniteSet(s) /\ Cardinality(s) \in Nat
        BY <3>2, FS_Subset, FS_CardinalityType DEF Chosen
      <4>2. Cardinality(s \ {Chosen(s)}) = Cardinality(s) - 1
        BY <4>1, FS_RemoveElement
      <4>3. s \ {Chosen(s)} \in SUBSET S
        OBVIOUS
      <4>4. q[s \ {Chosen(s)}] = p[s \ {Chosen(s)}]
        BY <4>1, <4>2, <4>3, <2>3
      <4>5. q[s] = f[Chosen(s)] + p[s \ {Chosen(s)}]
        <5>1. CASE Cardinality(s) <= k - 1
          <6>1. q[s] = p[s]
            BY <5>1
          <6>2. p[s] = f[Chosen(s)] + p[s \ {Chosen(s)}]
            BY <5>1, <2>4, <3>2 DEF AddsUpto
          <6> QED BY <6>1, <6>2
        <5>2. CASE ~(Cardinality(s) <= k - 1)
          BY <5>2
        <5> QED BY <5>1, <5>2
      <4> QED BY <4>4, <4>5, <3>2
    <3> QED BY <3>1, <3>2
  <2>6. q = [s \in SUBSET S |-> q[s]]
    OBVIOUS
  <2> HIDE DEF q
  <2> QED BY <2>5, <2>6, <2>1
<1>2. Bad = {}
  <2>1. Bad \subseteq Nat
    OBVIOUS
  <2> HIDE DEF Bad
  <2> QED BY <2>1, <1>1, NatMin
<1>3. Cardinality(S) \in Nat
  BY FS_CardinalityType
<1>4. PICK p : p = [s \in SUBSET S |-> p[s]] /\ AddsUpto(f, S, Cardinality(S), p)
  BY <1>2, <1>3
<1>5. \A s \in SUBSET S : Cardinality(s) <= Cardinality(S)
  BY FS_Subset
<1>6. \A s \in SUBSET S : p[s] = IF s = {} THEN 0 ELSE f[Chosen(s)] + p[s \ {Chosen(s)}]
  BY <1>4, <1>5 DEF AddsUpto
<1>7. Adds(f, S, p)
  BY <1>4, <1>6 DEF Adds, Chosen
<1> QED BY <1>7

\* Two such functions agree where both are defined.
LEMMA AddsUnique ==
  ASSUME NEW f, NEW S, NEW T, NEW it, NEW jt, IsFiniteSet(S),
         Adds(f, S, it), Adds(f, T, jt), S \subseteq T
  PROVE  it[S] = jt[S]
<1> DEFINE K == {Cardinality(U) : U \in {V \in SUBSET S : it[V] # jt[V]}}
<1> SUFFICES ASSUME it[S] # jt[S] PROVE FALSE
  OBVIOUS
<1>1. K \subseteq Nat /\ K # {}
  BY FS_Subset, FS_CardinalityType
<1>2. PICK k \in K : \A j \in K : k <= j
  <2> HIDE DEF K
  <2> QED BY <1>1, NatMin
<1>3. PICK U \in SUBSET S : it[U] # jt[U] /\ k = Cardinality(U)
  BY <1>2
<1>4. IsFiniteSet(U) /\ U \in SUBSET T
  BY <1>3, FS_Subset
<1>5. U # {}
  BY <1>3, <1>4 DEF Adds
<1> DEFINE c == Chosen(U)
<1>6. c \in U
  BY <1>5 DEF Chosen
<1>7. it[U] = f[c] + it[U \ {c}] /\ jt[U] = f[c] + jt[U \ {c}]
  BY <1>4, <1>5 DEF Adds, Chosen
<1>8. k \in Nat /\ Cardinality(U \ {c}) = k - 1
  BY <1>1, <1>3, <1>4, <1>6, FS_RemoveElement
<1>9. it[U \ {c}] # jt[U \ {c}]
  BY <1>3, <1>7
<1>10. k - 1 \in K
  BY <1>8, <1>9
<1> HIDE DEF K
<1> QED BY <1>2, <1>8, <1>10

\* Nothing adds up to zero.
LEMMA SumEmpty == ASSUME NEW f PROVE SumFunctionOnSet(f, {}) = 0
<1>1. PICK it : Adds(f, {}, it) /\ SumFunctionOnSet(f, {}) = it[{}]
  BY AddsExists, SumUnfold, FS_EmptySet
<1> QED BY <1>1 DEF Adds

\* The sum takes one element at a time, in the order CHOOSE picks them.
LEMMA SumChosen ==
  ASSUME NEW f, NEW S, IsFiniteSet(S), S # {}
  PROVE  SumFunctionOnSet(f, S) = f[Chosen(S)] + SumFunctionOnSet(f, S \ {Chosen(S)})
<1>1. PICK it : Adds(f, S, it) /\ SumFunctionOnSet(f, S) = it[S]
  BY AddsExists, SumUnfold
<1> DEFINE U == S \ {Chosen(S)}
<1>2. IsFiniteSet(U) /\ U \subseteq S
  BY FS_Subset
<1>3. PICK jt : Adds(f, U, jt) /\ SumFunctionOnSet(f, U) = jt[U]
  BY <1>2, AddsExists, SumUnfold
<1>4. jt[U] = it[U]
  BY <1>1, <1>2, <1>3, AddsUnique
<1>5. it[S] = f[Chosen(S)] + it[U]
  BY <1>1 DEF Adds, Chosen
<1> QED BY <1>1, <1>3, <1>4, <1>5

\* A finite set on which f has integer values.
Ints(f, S) == IsFiniteSet(S) /\ \A x \in S : f[x] \in Int

\* A sum of integers is an integer.
LEMMA SumInt ==
  ASSUME NEW f, NEW S, Ints(f, S)
  PROVE  SumFunctionOnSet(f, S) \in Int
<1> DEFINE K == {Cardinality(T) : T \in {U \in SUBSET S : SumFunctionOnSet(f, U) \notin Int}}
<1> SUFFICES ASSUME SumFunctionOnSet(f, S) \notin Int PROVE FALSE
  OBVIOUS
<1>1. K \subseteq Nat /\ K # {}
  BY FS_Subset, FS_CardinalityType DEF Ints
<1>2. PICK k \in K : \A j \in K : k <= j
  <2> HIDE DEF K
  <2> QED BY <1>1, NatMin
<1>3. PICK T \in SUBSET S : SumFunctionOnSet(f, T) \notin Int /\ k = Cardinality(T)
  BY <1>2
<1>4. IsFiniteSet(T) /\ T # {}
  <2>1. T # {}
    BY <1>3, SumEmpty
  <2> QED BY <1>3, <2>1, FS_Subset DEF Ints
<1> DEFINE c == Chosen(T)
<1>5. c \in T /\ f[c] \in Int
  BY <1>4 DEF Chosen, Ints
<1>6. k \in Nat /\ Cardinality(T \ {c}) = k - 1
  BY <1>1, <1>3, <1>4, <1>5, FS_RemoveElement
<1>7. SumFunctionOnSet(f, T \ {c}) \notin Int
  <2>1. SumFunctionOnSet(f, T) = f[c] + SumFunctionOnSet(f, T \ {c})
    BY <1>4, SumChosen
  <2> HIDE DEF c
  <2> QED BY <2>1, <1>3, <1>5
<1>8. k - 1 \in K
  BY <1>6, <1>7
<1> HIDE DEF K
<1> QED BY <1>2, <1>6, <1>8

\* The order of a sum does not matter.
LEMMA SumAny ==
  ASSUME NEW f, NEW S, Ints(f, S), NEW x \in S
  PROVE  SumFunctionOnSet(f, S) = f[x] + SumFunctionOnSet(f, S \ {x})
<1> DEFINE Fine(T) == \A y \in T : SumFunctionOnSet(f, T) = f[y] + SumFunctionOnSet(f, T \ {y})
           K == {Cardinality(T) : T \in {U \in SUBSET S : ~Fine(U)}}
<1> SUFFICES ASSUME ~Fine(S) PROVE FALSE
  OBVIOUS
<1>1. K \subseteq Nat /\ K # {}
  BY FS_Subset, FS_CardinalityType DEF Ints
<1>2. PICK k \in K : \A j \in K : k <= j
  <2> HIDE DEF K
  <2> QED BY <1>1, NatMin
<1>3. PICK T \in SUBSET S : ~Fine(T) /\ k = Cardinality(T)
  BY <1>2
<1>4. PICK y \in T : SumFunctionOnSet(f, T) # f[y] + SumFunctionOnSet(f, T \ {y})
  BY <1>3
<1>5. IsFiniteSet(T) /\ T # {}
  BY <1>3, <1>4, FS_Subset DEF Ints
<1>6. PICK c : c = Chosen(T)
  OBVIOUS
<1>7. c \in T
  BY <1>5, <1>6 DEF Chosen
<1>8. SumFunctionOnSet(f, T) = f[c] + SumFunctionOnSet(f, T \ {c})
  BY <1>5, <1>6, SumChosen
<1>9. c # y
  BY <1>4, <1>8
<1>10. \A z \in T : Fine(T \ {z})
  <2> SUFFICES ASSUME NEW z \in T, ~Fine(T \ {z}) PROVE FALSE
    OBVIOUS
  <2>1. k \in Nat /\ Cardinality(T \ {z}) = k - 1
    BY <1>1, <1>3, <1>5, FS_RemoveElement
  <2>2. k - 1 \in K
    BY <2>1
  <2> HIDE DEF K
  <2> QED BY <1>2, <2>1, <2>2
<1> DEFINE U == (T \ {c}) \ {y}
<1>11. SumFunctionOnSet(f, T \ {c}) = f[y] + SumFunctionOnSet(f, U)
  BY <1>9, <1>7, <1>10
<1>12. (T \ {y}) \ {c} = U
  OBVIOUS
<1>13. SumFunctionOnSet(f, T \ {y}) = f[c] + SumFunctionOnSet(f, U)
  BY <1>9, <1>7, <1>10, <1>12
<1>14. Ints(f, U)
  BY FS_Subset, <1>5 DEF Ints
<1>15. f[y] \in Int /\ f[c] \in Int /\ SumFunctionOnSet(f, U) \in Int
  BY <1>7, <1>14, SumInt DEF Ints
<1> QED BY <1>4, <1>8, <1>11, <1>13, <1>15

\* One more element adds its value.
LEMMA SumAdd ==
  ASSUME NEW f, NEW S, NEW x, x \notin S, Ints(f, S \cup {x})
  PROVE  SumFunctionOnSet(f, S \cup {x}) = SumFunctionOnSet(f, S) + f[x]
<1>1. (S \cup {x}) \ {x} = S
  OBVIOUS
<1>2. SumFunctionOnSet(f, S \cup {x}) = f[x] + SumFunctionOnSet(f, S)
  BY <1>1, SumAny
<1>3. Ints(f, S)
  BY FS_Subset DEF Ints
<1>4. SumFunctionOnSet(f, S) \in Int /\ f[x] \in Int
  BY <1>3, SumInt DEF Ints
<1> QED BY <1>2, <1>4

\* Functions that agree on a set have the same sum over it.
LEMMA SumSame ==
  ASSUME NEW f, NEW h, NEW S, Ints(f, S), \A x \in S : h[x] = f[x]
  PROVE  SumFunctionOnSet(h, S) = SumFunctionOnSet(f, S)
<1> DEFINE Good == {T \in SUBSET S : SumFunctionOnSet(h, T) = SumFunctionOnSet(f, T)}
<1>1. {} \in Good
  BY SumEmpty
<1>2. ASSUME NEW T \in SUBSET S, NEW x \in S \ T, T \in Good PROVE T \cup {x} \in Good
  <2>1. Ints(f, T \cup {x}) /\ Ints(h, T \cup {x})
    BY FS_Subset DEF Ints
  <2> QED BY <1>2, <2>1, SumAdd
<1>3. IsFiniteSet(S)
  BY DEF Ints
<1>4. S \in Good
  <2> HIDE DEF Good
  <2> QED BY <1>1, <1>2, <1>3, SubsetInduction
<1> QED BY <1>4

\* Disjoint sets add up.
LEMMA SumUnion ==
  ASSUME NEW f, NEW S, NEW T, Ints(f, S), Ints(f, T), S \cap T = {}
  PROVE  SumFunctionOnSet(f, S \cup T) = SumFunctionOnSet(f, S) + SumFunctionOnSet(f, T)
<1> DEFINE Good == {U \in SUBSET T : SumFunctionOnSet(f, S \cup U) =
                        SumFunctionOnSet(f, S) + SumFunctionOnSet(f, U)}
<1>1. {} \in Good
  <2>1. S \cup {} = S /\ SumFunctionOnSet(f, S) \in Int
    BY SumInt
  <2> QED BY <2>1, SumEmpty
<1>2. ASSUME NEW U \in SUBSET T, NEW x \in T \ U, U \in Good PROVE U \cup {x} \in Good
  <2>1. Ints(f, U) /\ Ints(f, U \cup {x}) /\ Ints(f, (S \cup U) \cup {x}) /\ x \notin S \cup U
    BY FS_Subset, FS_Union DEF Ints
  <2>2. S \cup (U \cup {x}) = (S \cup U) \cup {x}
    OBVIOUS
  <2>3. SumFunctionOnSet(f, S \cup (U \cup {x})) = SumFunctionOnSet(f, S \cup U) + f[x]
    BY <2>1, <2>2, SumAdd
  <2>4. SumFunctionOnSet(f, U \cup {x}) = SumFunctionOnSet(f, U) + f[x]
    BY <2>1, SumAdd
  <2>5. f[x] \in Int /\ SumFunctionOnSet(f, S) \in Int /\ SumFunctionOnSet(f, U) \in Int
    BY <2>1, SumInt DEF Ints
  <2> QED BY <1>2, <2>3, <2>4, <2>5
<1>3. IsFiniteSet(T)
  BY DEF Ints
<1>4. T \in Good
  <2> HIDE DEF Good
  <2> QED BY <1>1, <1>2, <1>3, SubsetInduction
<1> QED BY <1>4

\* A sum over a collection of disjoint sets is the sum of their sums.
LEMMA SumOfSums ==
  ASSUME NEW f, NEW P, IsFiniteSet(P), \A t \in P : Ints(f, t),
         \A t, u \in P : t # u => t \cap u = {}
  PROVE  /\ Ints(f, UNION P)
         /\ SumFunction([t \in P |-> SumFunctionOnSet(f, t)]) = SumFunctionOnSet(f, UNION P)
<1> DEFINE part == [t \in P |-> SumFunctionOnSet(f, t)]
           Good == {Q \in SUBSET P : /\ Ints(f, UNION Q)
                      /\ SumFunctionOnSet(part, Q) = SumFunctionOnSet(f, UNION Q)}
<1>1. {} \in Good
  <2>1. UNION {} = {} /\ Ints(f, {})
    BY FS_EmptySet DEF Ints
  <2>2. SumFunctionOnSet(part, {}) = 0 /\ SumFunctionOnSet(f, {}) = 0
    BY SumEmpty
  <2> HIDE DEF part
  <2> QED BY <2>1, <2>2
<1>2. ASSUME NEW Q \in SUBSET P, NEW t \in P \ Q, Q \in Good PROVE Q \cup {t} \in Good
  <2>1. UNION (Q \cup {t}) = (UNION Q) \cup t /\ (UNION Q) \cap t = {}
    OBVIOUS
  <2>2. Ints(f, UNION Q) /\ Ints(f, t)
    BY <1>2
  <2>3. Ints(f, UNION (Q \cup {t}))
    <3>1. IsFiniteSet((UNION Q) \cup t)
      BY <2>2, FS_Union DEF Ints
    <3>2. \A y \in UNION Q : f[y] \in Int
      BY <2>2 DEF Ints
    <3>3. \A y \in t : f[y] \in Int
      BY <2>2 DEF Ints
    <3>4. \A y \in UNION (Q \cup {t}) : y \in UNION Q \/ y \in t
      OBVIOUS
    <3> QED BY <2>1, <3>1, <3>2, <3>3, <3>4 DEF Ints
  <2>4. SumFunctionOnSet(f, UNION (Q \cup {t})) =
          SumFunctionOnSet(f, UNION Q) + SumFunctionOnSet(f, t)
    BY <2>1, <2>2, SumUnion
  <2>5. \A u \in P : part[u] = SumFunctionOnSet(f, u) /\ part[u] \in Int
    BY SumInt
  <2>6. IsFiniteSet(Q \cup {t})
    BY FS_Subset
  <2>7. Ints(part, Q \cup {t})
    <3> HIDE DEF part
    <3> QED BY <2>5, <2>6 DEF Ints
  <2>8. SumFunctionOnSet(part, Q \cup {t}) = SumFunctionOnSet(part, Q) + part[t]
    <3> HIDE DEF part
    <3> QED BY <2>7, SumAdd
  <2> QED BY <1>2, <2>3, <2>4, <2>5, <2>8
<1>3. P \in Good
  <2> HIDE DEF Good
  <2> QED BY <1>1, <1>2, SubsetInduction
<1> QED BY <1>3 DEF SumFunction

\* The sizes of disjoint sets add up to that of their union.
LEMMA SumCards ==
  ASSUME NEW F, NEW S, IsFiniteSet(S), \A x \in S : IsFiniteSet(F[x]),
         \A x, y \in S : x # y => F[x] \cap F[y] = {}
  PROVE  /\ IsFiniteSet(UNION {F[x] : x \in S})
         /\ Cardinality(UNION {F[x] : x \in S}) =
              SumFunction([x \in S |-> Cardinality(F[x])])
<1> DEFINE size == [x \in S |-> Cardinality(F[x])]
           All(T) == UNION {F[x] : x \in T}
           Good == {T \in SUBSET S : /\ IsFiniteSet(All(T))
                                     /\ Cardinality(All(T)) = SumFunctionOnSet(size, T)}
<1>1. {} \in Good
  <2>1. All({}) = {} /\ SumFunctionOnSet(size, {}) = 0
    BY SumEmpty
  <2> HIDE DEF All, size
  <2> QED BY <2>1, FS_EmptySet
<1>2. ASSUME NEW T \in SUBSET S, NEW x \in S \ T, T \in Good PROVE T \cup {x} \in Good
  <2>1. All(T \cup {x}) = All(T) \cup F[x] /\ All(T) \cap F[x] = {}
    OBVIOUS
  <2>2. IsFiniteSet(All(T)) /\ IsFiniteSet(F[x])
    BY <1>2
  <2>3. /\ IsFiniteSet(All(T) \cup F[x])
        /\ Cardinality(All(T) \cup F[x]) = Cardinality(All(T)) + Cardinality(F[x]) - Cardinality({})
    <3> HIDE DEF All
    <3> QED BY <2>1, <2>2, FS_Union
  <2>4. \A y \in S : size[y] = Cardinality(F[y]) /\ size[y] \in Int
    BY FS_CardinalityType
  <2>5. Cardinality({}) = 0 /\ Cardinality(All(T)) \in Int
    BY <2>2, FS_EmptySet, FS_CardinalityType
  <2>6. IsFiniteSet(T \cup {x})
    BY FS_Subset
  <2>7. Ints(size, T \cup {x})
    <3> HIDE DEF size
    <3> QED BY <2>4, <2>6 DEF Ints
  <2>8. SumFunctionOnSet(size, T \cup {x}) = SumFunctionOnSet(size, T) + size[x]
    <3> HIDE DEF size
    <3> QED BY <2>7, SumAdd
  <2>9. Cardinality(All(T \cup {x})) = Cardinality(All(T)) + size[x]
    <3>1. size[x] = Cardinality(F[x]) /\ size[x] \in Int
      BY <2>4
    <3>2. Cardinality(All(T) \cup F[x]) = Cardinality(All(T)) + size[x]
      <4> HIDE DEF All, size
      <4> QED BY <2>3, <2>5, <3>1
    <3> HIDE DEF All, size
    <3> QED BY <2>1, <3>2
  <2> HIDE DEF All, size
  <2> QED BY <1>2, <2>1, <2>3, <2>8, <2>9
<1>3. S \in Good
  <2> HIDE DEF Good
  <2> QED BY <1>1, <1>2, SubsetInduction
<1> QED BY <1>3 DEF SumFunction

\* A constant is multiplied by the size of the set.
LEMMA SumConstant ==
  ASSUME NEW f, NEW S, NEW k \in Int, IsFiniteSet(S), \A x \in S : f[x] = k
  PROVE  SumFunctionOnSet(f, S) = k * Cardinality(S)
<1> DEFINE Good == {T \in SUBSET S : SumFunctionOnSet(f, T) = k * Cardinality(T)}
<1>1. {} \in Good
  BY SumEmpty, FS_EmptySet
<1>2. ASSUME NEW T \in SUBSET S, NEW x \in S \ T, T \in Good PROVE T \cup {x} \in Good
  <2>1. Ints(f, T \cup {x})
    BY FS_Subset DEF Ints
  <2>2. SumFunctionOnSet(f, T \cup {x}) = SumFunctionOnSet(f, T) + k
    BY <2>1, SumAdd
  <2>3. Cardinality(T) \in Nat /\ Cardinality(T \cup {x}) = Cardinality(T) + 1
    BY FS_Subset, FS_AddElement, FS_CardinalityType
  <2>4. \A c \in Nat : k * c + k = k * (c + 1)
    OBVIOUS
  <2> QED BY <1>2, <2>2, <2>3, <2>4
<1>3. S \in Good
  <2> HIDE DEF Good
  <2> QED BY <1>1, <1>2, SubsetInduction
<1> QED BY <1>3

\* A sum of values that are not negative is not negative.
LEMMA SumAtLeast ==
  ASSUME NEW f, NEW S, Ints(f, S), \A x \in S : f[x] >= 0
  PROVE  SumFunctionOnSet(f, S) >= 0
<1> DEFINE Good == {T \in SUBSET S : SumFunctionOnSet(f, T) >= 0}
<1>1. {} \in Good
  BY SumEmpty
<1>2. ASSUME NEW T \in SUBSET S, NEW x \in S \ T, T \in Good PROVE T \cup {x} \in Good
  <2>1. Ints(f, T \cup {x}) /\ Ints(f, T)
    BY FS_Subset DEF Ints
  <2>2. SumFunctionOnSet(f, T \cup {x}) = SumFunctionOnSet(f, T) + f[x]
    BY <2>1, SumAdd
  <2>3. SumFunctionOnSet(f, T) \in Int /\ f[x] \in Int /\ f[x] >= 0
    BY <2>1, SumInt DEF Ints
  <2> QED BY <1>2, <2>2, <2>3
<1>3. IsFiniteSet(S)
  BY DEF Ints
<1>4. S \in Good
  <2> HIDE DEF Good
  <2> QED BY <1>1, <1>2, <1>3, SubsetInduction
<1> QED BY <1>4

-----------------------------------------------------------------------------
(* The rules.                                                              *)

\* Rules that are played, at a table they are for.
Table(r, k) == r \in RuleSets /\ k \in TableSizes(r)

\* Rules that are played are typed, accepted by validateRulesDsl, modelled and
\* playable.
LEMMA RulesHold ==
  ASSUME NEW r \in RuleSets
  PROVE  /\ WellTyped(r) /\ Modelled(r) /\ Playable(r)
         /\ ValidPlayers(r) /\ ValidDeck(r) /\ ValidTrump(r) /\ ValidBidding(r)
         /\ ValidScoring(r)
BY RulesAssumption DEF RuleSets, Accepted, ValidRules

\* A table has at least two seats, numbered from zero.
LEMMA SeatsHold ==
  ASSUME NEW r, NEW k, Table(r, k)
  PROVE  /\ k \in Nat /\ k >= 2 /\ k >= r.min /\ k <= r.max
         /\ Seats(k) = 0..(k - 1) /\ IsFiniteSet(Seats(k)) /\ Cardinality(Seats(k)) = k
<1>1. r.min \in Int /\ r.max \in Int /\ r.min >= 2
  BY RulesHold DEF WellTyped, ValidPlayers, Table
<1>2. k \in Nat /\ k >= 2 /\ k >= r.min /\ k <= r.max
  BY <1>1 DEF Table, TableSizes
<1>3. Seats(k) = 0..(k - 1)
  BY DEF Seats
<1> QED BY <1>2, <1>3, FS_Interval

\* Seat b sits so many places after seat a.
Places(k, a, b) == IF a <= b THEN b - a ELSE b - a + k

\* The seat after the last is the first.
LEMMA NextSeat ==
  ASSUME NEW k \in Nat, k >= 2, NEW s \in Seats(k)
  PROVE  /\ SeatAfter(k, s) = IF s = k - 1 THEN 0 ELSE s + 1
         /\ SeatAfter(k, s) \in Seats(k)
<1>1. s \in Int /\ 0 <= s /\ s < k
  BY DEF Seats
<1>2. CASE s = k - 1
  BY <1>1, <1>2 DEF SeatAfter, Seats
<1>3. CASE s # k - 1
  BY <1>1, <1>3 DEF SeatAfter, Seats
<1> QED BY <1>2, <1>3

\* A list without duplicates has as many members as places.
LEMMA ListHolds ==
  ASSUME NEW p, p \in Seq(Range(p)), IsInjective(p)
  PROVE  IsFiniteSet(Range(p)) /\ Cardinality(Range(p)) = Len(p)
<1> DEFINE L == Len(p)
           T == Range(p)
<1>1. L \in Nat /\ DOMAIN p = 1..L
  OBVIOUS
<1>2. IsFiniteSet(1..L) /\ Cardinality(1..L) = L
  BY <1>1, FS_Interval
<1>3. p \in Surjection(1..L, T)
  BY <1>1 DEF Surjection, Range
<1>4. p \in Injection(1..L, T)
  BY <1>1, <1>3 DEF Surjection, Injection, IsInjective
<1> QED BY <1>2, <1>3, <1>4, FS_Surjection

\* The deck is finite, of the size the rules announce, each card of a suit and a rank.
LEMMA DeckHolds ==
  ASSUME NEW r \in RuleSets
  PROVE  /\ IsFiniteSet(Deck(r)) /\ Cardinality(Deck(r)) = TotalCards(r)
         /\ TotalCards(r) \in Nat
         /\ \A c \in Deck(r) : Suit(c) \in Suits(r) /\ Rank(c) \in Range(r.rankOrder)
<1>1. /\ r.suits \in Seq(Range(r.suits)) /\ r.ranks \in Seq(Range(r.ranks))
      /\ IsInjective(r.suits) /\ IsInjective(r.ranks)
      /\ r.excluded \subseteq Grid(r) /\ Range(r.ranks) \subseteq Range(r.rankOrder)
  BY RulesHold DEF WellTyped, ValidDeck, Modelled, OneOfEach
<1>2. IsFiniteSet(Suits(r)) /\ Cardinality(Suits(r)) = Len(r.suits)
  BY <1>1, ListHolds DEF Suits
<1>3. IsFiniteSet(Range(r.ranks)) /\ Cardinality(Range(r.ranks)) = Len(r.ranks)
  BY <1>1, ListHolds
<1>4. IsFiniteSet(Grid(r)) /\ Cardinality(Grid(r)) = Len(r.suits) * Len(r.ranks)
  BY <1>2, <1>3, FS_Product DEF Grid
<1>5. Grid(r) \cap r.excluded = r.excluded
  BY <1>1
<1>6. /\ IsFiniteSet(Deck(r))
      /\ Cardinality(Deck(r)) = Cardinality(Grid(r)) - Cardinality(r.excluded)
  <2>1. /\ IsFiniteSet(Grid(r) \ r.excluded)
        /\ Cardinality(Grid(r) \ r.excluded) =
             Cardinality(Grid(r)) - Cardinality(Grid(r) \cap r.excluded)
    BY <1>4, FS_Difference
  <2> QED BY <2>1, <1>5 DEF Deck
<1>7. Cardinality(Deck(r)) = TotalCards(r) /\ TotalCards(r) \in Nat
  BY <1>4, <1>6, FS_CardinalityType DEF TotalCards
<1>8. \A c \in Deck(r) : Suit(c) \in Suits(r) /\ Rank(c) \in Range(r.rankOrder)
  BY <1>1 DEF Deck, Grid, Suit, Rank
<1> QED BY <1>6, <1>7, <1>8

\* resolveDeal: every hand has a card or more, and the kitty what is left over.
LEMMA HandSizes ==
  ASSUME NEW r, NEW k, Table(r, k), NEW i \in Nat, i >= 1
  PROVE  LET size == HandSize(r, k, i) IN
         /\ size \in Nat /\ size >= 1
         /\ KittySize(r, k, i) = TotalCards(r) - size * k
         /\ KittySize(r, k, i) \in Nat
<1>1. k \in Nat /\ k >= 2 /\ k <= r.max /\ TotalCards(r) \in Nat /\ k >= r.min
  BY SeatsHold, DeckHolds DEF Table
<1>2. r.max \in Int /\ r.min \in Int /\ DealTyped(r.deal) /\ ValidDeal(r)
  BY RulesHold DEF Table, WellTyped, ValidDeck
<1>3. CASE r.deal.mode = "fixed"
  <2>1. r.deal.handSize \in Int /\ r.deal.kittySize \in Int /\ r.min = r.max /\ r.deal.handSize > 0
        /\ r.deal.kittySize >= 0
        /\ r.deal.unit * TotalCards(r) = r.deal.handSize * r.min + r.deal.kittySize
    BY <1>2, <1>3 DEF DealTyped, ValidDeal
  <2>4. r.deal.unit = 1
    BY <1>3, RulesHold DEF Playable, Unit, Table
  <2>2. k = r.min
    BY <1>1, <1>2, <2>1
  <2>3. HandSize(r, k, i) = r.deal.handSize /\ KittySize(r, k, i) = r.deal.kittySize
    BY <1>3 DEF HandSize, KittySize
  <2> QED BY <1>1, <2>1, <2>2, <2>3, <2>4
<1>4. CASE r.deal.mode = "schedule"
  <2> DEFINE L == Len(r.deal.handSizes)
             j == ((i - 1) % L) + 1
  <2>1. r.deal.handSizes \in Seq(Int) /\ L > 0
        /\ \A z \in Range(r.deal.handSizes) : z >= 1 /\ z * r.max <= TotalCards(r)
    BY <1>2, <1>4 DEF DealTyped, ValidDeal
  <2>2. L \in Nat /\ j \in 1..L
    <3>1. \A a, b \in Nat : b > 0 => a % b \in 0..(b - 1)
      OBVIOUS
    <3>2. L \in Nat /\ i - 1 \in Nat
      BY <2>1
    <3>3. (i - 1) % L \in 0..(L - 1)
      BY <2>1, <3>1, <3>2
    <3> HIDE DEF L
    <3> QED BY <3>2, <3>3
  <2>3. HandSize(r, k, i) = r.deal.handSizes[j]
    BY <1>4 DEF HandSize
  <2>4. r.deal.handSizes[j] \in Range(r.deal.handSizes) /\ r.deal.handSizes[j] \in Int
    <3> HIDE DEF j
    <3> QED BY <2>1, <2>2 DEF Range
  <2>5. PICK z \in Int : z = HandSize(r, k, i) /\ z >= 1 /\ z * r.max <= TotalCards(r)
    BY <2>1, <2>3, <2>4
  <2>6. z * k <= z * r.max
    <3>1. \A a, b, c \in Int : a >= 0 /\ b <= c => a * b <= a * c
      <4> SUFFICES ASSUME NEW a \in Int, NEW b \in Int, NEW c \in Int, a >= 0, b <= c
                   PROVE  a * b <= a * c
        OBVIOUS
      <4>1. a * c - a * b = a * (c - b) /\ a * (c - b) >= 0
        OBVIOUS
      <4> QED BY <4>1
    <3> QED BY <2>5, <1>1, <1>2, <3>1
  <2>7. z * k <= TotalCards(r)
    BY <2>5, <2>6, <1>1, <1>2
  <2>8. KittySize(r, k, i) = TotalCards(r) - z * k
    BY <2>5, <1>4 DEF KittySize
  <2> QED BY <1>1, <2>5, <2>7, <2>8
<1>5. CASE r.deal.mode \notin {"fixed", "schedule"}
  <2>1. TotalCards(r) \div k >= 1
    BY <1>2, <1>5 DEF ValidDeal, Table
  <2>2. HandSize(r, k, i) = TotalCards(r) \div k
    BY <1>5 DEF HandSize
  <2>3. \A a \in Nat, b \in Nat : b >= 2 => a \div b \in Nat /\ (a \div b) * b <= a
    OBVIOUS
  <2>4. (TotalCards(r) \div k) * k <= TotalCards(r) /\ TotalCards(r) \div k \in Nat
    BY <2>3, <1>1
  <2>5. KittySize(r, k, i) = TotalCards(r) - HandSize(r, k, i) * k
    BY <1>5 DEF KittySize
  <2> QED BY <1>1, <2>1, <2>2, <2>4, <2>5
<1> QED BY <1>3, <1>4, <1>5

\* The sides share out the seats.
LEMMA TeamsHold ==
  ASSUME NEW r, NEW k, Table(r, k)
  PROVE  /\ IsFiniteSet(Teams(r, k)) /\ Teams(r, k) # {}
         /\ UNION Teams(r, k) = Seats(k)
         /\ \A t, u \in Teams(r, k) : t # u => t \cap u = {}
         /\ \A t \in Teams(r, k) : t \subseteq Seats(k) /\ IsFiniteSet(t)
         /\ \A s \in Seats(k) : TeamOf(r, k, s) \in Teams(r, k) /\ s \in TeamOf(r, k, s)
         /\ \A t \in Teams(r, k) : \A s \in t : t = TeamOf(r, k, s)
<1>1. k \in Nat /\ k >= 2 /\ IsFiniteSet(Seats(k)) /\ 0 \in Seats(k)
  BY SeatsHold DEF Seats
<1>2. /\ IsFiniteSet(Teams(r, k)) /\ Teams(r, k) # {}
      /\ UNION Teams(r, k) = Seats(k)
      /\ \A t, u \in Teams(r, k) : t # u => t \cap u = {}
  <2>1. CASE r.pairs
    <3> DEFINE m == r.teams[k]
    <3>1. Len(m) >= 2 /\ UNION Range(m) = Seats(k)
          /\ \A i, j \in DOMAIN m : i # j => m[i] \cap m[j] = {}
      BY <2>1, RulesHold DEF Table, ValidPlayers
    <3>2. Teams(r, k) = Range(m)
      BY <2>1 DEF Teams
    <3>3. Range(m) \subseteq SUBSET Seats(k)
      BY <3>1
    <3>4. IsFiniteSet(SUBSET Seats(k))
      BY <1>1, FS_SUBSET
    <3>5. IsFiniteSet(Range(m))
      BY <3>3, <3>4, FS_Subset
    <3>6. Range(m) # {}
      BY <3>1, <1>1
    <3>7. \A t, u \in Range(m) : t # u => t \cap u = {}
      BY <3>1 DEF Range
    <3> HIDE DEF m
    <3> QED BY <3>1, <3>2, <3>5, <3>6, <3>7
  <2>2. CASE ~r.pairs
    <3> DEFINE one == [s \in Seats(k) |-> {s}]
               T == {{s} : s \in Seats(k)}
    <3>1. Teams(r, k) = T
      BY <2>2 DEF Teams
    <3>2. T \subseteq SUBSET Seats(k) /\ IsFiniteSet(SUBSET Seats(k))
      BY <1>1, FS_SUBSET
    <3>3. IsFiniteSet(T)
      BY <3>2, FS_Subset
    <3>4. UNION T = Seats(k) /\ T # {} /\ \A t, u \in T : t # u => t \cap u = {}
      BY <1>1
    <3> HIDE DEF T
    <3> QED BY <3>1, <3>3, <3>4
  <2> QED BY <2>1, <2>2
<1>3. \A t \in Teams(r, k) : t \subseteq Seats(k) /\ IsFiniteSet(t)
  BY <1>1, <1>2, FS_Subset
<1>4. \A s \in Seats(k) : TeamOf(r, k, s) \in Teams(r, k) /\ s \in TeamOf(r, k, s)
  BY <1>2 DEF TeamOf
<1>5. \A t \in Teams(r, k) : \A s \in t : t = TeamOf(r, k, s)
  BY <1>2, <1>3, <1>4
<1> QED BY <1>2, <1>3, <1>4, <1>5

\* An optional field yields its element or the default.
LEMMA OptionHolds == \A opt, default : OrElse(opt, default) = default \/ OrElse(opt, default) \in opt
BY DEF OrElse

\* handLimit: a match has at least one hand to play.
LEMMA LimitHolds ==
  ASSUME NEW r \in RuleSets, NEW x, ValidHandLimit(x)
  PROVE  HandLimit(r, x) \in Int /\ HandLimit(r, x) >= 1
<1>1. r.maxHands \subseteq 1..HandsCeiling /\ x \subseteq 1..HandsCeiling
  BY RulesHold DEF ValidScoring, ValidHandLimit
<1>2. PICK z : z = IF r.target # {} THEN HandsCeiling ELSE 1
  OBVIOUS
<1>3. OrElse(r.maxHands, z) \in 1..HandsCeiling
  BY <1>1, <1>2, OptionHolds DEF HandsCeiling
<1>4. HandLimit(r, x) \in 1..HandsCeiling
  BY <1>1, <1>2, <1>3, OptionHolds DEF HandLimit
<1> QED BY <1>4 DEF HandsCeiling

\* A hand is bid, where there is a bidding, its trump named, played and scored.
LEMMA PhasesHold ==
  ASSUME NEW r \in RuleSets
  PROVE  /\ r.bidding # {} => FirstPhase(r) = "BIDDING"
         /\ r.bidding = {} => FirstPhase(r) = AfterBidding(r)
         /\ r.bidding # {} => PhaseAfter(r, "BIDDING") = AfterBidding(r)
         /\ AfterBidding(r) = "PLAYING" \/ AfterBidding(r) = "TRUMP_SELECTION"
         /\ AfterBidding(r) = "TRUMP_SELECTION" =>
              /\ PhaseAfter(r, "TRUMP_SELECTION") = "PLAYING"
              /\ r.trump.mode \in {"hidden", "bid-selected", "chooser"}
              /\ IF r.bidding = {} THEN r.trump.mode = "chooser" ELSE NamesTrump(r)
         /\ PhaseAfter(r, "PLAYING") = "SCORING"
<1>1. Playable(r)
  BY RulesHold
<1>2. \A x, d : OrElse({x}, d) = x
  BY DEF OrElse
<1> QED BY <1>1, <1>2 DEF Playable, PhaseAfter, AfterBidding

\* A rank has one strength, and no two cards of a suit share one.
LEMMA StrengthHolds ==
  ASSUME NEW r \in RuleSets
  PROVE  /\ \A c \in Deck(r) : Strength(r, c) \in 1..MaxRanks
         /\ \A c, d \in Deck(r) :
              Suit(c) = Suit(d) /\ Strength(r, c) = Strength(r, d) => c = d
<1>1. r.rankOrder \in Seq(Range(r.rankOrder)) /\ Len(r.rankOrder) <= MaxRanks
  BY RulesHold DEF WellTyped, ValidDeck
<1>2. \A c \in Deck(r) : Rank(c) \in Range(r.rankOrder)
  BY DeckHolds
<1>3. \A c \in Deck(r) : /\ Strength(r, c) \in DOMAIN r.rankOrder
                         /\ r.rankOrder[Strength(r, c)] = Rank(c)
  BY <1>2 DEF Strength, Range
<1>4. \A c \in Deck(r) : Strength(r, c) \in 1..MaxRanks
  <2>1. DOMAIN r.rankOrder = 1..Len(r.rankOrder) /\ Len(r.rankOrder) \in Nat
    BY <1>1
  <2> QED BY <2>1, <1>1, <1>3 DEF MaxRanks
<1>5. \A c \in Deck(r) : c = <<Suit(c), Rank(c)>>
  BY DEF Deck, Grid, Suit, Rank
<1> QED BY <1>3, <1>4, <1>5

-----------------------------------------------------------------------------
(* What cards are worth.                                                   *)

\* No set of cards is worth less than nothing.
LEMMA WorthHolds ==
  ASSUME NEW r \in RuleSets, NEW C, C \subseteq Deck(r)
  PROVE  PointsOf(r, C) \in Int /\ PointsOf(r, C) >= 0
<1> DEFINE f == [c \in C |-> CardPointValue(r, c)]
<1>1. \A c \in C : CardPointValue(r, c) \in Int /\ CardPointValue(r, c) >= 0
  BY RulesHold DEF WellTyped, Playable, Deck
<1>2. Ints(f, C) /\ \A c \in C : f[c] >= 0
  BY <1>1, DeckHolds, FS_Subset DEF Ints
<1>3. PointsOf(r, C) = SumFunctionOnSet(f, C)
  BY DEF PointsOf, SumFunction
<1> HIDE DEF f
<1> QED BY <1>2, <1>3, SumInt, SumAtLeast

\* Every seat is dealt a hand, the kitty the rest, and no card is boxed.
LEMMA DealtHolds ==
  ASSUME NEW r, NEW k, Table(r, k), NEW i \in Nat, i >= 1
  PROVE  /\ \A s \in Seats(k) : Dealt(r, k, i, s) = HandSize(r, k, i)
         /\ Dealt(r, k, i, k) = KittySize(r, k, i)
         /\ Boxed(r, k, i) = 0
<1> DEFINE H == HandSize(r, k, i)
           T == TotalCards(r)
           f == [s \in 0..k |-> Dealt(r, k, i, s)]
<1>1. k \in Nat /\ k >= 2 /\ H \in Nat /\ H >= 1 /\ T \in Nat
      /\ KittySize(r, k, i) = T - H * k /\ T - H * k >= 0
  <2>1. T \in Nat
    BY DeckHolds DEF Table
  <2>2. k \in Nat /\ k >= 2
    BY SeatsHold
  <2>3. H \in Nat /\ H >= 1 /\ KittySize(r, k, i) = T - H * k /\ KittySize(r, k, i) \in Nat
    BY HandSizes
  <2> HIDE DEF H, T
  <2> QED BY <2>1, <2>2, <2>3
<1>2. \A x \in Int : x <= T => Cut(r, x) = x
  <2>1. \A x \in Int : x \div 1 = x
    OBVIOUS
  <2>2. Unit(r) = 1
    BY RulesHold DEF Playable, Table
  <2> QED BY <1>1, <2>1, <2>2 DEF Cut, Least, T
<1>3. /\ \A s \in Seats(k) : Dealt(r, k, i, s) = H
      /\ Dealt(r, k, i, k) = KittySize(r, k, i)
  <2>1. H * k \in Int /\ H * k <= T
    BY <1>1
  <2>2. \A a, b, c \in Nat : b < c => a * b + a <= a * c
    <3> SUFFICES ASSUME NEW a \in Nat, NEW b \in Nat, NEW c \in Nat, b < c
                 PROVE  a * b + a <= a * c
      OBVIOUS
    <3>1. a * c - a * b = a * (c - b) /\ c - b >= 1 /\ a * (c - b) = a + a * (c - b - 1)
          /\ a * (c - b - 1) >= 0
      OBVIOUS
    <3> QED BY <3>1
  <2>3. ASSUME NEW s \in Seats(k) PROVE Dealt(r, k, i, s) = H
    <3>1. s \in Nat /\ s < k
      BY <1>1 DEF Seats
    <3>2. PICK x \in Int : x = s * H /\ x + H <= H * k
      <4>1. s * H \in Int /\ s * H = H * s
        BY <1>1, <3>1
      <4> QED BY <1>1, <3>1, <2>2, <4>1
    <3> HIDE DEF T
    <3>3. x <= T /\ x + H <= T /\ x + H \in Int
      BY <1>1, <2>1, <3>2
    <3>4. Cut(r, x) = x /\ Cut(r, x + H) = x + H
      BY <1>2, <3>2, <3>3
    <3>5. Dealt(r, k, i, s) = Cut(r, x + H) - Cut(r, x)
      BY <3>1, <3>2 DEF Dealt, H
    <3> QED BY <3>2, <3>4, <3>5, <1>1
  <2>4. Dealt(r, k, i, k) = KittySize(r, k, i)
    <3>1. PICK x \in Int : x = k * H /\ x = H * k
      BY <1>1
    <3>2. Dealt(r, k, i, k) = Cut(r, x + KittySize(r, k, i)) - Cut(r, x)
      BY <1>1, <3>1 DEF Dealt, H
    <3> HIDE DEF T
    <3>3. x + KittySize(r, k, i) = T /\ x <= T /\ KittySize(r, k, i) \in Int
      BY <1>1, <3>1
    <3>4. Cut(r, T) = T /\ Cut(r, x) = x
      BY <1>1, <1>2, <3>1, <3>3
    <3> QED BY <3>1, <3>2, <3>3, <3>4, <1>1
  <2> QED BY <2>3, <2>4
<1>4. \A s \in 0..(k - 1) : f[s] = H
  BY <1>1, <1>3 DEF Seats
<1>5. f[k] = KittySize(r, k, i)
  BY <1>1, <1>3
<1>6. Boxed(r, k, i) = T - SumFunctionOnSet(f, 0..k)
  BY DEF Boxed, SumFunction
<1> HIDE DEF f, H, T
<1>7. IsFiniteSet(0..(k - 1)) /\ Cardinality(0..(k - 1)) = k /\ k \notin 0..(k - 1)
      /\ 0..k = (0..(k - 1)) \cup {k} /\ IsFiniteSet(0..k)
  <2>1. IsFiniteSet(Seats(k)) /\ Cardinality(Seats(k)) = k /\ Seats(k) = 0..(k - 1)
    BY SeatsHold
  <2>2. k \notin 0..(k - 1) /\ 0..k = (0..(k - 1)) \cup {k}
    BY <1>1
  <2>3. IsFiniteSet(0..k)
    BY <1>1, FS_Interval
  <2>4. IsFiniteSet(0..(k - 1)) /\ Cardinality(0..(k - 1)) = k
    BY <2>1, Zenon
  <2> QED BY <2>2, <2>3, <2>4
<1>8. SumFunctionOnSet(f, 0..(k - 1)) = H * k
  <2>1. PICK S : S = 0..(k - 1)
    OBVIOUS
  <2>2. IsFiniteSet(S) /\ Cardinality(S) = k /\ (\A s \in S : f[s] = H) /\ H \in Int
    BY <1>1, <1>4, <1>7, <2>1
  <2>3. SumFunctionOnSet(f, S) = H * k
    BY <2>2, SumConstant
  <2> QED BY <2>1, <2>3
<1>9. Ints(f, (0..(k - 1)) \cup {k})
  <2>1. \A s \in (0..(k - 1)) \cup {k} : f[s] \in Int
    BY <1>1, <1>4, <1>5
  <2> QED BY <1>7, <2>1 DEF Ints
<1>10. SumFunctionOnSet(f, 0..k) = H * k + (T - H * k)
  <2>1. SumFunctionOnSet(f, (0..(k - 1)) \cup {k}) = SumFunctionOnSet(f, 0..(k - 1)) + f[k]
    BY <1>7, <1>9, SumAdd
  <2> QED BY <1>1, <1>5, <1>7, <1>8, <2>1
<1>11. Boxed(r, k, i) = 0
  <2>1. PICK m \in Int : m = H * k
    BY <1>1
  <2> QED BY <1>1, <1>6, <1>10, <2>1
<1> QED BY <1>2, <1>3, <1>11 DEF H

\* What a deal is: everybody a hand, the rest in the kitty.
Dealing(r, k, i, d) ==
  /\ d.hands \in [Seats(k) -> SUBSET Deck(r)] /\ d.kitty \in SUBSET Deck(r)
  /\ DOMAIN d.front = Seats(k)
  /\ \A s \in Seats(k) : d.front[s] \subseteq d.hands[s]
  /\ \A c \in Deck(r) : c \in d.kitty \/ \E s \in Seats(k) : c \in d.hands[s]
  /\ \A s \in Seats(k) : d.hands[s] \cap d.kitty = {}
  /\ \A s, u \in Seats(k) : s # u => d.hands[s] \cap d.hands[u] = {}
  /\ \A s \in Seats(k) : Cardinality(d.hands[s]) = HandSize(r, k, i)
  /\ Cardinality(d.kitty) = KittySize(r, k, i)

\* A deal shares out the deck.
LEMMA DealsHold ==
  ASSUME NEW r, NEW k, Table(r, k), NEW i \in Nat, i >= 1, NEW d \in Deals(r, k, i)
  PROVE  Dealing(r, k, i, d)
<1> DEFINE cards(p, s) == {c \in Deck(r) : p[c] = s}
           place == {p \in [Deck(r) -> 0..(IF Boxed(r, k, i) = 0 THEN k ELSE k + 1)] :
                      \A s \in 0..k : Cardinality(cards(p, s)) = Dealt(r, k, i, s)}
<1> DEFINE held(p, s) == Cardinality(cards(p, s))
           size(p, s) == Least(held(p, s), OrElse(StagedSize(r, "BIDDING"), held(p, s)))
           fronts(p) ==
             {f \in [Seats(k) -> UNION {kSubset(size(p, s), cards(p, s)) : s \in Seats(k)}] :
                \A s \in Seats(k) :
                  f[s] \subseteq cards(p, s) /\ Cardinality(f[s]) = size(p, s)}
           tops(p) == IF r.trump.mode = "kitty-turnup" THEN kSubset(1, cards(p, k)) ELSE {{}}
           deal(p, f, t) == [hands |-> [s \in Seats(k) |-> cards(p, s)], front |-> f,
                             kitty |-> cards(p, k), top |-> t]
<1>1. PICK p \in place :
        /\ d.hands = [s \in Seats(k) |-> cards(p, s)]
        /\ d.kitty = cards(p, k)
        /\ DOMAIN d.front = Seats(k)
        /\ \A s \in Seats(k) : d.front[s] \subseteq cards(p, s)
  <2>2. d \in UNION {{deal(p, f, t) : f \in fronts(p), t \in tops(p)} : p \in place}
    <3>1. Deals(r, k, i) = UNION {{deal(p, f, t) : f \in fronts(p), t \in tops(p)} : p \in place}
      BY DEF Deals
    <3> HIDE DEF deal, fronts, tops, place
    <3> QED BY <3>1
  <2>3. PICK p \in place : d \in {deal(p, f, t) : f \in fronts(p), t \in tops(p)}
    <3> HIDE DEF deal, fronts, tops, place
    <3> QED BY <2>2
  <2>4. PICK f \in fronts(p), t \in tops(p) : d = deal(p, f, t)
    <3> HIDE DEF deal, fronts, tops, place
    <3> QED BY <2>3
  <2>5. d.hands = [s \in Seats(k) |-> cards(p, s)] /\ d.kitty = cards(p, k) /\ d.front = f
    <3> HIDE DEF cards, fronts
    <3> QED BY <2>4
  <2>6. DOMAIN f = Seats(k) /\ \A s \in Seats(k) : f[s] \subseteq cards(p, s)
    <3> HIDE DEF cards, size
    <3> QED OBVIOUS
  <2> HIDE DEF cards, fronts, place
  <2> QED BY <2>5, <2>6
<1>2. k \in Nat /\ Seats(k) = 0..(k - 1)
  BY SeatsHold
<1>3. \A s \in Seats(k) : s \in 0..k /\ s # k
  BY <1>2
<1>4. \A s \in 0..k : s \in Seats(k) \/ s = k
  BY <1>2
<1>5. k \in 0..k
  BY <1>2
<1>6. p \in [Deck(r) -> 0..k] /\ \A s \in 0..k : Cardinality(cards(p, s)) = Dealt(r, k, i, s)
  <2>1. Boxed(r, k, i) = 0
    BY DealtHolds
  <2>2. (IF Boxed(r, k, i) = 0 THEN k ELSE k + 1) = k
    BY <2>1
  <2> QED BY <2>2
<1>7. \A c \in Deck(r) : c \in cards(p, k) \/ \E s \in Seats(k) : c \in cards(p, s)
  BY <1>4, <1>6
<1>8. /\ \A s \in Seats(k) : Cardinality(cards(p, s)) = HandSize(r, k, i)
      /\ Cardinality(cards(p, k)) = KittySize(r, k, i)
  <2> HIDE DEF cards
  <2> QED BY <1>3, <1>5, <1>6, DealtHolds
<1>9. /\ \A s \in Seats(k) : cards(p, s) \cap cards(p, k) = {}
      /\ \A s, u \in Seats(k) : s # u => cards(p, s) \cap cards(p, u) = {}
      /\ \A s \in 0..k : cards(p, s) \subseteq Deck(r)
  BY <1>3
<1> HIDE DEF cards, place
<1> QED BY <1>1, <1>3, <1>5, <1>7, <1>8, <1>9 DEF Dealing

-----------------------------------------------------------------------------
(* What a card played does to a position.                                  *)

\* The fields of a position.
Fields ==
  {"number", "phase", "dealer", "turn", "declarer", "trump", "revealed",
   "pendingTrumpReveal", "hands", "front", "kitty", "trick", "lead",
   "completedTricks", "broken", "won", "points", "bid", "scores", "bags", "rough",
   "lastResult"}

Shape(p) == p = [f \in Fields |-> p[f]]

\* The suit led, the trump and the table once c is on it.
LeadWith(p, c) == IF p.trick = << >> THEN {Suit(c)} ELSE p.lead
Fixes(r, p) == r.trump.mode = "declared-by-lead" /\ p.trick = << >> /\ p.trump = {}
TrumpWith(r, p, c) == IF Fixes(r, p) THEN {Suit(c)} ELSE p.trump
ShownWith(r, p, c) == IF p.revealed \/ Fixes(r, p) THEN TrumpWith(r, p, c) ELSE {}
TableWith(p, c) == Append(p.trick, <<p.turn, c>>)

\* What laying card c does in any case.
Laid(r, p, c, q) ==
  /\ Shape(q)
  /\ q.number = p.number /\ q.dealer = p.dealer /\ q.declarer = p.declarer
  /\ q.front = p.front /\ q.kitty = p.kitty /\ q.bid = p.bid
  /\ q.scores = p.scores /\ q.bags = p.bags /\ q.rough = p.rough
  /\ q.lastResult = p.lastResult
  /\ q.hands = [p.hands EXCEPT ![p.turn] = @ \ {c}]
  /\ q.pendingTrumpReveal = FALSE
  /\ q.trump = TrumpWith(r, p, c)
  /\ q.revealed = (p.revealed \/ Fixes(r, p))
  /\ q.broken = Broken(r, p, c)

\* The trick goes on.
PlayOn(r, k, p, c, q) ==
  /\ Laid(r, p, c, q)
  /\ q.phase = p.phase /\ q.completedTricks = p.completedTricks
  /\ q.won = p.won /\ q.points = p.points
  /\ q.trick = TableWith(p, c) /\ q.lead = LeadWith(p, c)
  /\ q.turn = SeatAfter(k, p.turn)

\* Who takes the trick that c completes.
Taker(r, p, c) == TrickWinner(r, TableWith(p, c), LeadWith(p, c), ShownWith(r, p, c))

\* The trick is over.
PlayLast(r, k, p, c, q) ==
  /\ Laid(r, p, c, q)
  /\ q.trick = << >> /\ q.lead = {} /\ q.turn = Taker(r, p, c)
  /\ q.won = [p.won EXCEPT ![Taker(r, p, c)] = @ + 1]
  /\ q.points = [p.points EXCEPT ![TeamOf(r, k, Taker(r, p, c))] =
                   @ + PointsOf(r, CardsOf(TableWith(p, c)))]
  /\ q.completedTricks =
       Append(p.completedTricks,
              [cards |-> TableWith(p, c), winner |-> Taker(r, p, c),
               lead |-> LeadWith(p, c), trump |-> ShownWith(r, p, c)])
  /\ q.phase = IF \A s \in Seats(k) : q.hands[s] = {} THEN PhaseAfter(r, p.phase) ELSE p.phase

\* playCard does one of two things: lay a card, or complete the trick with it.
LEMMA PlayEffect ==
  ASSUME NEW r, NEW k, NEW p, NEW c, Shape(p)
  PROVE  IF Len(TableWith(p, c)) < k THEN PlayOn(r, k, p, c, PlayCard(r, k, p, c))
                                     ELSE PlayLast(r, k, p, c, PlayCard(r, k, p, c))
<1> DEFINE leads == p.trick = << >>
           fixes == r.trump.mode = "declared-by-lead" /\ leads /\ p.trump = {}
           played == [p EXCEPT !.hands[p.turn] = @ \ {c},
                          !.trick = Append(@, <<p.turn, c>>),
                          !.lead = IF leads THEN {Suit(c)} ELSE @,
                          !.pendingTrumpReveal = FALSE,
                          !.trump = IF fixes THEN {Suit(c)} ELSE @,
                          !.revealed = @ \/ fixes,
                          !.broken = Broken(r, p, c)]
<1>1. PICK b : b = (p.revealed \/ Fixes(r, p))
  OBVIOUS
<1>2. fixes <=> Fixes(r, p)
  BY DEF Fixes
<1>3. /\ Shape(played)
      /\ played.number = p.number /\ played.dealer = p.dealer /\ played.declarer = p.declarer
      /\ played.front = p.front /\ played.kitty = p.kitty /\ played.bid = p.bid
      /\ played.scores = p.scores /\ played.bags = p.bags
      /\ played.rough = p.rough /\ played.lastResult = p.lastResult
      /\ played.turn = p.turn /\ played.phase = p.phase
      /\ played.completedTricks = p.completedTricks
      /\ played.won = p.won /\ played.points = p.points
      /\ played.hands = [p.hands EXCEPT ![p.turn] = @ \ {c}]
      /\ played.pendingTrumpReveal = FALSE
      /\ played.broken = Broken(r, p, c)
      /\ played.trick = TableWith(p, c)
  BY DEF Shape, Fields, TableWith
<1>4. played.lead = LeadWith(p, c) /\ played.trump = TrumpWith(r, p, c)
  BY <1>2 DEF Shape, Fields, LeadWith, TrumpWith
<1>5. played.revealed = (p.revealed \/ Fixes(r, p))
  <2>1. played.revealed = (p.revealed \/ fixes)
    BY DEF Shape, Fields
  <2> HIDE DEF played
  <2> QED BY <2>1, <1>2
<1>6. PlayCard(r, k, p, c) =
        IF Len(played.trick) < k THEN [played EXCEPT !.turn = SeatAfter(k, @)]
        ELSE TakeTrick(r, k, played)
  BY DEF PlayCard
<1> HIDE DEF played
<1>7. Laid(r, p, c, played)
  BY <1>3, <1>4, <1>5 DEF Laid
<1>8. CASE Len(TableWith(p, c)) < k
  <2>1. PICK q : q = [played EXCEPT !.turn = SeatAfter(k, @)]
    OBVIOUS
  <2>2. Shape(q) /\ q.turn = SeatAfter(k, p.turn) /\ \A f \in Fields \ {"turn"} : q[f] = played[f]
    BY <1>3, <2>1 DEF Shape, Fields
  <2>3. PlayOn(r, k, p, c, q)
    BY <1>3, <1>4, <1>7, <2>2 DEF PlayOn, Laid, Fields
  <2> QED BY <1>3, <1>6, <1>8, <2>1, <2>3
<1>9. CASE ~(Len(TableWith(p, c)) < k)
  <2>1. PICK q : q = TakeTrick(r, k, played)
    OBVIOUS
  <2>2. VisibleTrump(played) = ShownWith(r, p, c)
    BY <1>4, <1>5 DEF VisibleTrump, ShownWith
  <2>3. /\ Shape(q)
        /\ q.trick = << >> /\ q.lead = {} /\ q.turn = Taker(r, p, c)
        /\ q.won = [p.won EXCEPT ![Taker(r, p, c)] = @ + 1]
        /\ q.points = [p.points EXCEPT ![TeamOf(r, k, Taker(r, p, c))] =
                   @ + PointsOf(r, CardsOf(TableWith(p, c)))]
        /\ q.completedTricks =
             Append(p.completedTricks,
              [cards |-> TableWith(p, c), winner |-> Taker(r, p, c),
               lead |-> LeadWith(p, c), trump |-> ShownWith(r, p, c)])
        /\ q.phase = IF \A s \in Seats(k) : played.hands[s] = {} THEN PhaseAfter(r, p.phase) ELSE p.phase
        /\ \A f \in Fields \ {"trick", "lead", "turn", "won", "points", "completedTricks", "phase"} :
             q[f] = played[f]
    BY <1>3, <1>4, <2>1, <2>2 DEF Shape, Fields, TakeTrick, Taker
  <2>4. PlayLast(r, k, p, c, q)
    <3>1. /\ q.number = played.number /\ q.dealer = played.dealer /\ q.declarer = played.declarer
          /\ q.front = played.front /\ q.kitty = played.kitty /\ q.bid = played.bid
          /\ q.scores = played.scores /\ q.bags = played.bags /\ q.rough = played.rough
          /\ q.lastResult = played.lastResult /\ q.hands = played.hands
          /\ q.pendingTrumpReveal = played.pendingTrumpReveal /\ q.trump = played.trump
          /\ q.revealed = played.revealed /\ q.broken = played.broken
      BY <2>3 DEF Fields
    <3>2. Laid(r, p, c, q)
      BY <1>7, <2>3, <3>1, Zenon DEF Laid
    <3> QED BY <2>3, <3>1, <3>2, Zenon DEF PlayLast
  <2> QED BY <1>3, <1>6, <1>9, <2>1, <2>4
<1> QED BY <1>8, <1>9

-----------------------------------------------------------------------------
(* The course of a hand.                                                   *)

\* Appending leaves what was there and adds one place.
LEMMA AppendHolds ==
  ASSUME NEW s, NEW e, s \in Seq(Range(s))
  PROVE  LET t == Append(s, e) IN
         /\ t \in Seq(Range(t)) /\ Len(s) \in Nat /\ Len(t) = Len(s) + 1
         /\ DOMAIN s = 1..Len(s) /\ DOMAIN t = 1..(Len(s) + 1)
         /\ \A i \in 1..Len(s) : t[i] = s[i]
         /\ t[Len(s) + 1] = e
<1> DEFINE T == Range(s) \cup {e}
<1> PICK t : t = Append(s, e)
  OBVIOUS
<1>1. s \in Seq(T) /\ e \in T
  BY SeqMonotonic
<1>2. /\ t \in Seq(T) /\ Len(s) \in Nat /\ Len(t) = Len(s) + 1
      /\ DOMAIN s = 1..Len(s) /\ DOMAIN t = 1..(Len(s) + 1)
      /\ \A i \in 1..Len(s) : t[i] = s[i]
      /\ t[Len(s) + 1] = e
  <2> HIDE DEF T
  <2> QED BY <1>1
<1>3. t \in Seq(Range(t))
  <2>1. \A i \in 1..Len(t) : t[i] \in Range(t)
    BY <1>2 DEF Range
  <2>2. t \in [1..Len(t) -> T]
    BY <1>2, LenProperties
  <2>3. t = [i \in 1..Len(t) |-> t[i]]
    BY <2>2
  <2> QED BY <1>2, <2>1, <2>3
<1> QED BY <1>2, <1>3

\* A completed trick: cards of the deck, one for each seat.
TrickTyped(r, k, x) ==
  /\ x.cards \in Seq(Seats(k) \X Deck(r)) /\ Len(x.cards) = k
  /\ x.winner \in Seats(k)

\* A position has the values a position may have.
Typed(r, k, p) ==
  /\ Shape(p)
  /\ p.number \in Nat /\ p.number >= 1 /\ p.dealer \in Seats(k) /\ p.turn \in Seats(k)
  /\ p.phase \in {"BIDDING", "TRUMP_SELECTION", "PLAYING", "SCORING"}
  /\ p.revealed \in BOOLEAN /\ p.pendingTrumpReveal \in BOOLEAN
  /\ p.hands \in [Seats(k) -> SUBSET Deck(r)] /\ p.kitty \in SUBSET Deck(r)
  /\ p.trick \in Seq(Seats(k) \X Deck(r)) /\ Len(p.trick) < k
  /\ p.completedTricks \in Seq(Range(p.completedTricks))
  /\ \A i \in DOMAIN p.completedTricks : TrickTyped(r, k, p.completedTricks[i])
  /\ p.won \in [Seats(k) -> Nat] /\ p.points \in [Teams(r, k) -> Int]
  /\ p.bid \in [Seats(k) -> Int]

\* What is settled in each phase.
Course(r, k, p) ==
  /\ p.lead = IF p.trick = << >> THEN {} ELSE {Suit(p.trick[1][2])}
  /\ p.phase # "PLAYING" => p.trick = << >> /\ p.pendingTrumpReveal = FALSE
  /\ p.phase \in {"BIDDING", "TRUMP_SELECTION"} => p.completedTricks = << >>
  /\ p.phase = "BIDDING" =>
       r.bidding # {} /\ (AfterBidding(r) = "TRUMP_SELECTION" => p.trump = {})
  /\ p.phase = "TRUMP_SELECTION" =>
       AfterBidding(r) = "TRUMP_SELECTION" /\ p.declarer = {p.turn} /\ p.trump = {}
  /\ p.lastResult # {} => p.phase = "SCORING"
  /\ p.pendingTrumpReveal = TRUE => p.revealed = TRUE /\ p.trick # << >>
  /\ p.phase = "PLAYING" => Len(p.completedTricks) < HandSize(r, k, p.number)
  /\ p.phase = "SCORING" => Len(p.completedTricks) = HandSize(r, k, p.number)

\* The table was laid clockwise, up to the seat on turn.
Turns(k, p) ==
  \A i \in 1..Len(p.trick) : Places(k, p.trick[i][1], p.turn) = Len(p.trick) + 1 - i

\* Seat s has a card on the table.
OnTable(p, s) == \E i \in 1..Len(p.trick) : p.trick[i][1] = s

\* Every seat has played a card to each trick.
Sizes(r, k, p) ==
  \A s \in Seats(k) :
    Cardinality(p.hands[s]) = HandSize(r, k, p.number) - Len(p.completedTricks)
                                - (IF OnTable(p, s) THEN 1 ELSE 0)

\* A hand is in order: typed, its phase kept, the table laid in turn, and all
\* hands of a size.
Ready(r, k, p) == Typed(r, k, p) /\ Course(r, k, p) /\ Turns(k, p) /\ Sizes(r, k, p)

\* Distances round the table grow by one at each step clockwise.
LEMMA PlacesHold ==
  ASSUME NEW k \in Nat, k >= 2, NEW a \in Seats(k), NEW b \in Seats(k)
  PROVE  /\ Places(k, a, b) \in 0..(k - 1)
         /\ Places(k, a, b) = 0 <=> a = b
         /\ Places(k, a, b) < k - 1 => Places(k, a, SeatAfter(k, b)) = Places(k, a, b) + 1
         /\ Places(k, b, SeatAfter(k, b)) = 1
<1>1. a \in Int /\ 0 <= a /\ a < k /\ b \in Int /\ 0 <= b /\ b < k
  BY DEF Seats
<1>2. \A c \in Seats(k) : c \in Int /\ 0 <= c /\ c < k
  BY DEF Seats
<1>3. SeatAfter(k, b) = IF b = k - 1 THEN 0 ELSE b + 1
  BY NextSeat
<1> QED BY <1>1, <1>2, <1>3 DEF Places

\* Seats at the same distance are the same seat.
LEMMA PlacesDiffer ==
  ASSUME NEW k \in Nat, NEW a \in Seats(k), NEW b \in Seats(k), NEW c \in Seats(k),
         Places(k, a, b) = Places(k, c, b)
  PROVE  a = c
<1>1. /\ a \in Int /\ 0 <= a /\ a < k /\ b \in Int /\ 0 <= b /\ b < k
      /\ c \in Int /\ 0 <= c /\ c < k
  BY DEF Seats
<1> QED BY <1>1 DEF Places

\* Once a card completes a trick, every seat has one on the table.
LEMMA AllHavePlayed ==
  ASSUME NEW r, NEW k, Table(r, k), NEW p, Typed(r, k, p), Turns(k, p), Len(p.trick) + 1 >= k
  PROVE  \A s \in Seats(k) : s = p.turn \/ OnTable(p, s)
<1>1. k \in Nat /\ k >= 2 /\ Len(p.trick) \in Nat /\ p.turn \in Seats(k)
      /\ p.trick \in Seq(Seats(k) \X Deck(r)) /\ Len(p.trick) = k - 1
  BY SeatsHold DEF Typed
<1> SUFFICES ASSUME NEW s \in Seats(k), s # p.turn PROVE OnTable(p, s)
  OBVIOUS
<1> DEFINE i == k - Places(k, s, p.turn)
<1>2. Places(k, s, p.turn) \in 1..(k - 1)
  <2>1. Places(k, s, p.turn) \in 0..(k - 1)
    BY <1>1, PlacesHold
  <2>2. Places(k, s, p.turn) # 0
    BY <1>1, PlacesHold
  <2> QED BY <1>1, <2>1, <2>2
<1>3. i \in 1..Len(p.trick)
  BY <1>1, <1>2
<1>4. Places(k, p.trick[i][1], p.turn) = k - i
  BY <1>1, <1>3 DEF Turns
<1>5. Places(k, p.trick[i][1], p.turn) = Places(k, s, p.turn)
  BY <1>1, <1>2, <1>4
<1>6. p.trick[i][1] \in Seats(k)
  BY <1>1, <1>3
<1>7. p.trick[i][1] = s
  <2> PICK a \in Seats(k) : a = p.trick[i][1]
    BY <1>6
  <2>1. Places(k, a, p.turn) = Places(k, s, p.turn)
    BY <1>5
  <2>2. a = s
    BY <1>1, <2>1, PlacesDiffer
  <2> QED BY <2>2
<1> QED BY <1>3, <1>7 DEF OnTable

\* The seat on turn has no card on the table yet.
LEMMA TurnIsFree ==
  ASSUME NEW r, NEW k, Table(r, k), NEW p, Typed(r, k, p), Turns(k, p)
  PROVE  ~OnTable(p, p.turn)
<1>1. k \in Nat /\ k >= 2 /\ Len(p.trick) \in Nat /\ p.turn \in Seats(k)
  BY SeatsHold DEF Typed
<1> SUFFICES ASSUME NEW i \in 1..Len(p.trick), p.trick[i][1] = p.turn PROVE FALSE
  BY DEF OnTable
<1>2. Places(k, p.turn, p.turn) = Len(p.trick) + 1 - i
  BY DEF Turns
<1>3. Places(k, p.turn, p.turn) = 0
  BY <1>1, PlacesHold
<1> QED BY <1>1, <1>2, <1>3

\* Of finitely many integers one is the greatest.
LEMMA FiniteHasGreatest ==
  ASSUME NEW S, IsFiniteSet(S), S # {}, NEW f, \A x \in S : f[x] \in Int
  PROVE  \E x \in S : \A y \in S : f[y] <= f[x]
<1> DEFINE Top(T) == \E x \in T : \A y \in T : f[y] <= f[x]
           Good == {T \in SUBSET S : T = {} \/ Top(T)}
<1>1. {} \in Good
  OBVIOUS
<1>2. ASSUME NEW T \in SUBSET S, NEW z \in S \ T, T \in Good PROVE T \cup {z} \in Good
  <2>1. CASE T = {}
    <3>1. \A y \in T \cup {z} : y = z
      BY <2>1
    <3>2. f[z] \in Int /\ f[z] <= f[z]
      OBVIOUS
    <3> QED BY <3>1, <3>2
  <2>2. CASE Top(T)
    <3>1. PICK u \in T : \A y \in T : f[y] <= f[u]
      BY <2>2
    <3>2. f[u] \in Int /\ f[z] \in Int /\ \A y \in T : f[y] \in Int
      BY <3>1
    <3>3. \A y \in T \cup {z} : y = z \/ y \in T
      OBVIOUS
    <3>4. CASE f[z] <= f[u]
      <4>1. \A y \in T \cup {z} : f[y] <= f[u]
        BY <3>1, <3>3, <3>4
      <4> QED BY <3>1, <4>1
    <3>5. CASE f[u] <= f[z]
      <4>1. \A y \in T \cup {z} : f[y] <= f[z]
        BY <3>1, <3>2, <3>3, <3>5
      <4> QED BY <4>1
    <3> QED BY <3>2, <3>4, <3>5
  <2> QED BY <1>2, <2>1, <2>2
<1>3. S \in Good
  <2> HIDE DEF Good
  <2> QED BY <1>1, <1>2, SubsetInduction
<1> QED BY <1>3

\* There is a card that takes the trick, and it was played by who is said to.
LEMMA TrickHasWinner ==
  ASSUME NEW r \in RuleSets, NEW k, NEW T, T \in Seq(Seats(k) \X Deck(r)), T # << >>,
         NEW lead, NEW trump
  PROVE  \E b \in 1..Len(T) :
           /\ TrickWinner(r, T, lead, trump) = T[b][1]
           /\ \A j \in 1..Len(T) :
                TrickValue(r, T[j][2], lead, trump) <= TrickValue(r, T[b][2], lead, trump)
<1> DEFINE v == [i \in 1..Len(T) |-> TrickValue(r, T[i][2], lead, trump)]
           I == 1..Len(T)
<1>1. Len(T) \in Nat /\ Len(T) >= 1 /\ DOMAIN T = I /\ IsFiniteSet(I) /\ 1 \in I
  BY FS_Interval
<1>2. \A i \in I : T[i][2] \in Deck(r)
  BY <1>1
<1>3. \A i \in I : v[i] \in Int
  <2>1. \A c \in Deck(r) : Strength(r, c) \in Int
    BY StrengthHolds
  <2> QED BY <1>2, <2>1 DEF TrickValue
<1>4. PICK m \in I : \A j \in I : v[j] <= v[m]
  <2> HIDE DEF v, I
  <2> QED BY <1>1, <1>3, FiniteHasGreatest
<1> DEFINE First == {i \in I : v[i] = v[m]}
<1>5. PICK b \in First : \A j \in First : b <= j
  <2>1. First \subseteq Nat /\ First # {}
    <3>1. I \subseteq Nat
      OBVIOUS
    <3> HIDE DEF v, I
    <3> QED BY <3>1
  <2> HIDE DEF First
  <2> QED BY <2>1, NatMin
<1> DEFINE Beats(i) == \A j \in I : v[j] < v[i] \/ (v[j] = v[i] /\ i <= j)
<1>6. Beats(b)
  <2> SUFFICES ASSUME NEW j \in I PROVE v[j] < v[b] \/ (v[j] = v[b] /\ b <= j)
    OBVIOUS
  <2>1. v[b] = v[m] /\ v[b] \in Int /\ v[j] \in Int /\ v[j] <= v[b]
    <3> HIDE DEF v, I
    <3> QED BY <1>3, <1>4
  <2>2. CASE v[j] = v[b]
    <3>1. j \in First
      <4> HIDE DEF v, I
      <4> QED BY <2>1, <2>2
    <3> HIDE DEF v, First
    <3> QED BY <1>5, <2>2, <3>1
  <2> HIDE DEF v, I, First
  <2> QED BY <2>1, <2>2
<1> DEFINE best == CHOOSE i \in DOMAIN T : \A j \in DOMAIN T :
              TrickValue(r, T[j][2], lead, trump) < TrickValue(r, T[i][2], lead, trump)
              \/ (TrickValue(r, T[j][2], lead, trump) = TrickValue(r, T[i][2], lead, trump)
                  /\ i <= j)
<1>7. TrickWinner(r, T, lead, trump) = T[best][1]
  BY DEF TrickWinner
<1>8. \A i \in I : v[i] = TrickValue(r, T[i][2], lead, trump)
  OBVIOUS
<1>9. b \in I
  OBVIOUS
<1>10. best \in I /\ \A j \in I : TrickValue(r, T[j][2], lead, trump) < TrickValue(r, T[best][2], lead, trump)
              \/ (TrickValue(r, T[j][2], lead, trump) = TrickValue(r, T[best][2], lead, trump)
                  /\ best <= j)
  <2>1. \E i \in DOMAIN T : \A j \in DOMAIN T :
              TrickValue(r, T[j][2], lead, trump) < TrickValue(r, T[i][2], lead, trump)
              \/ (TrickValue(r, T[j][2], lead, trump) = TrickValue(r, T[i][2], lead, trump)
                  /\ i <= j)
    <3> HIDE DEF v, I, First
    <3> QED BY <1>1, <1>6, <1>8, <1>9
  <2> HIDE DEF I, v, First
  <2> QED BY <1>1, <2>1, Zenon
<1>11. \A j \in I : TrickValue(r, T[j][2], lead, trump) <= TrickValue(r, T[best][2], lead, trump)
  <2> HIDE DEF best, v, I
  <2>1. \A j \in I : TrickValue(r, T[j][2], lead, trump) \in Int
    BY <1>3, <1>8
  <2> QED BY <2>1, <1>10
<1> HIDE DEF best
<1> QED BY <1>7, <1>10, <1>11

\* Table t is p's with card c put on it.
OneMore(r, k, p, c, t) ==
  /\ t \in Seq(Seats(k) \X Deck(r)) /\ Len(p.trick) \in Nat /\ Len(t) = Len(p.trick) + 1
  /\ DOMAIN p.trick = 1..Len(p.trick) /\ DOMAIN t = 1..(Len(p.trick) + 1)
  /\ \A i \in 1..Len(p.trick) : t[i] = p.trick[i]
  /\ t[Len(p.trick) + 1] = <<p.turn, c>>
  /\ CardsOf(t) = CardsOf(p.trick) \cup {c}
  /\ t # << >>

\* The table with one more card on it.
LEMMA TableWithHolds ==
  ASSUME NEW r, NEW k, Table(r, k), NEW p, Typed(r, k, p), NEW c \in Deck(r)
  PROVE  OneMore(r, k, p, c, TableWith(p, c))
<1> PICK t : t = TableWith(p, c)
  OBVIOUS
<1>1. PICK s : s = p.trick
  OBVIOUS
<1>2. PICK e : e = <<p.turn, c>>
  OBVIOUS
<1>3. s \in Seq(Seats(k) \X Deck(r)) /\ e \in Seats(k) \X Deck(r)
  BY <1>1, <1>2 DEF Typed
<1>4. t = Append(s, e)
  BY <1>1, <1>2 DEF TableWith
<1>5. /\ t \in Seq(Seats(k) \X Deck(r)) /\ Len(s) \in Nat /\ Len(t) = Len(s) + 1
      /\ DOMAIN s = 1..Len(s) /\ DOMAIN t = 1..(Len(s) + 1)
      /\ \A i \in 1..Len(s) : t[i] = s[i]
      /\ t[Len(s) + 1] = e
  BY <1>3, <1>4
<1>6. CardsOf(t) = CardsOf(s) \cup {c}
  <2>1. \A i \in DOMAIN t : i \in DOMAIN s \/ i = Len(s) + 1
    BY <1>5
  <2>2. \A i \in DOMAIN s : i \in DOMAIN t /\ t[i] = s[i]
    BY <1>5
  <2>3. e[2] = c /\ Len(s) + 1 \in DOMAIN t
    BY <1>2, <1>5
  <2> QED BY <2>1, <2>2, <2>3, <1>5 DEF CardsOf
<1>7. t # << >>
  BY <1>5
<1> QED BY <1>1, <1>2, <1>5, <1>6, <1>7 DEF OneMore

\* A hand after one of its cards has been played.
LEMMA HandsWithout ==
  ASSUME NEW r, NEW k, Table(r, k), NEW p, Typed(r, k, p), NEW c \in p.hands[p.turn], NEW q,
         Laid(r, p, c, q)
  PROVE  /\ q.hands \in [Seats(k) -> SUBSET Deck(r)] /\ c \in Deck(r)
         /\ q.hands[p.turn] = p.hands[p.turn] \ {c}
         /\ \A s \in Seats(k) : s # p.turn => q.hands[s] = p.hands[s]
         /\ Cardinality(q.hands[p.turn]) = Cardinality(p.hands[p.turn]) - 1
         /\ \A s \in Seats(k) : /\ IsFiniteSet(p.hands[s]) /\ IsFiniteSet(q.hands[s])
                                /\ Cardinality(p.hands[s]) \in Nat
                                /\ Cardinality(q.hands[s]) \in Nat
<1>1. p.hands \in [Seats(k) -> SUBSET Deck(r)] /\ p.turn \in Seats(k)
  BY DEF Typed
<1>2. q.hands = [p.hands EXCEPT ![p.turn] = @ \ {c}]
  BY DEF Laid
<1>3. IsFiniteSet(Deck(r))
  BY DeckHolds DEF Table
<1>4. /\ q.hands \in [Seats(k) -> SUBSET Deck(r)] /\ c \in Deck(r)
      /\ q.hands[p.turn] = p.hands[p.turn] \ {c}
      /\ \A s \in Seats(k) : s # p.turn => q.hands[s] = p.hands[s]
  BY <1>1, <1>2
<1>5. \A h \in SUBSET Deck(r) : IsFiniteSet(h) /\ Cardinality(h) \in Nat
  BY <1>3, FS_Subset, FS_CardinalityType
<1>6. Cardinality(q.hands[p.turn]) = Cardinality(p.hands[p.turn]) - 1
  BY <1>1, <1>4, <1>5, FS_RemoveElement
<1> QED BY <1>1, <1>4, <1>5, <1>6

\* A card that leaves the trick open keeps a hand in order.
LEMMA PlayOnReady ==
  ASSUME NEW r, NEW k, Table(r, k), NEW p, Ready(r, k, p), p.phase = "PLAYING",
         NEW c \in p.hands[p.turn], Len(TableWith(p, c)) < k,
         NEW q, PlayOn(r, k, p, c, q)
  PROVE  Ready(r, k, q)
<1>1. Typed(r, k, p) /\ Course(r, k, p) /\ Turns(k, p) /\ Sizes(r, k, p) /\ Laid(r, p, c, q)
  BY DEF Ready, PlayOn
<1>2. k \in Nat /\ k >= 2 /\ p.turn \in Seats(k) /\ c \in Deck(r) /\ q.turn \in Seats(k)
  BY <1>1, SeatsHold, NextSeat, HandsWithout DEF Typed, PlayOn
<1> DEFINE m == Len(p.trick)
<1>3. /\ q.trick \in Seq(Seats(k) \X Deck(r)) /\ m \in Nat /\ Len(q.trick) = m + 1
      /\ \A i \in 1..m : q.trick[i] = p.trick[i]
      /\ q.trick[m + 1] = <<p.turn, c>>
      /\ q.trick # << >> /\ m + 1 < k
  <2>1. q.trick = TableWith(p, c)
    BY DEF PlayOn
  <2>2. PICK t : t = q.trick
    OBVIOUS
  <2>3. /\ t \in Seq(Seats(k) \X Deck(r)) /\ m \in Nat /\ Len(t) = m + 1
        /\ \A i \in 1..m : t[i] = p.trick[i]
        /\ t[m + 1] = <<p.turn, c>>
        /\ t # << >>
    <3>1. t = TableWith(p, c)
      BY <2>1, <2>2
    <3>2. OneMore(r, k, p, c, t)
      BY <1>1, <1>2, <3>1, TableWithHolds
    <3> QED BY <3>2 DEF OneMore
  <2> QED BY <2>1, <2>2, <2>3
<1>4. Typed(r, k, q)
  <2>1. Shape(q) /\ q.number = p.number /\ q.dealer = p.dealer /\ q.kitty = p.kitty /\ q.bid = p.bid
        /\ q.phase = p.phase /\ q.completedTricks = p.completedTricks
        /\ q.won = p.won /\ q.points = p.points /\ q.pendingTrumpReveal = FALSE
    BY DEF PlayOn, Laid
  <2>2. q.revealed \in BOOLEAN
    BY DEF PlayOn, Laid
  <2>3. q.hands \in [Seats(k) -> SUBSET Deck(r)]
    BY <1>1, HandsWithout
  <2>4. Len(q.trick) < k
    BY <1>3
  <2> HIDE DEF m
  <2> QED BY <1>1, <1>2, <1>3, <2>1, <2>2, <2>3, <2>4 DEF Typed
<1>5. Course(r, k, q)
  <2>1. q.lead = {Suit(q.trick[1][2])}
    <3>1. CASE p.trick = << >>
      <4>1. m = 0
        BY <3>1
      <4>2. q.trick[1] = <<p.turn, c>>
        BY <1>3, <4>1
      <4>3. q.lead = {Suit(c)}
        BY <3>1 DEF PlayOn, LeadWith
      <4> QED BY <4>2, <4>3
    <3>2. CASE p.trick # << >>
      <4>1. p.trick \in Seq(Seats(k) \X Deck(r))
        BY <1>1 DEF Typed
      <4>2. m >= 1
        BY <3>2, <4>1
      <4>3. q.trick[1] = p.trick[1]
        BY <1>3, <4>2
      <4>4. q.lead = p.lead /\ p.lead = {Suit(p.trick[1][2])}
        BY <1>1, <3>2 DEF PlayOn, LeadWith, Course
      <4> QED BY <4>3, <4>4
    <3> QED BY <3>1, <3>2
  <2>2. q.phase = "PLAYING" /\ q.pendingTrumpReveal = FALSE /\ q.completedTricks = p.completedTricks
        /\ q.number = p.number /\ q.lastResult = p.lastResult
    BY DEF PlayOn, Laid
  <2>3. p.lastResult = {} /\ Len(p.completedTricks) < HandSize(r, k, p.number)
    BY <1>1 DEF Course
  <2> QED BY <1>3, <2>1, <2>2, <2>3 DEF Course
<1>6. q.turn = SeatAfter(k, p.turn)
  BY DEF PlayOn
<1>7. Turns(k, q)
  <2> SUFFICES ASSUME NEW i \in 1..(m + 1)
               PROVE  Places(k, q.trick[i][1], q.turn) = m + 2 - i
    BY <1>3 DEF Turns
  <2>1. CASE i = m + 1
    <3>1. q.trick[i][1] = p.turn
      BY <1>3, <2>1
    <3>2. Places(k, p.turn, SeatAfter(k, p.turn)) = 1
      BY <1>2, PlacesHold
    <3> QED BY <1>3, <1>6, <2>1, <3>1, <3>2
  <2>2. CASE i # m + 1
    <3>1. i \in 1..m
      BY <1>3, <2>2
    <3>2. q.trick[i] = p.trick[i] /\ Places(k, p.trick[i][1], p.turn) = m + 1 - i
      BY <1>1, <1>3, <3>1 DEF Turns
    <3>3. PICK a \in Seats(k) : a = p.trick[i][1]
      <4>1. p.trick \in Seq(Seats(k) \X Deck(r))
        BY <1>1 DEF Typed
      <4>2. p.trick[i] \in Seats(k) \X Deck(r)
        BY <3>1, <4>1, ElementOfSeq
      <4> QED BY <4>2
    <3>4. Places(k, a, p.turn) < k - 1
      BY <1>2, <1>3, <3>1, <3>2, <3>3
    <3>5. Places(k, a, SeatAfter(k, p.turn)) = Places(k, a, p.turn) + 1
      BY <1>2, <3>4, PlacesHold
    <3> QED BY <1>3, <1>6, <3>1, <3>2, <3>3, <3>5
  <2> QED BY <2>1, <2>2
<1>8. \A s \in Seats(k) : OnTable(q, s) <=> (OnTable(p, s) \/ s = p.turn)
  <2>1. \A i \in 1..(m + 1) : i \in 1..m \/ i = m + 1
    BY <1>3
  <2>2. \A i \in 1..m : i \in 1..(m + 1)
    BY <1>3
  <2>3. m + 1 \in 1..(m + 1)
    BY <1>3
  <2>4. q.trick[m + 1][1] = p.turn
    BY <1>3
  <2>5. \A s : OnTable(q, s) <=> \E i \in 1..(m + 1) : q.trick[i][1] = s
    BY <1>3 DEF OnTable
  <2> QED BY <1>3, <2>1, <2>2, <2>3, <2>4, <2>5 DEF OnTable
<1>9. Sizes(r, k, q)
  <2> SUFFICES ASSUME NEW s \in Seats(k)
               PROVE  Cardinality(q.hands[s]) = HandSize(r, k, p.number) - Len(p.completedTricks)
                                - (IF OnTable(q, s) THEN 1 ELSE 0)
    BY DEF Sizes, PlayOn, Laid
  <2>1. Cardinality(p.hands[s]) = HandSize(r, k, p.number) - Len(p.completedTricks)
                                - (IF OnTable(p, s) THEN 1 ELSE 0)
    BY <1>1 DEF Sizes
  <2>2. HandSize(r, k, p.number) \in Int /\ Len(p.completedTricks) \in Int
    BY <1>1, HandSizes DEF Typed
  <2>3. CASE s = p.turn
    <3>1. ~OnTable(p, s) /\ OnTable(q, s)
      BY <1>1, <1>8, <2>3, TurnIsFree
    <3>2. Cardinality(q.hands[s]) = Cardinality(p.hands[s]) - 1
      BY <1>1, <2>3, HandsWithout
    <3> QED BY <2>1, <2>2, <3>1, <3>2
  <2>4. CASE s # p.turn
    <3>1. q.hands[s] = p.hands[s]
      BY <1>1, <2>4, HandsWithout
    <3> QED BY <1>8, <2>1, <2>4, <3>1
  <2> QED BY <2>3, <2>4
<1> QED BY <1>4, <1>5, <1>7, <1>9 DEF Ready

\* resolveTrick gives a trick to one of the seats.
LEMMA TakerHolds ==
  ASSUME NEW r, NEW k, Table(r, k), NEW p, Typed(r, k, p), NEW c \in Deck(r)
  PROVE  Taker(r, p, c) \in Seats(k)
<1>1. PICK T : T = TableWith(p, c)
  OBVIOUS
<1>2. T \in Seq(Seats(k) \X Deck(r)) /\ T # << >>
  BY <1>1, TableWithHolds DEF OneMore
<1>3. PICK b \in 1..Len(T) : Taker(r, p, c) = T[b][1]
  BY <1>1, <1>2, TrickHasWinner DEF Taker, Table
<1> QED BY <1>2, <1>3

\* The card that completes a trick keeps a hand in order.
LEMMA PlayLastReady ==
  ASSUME NEW r, NEW k, Table(r, k), NEW p, Ready(r, k, p), p.phase = "PLAYING",
         NEW c \in p.hands[p.turn], ~(Len(TableWith(p, c)) < k),
         NEW q, PlayLast(r, k, p, c, q)
  PROVE  Ready(r, k, q)
<1>1. Typed(r, k, p) /\ Course(r, k, p) /\ Turns(k, p) /\ Sizes(r, k, p) /\ Laid(r, p, c, q)
  BY DEF Ready, PlayLast
<1>2. k \in Nat /\ k >= 2 /\ p.turn \in Seats(k) /\ c \in Deck(r)
  BY <1>1, SeatsHold, HandsWithout DEF Typed
<1> DEFINE m == Len(p.trick)
           T == TableWith(p, c)
           w == Taker(r, p, c)
           x == [cards |-> TableWith(p, c), winner |-> Taker(r, p, c),
                 lead |-> LeadWith(p, c), trump |-> ShownWith(r, p, c)]
           H == HandSize(r, k, p.number)
           L == Len(p.completedTricks)
<1>3. w \in Seats(k)
  BY <1>1, <1>2, TakerHolds
<1>4. m \in Nat /\ m + 1 = k /\ T \in Seq(Seats(k) \X Deck(r)) /\ Len(T) = k
  <2>1. m \in Nat /\ T \in Seq(Seats(k) \X Deck(r)) /\ Len(T) = m + 1 /\ m < k
    <3>1. m \in Nat /\ T \in Seq(Seats(k) \X Deck(r)) /\ Len(T) = m + 1
      <4>1. OneMore(r, k, p, c, T)
        BY <1>1, <1>2, TableWithHolds
      <4> HIDE DEF T
      <4> QED BY <4>1 DEF OneMore
    <3> QED BY <1>1, <3>1 DEF Typed
  <2> QED BY <1>2, <2>1
<1>5. TrickTyped(r, k, x)
  <2> HIDE DEF T, w
  <2> QED BY <1>3, <1>4 DEF TrickTyped, T, w
<1>6. /\ q.completedTricks \in Seq(Range(q.completedTricks)) /\ L \in Nat
      /\ Len(q.completedTricks) = L + 1
      /\ \A i \in DOMAIN q.completedTricks : TrickTyped(r, k, q.completedTricks[i])
  <2>1. p.completedTricks \in Seq(Range(p.completedTricks))
        /\ q.completedTricks = Append(p.completedTricks, x)
    BY <1>1 DEF Typed, PlayLast
  <2> HIDE DEF x
  <2>2. /\ q.completedTricks \in Seq(Range(q.completedTricks)) /\ L \in Nat
        /\ Len(q.completedTricks) = L + 1 /\ DOMAIN p.completedTricks = 1..L
        /\ DOMAIN q.completedTricks = 1..(L + 1)
        /\ \A i \in 1..L : q.completedTricks[i] = p.completedTricks[i]
        /\ q.completedTricks[L + 1] = x
    BY <2>1, AppendHolds
  <2>3. \A i \in 1..(L + 1) : i \in 1..L \/ i = L + 1
    BY <2>2
  <2>4. \A i \in 1..L : TrickTyped(r, k, p.completedTricks[i])
    BY <1>1, <2>2 DEF Typed
  <2> QED BY <1>5, <2>2, <2>3, <2>4
<1>7. q.won \in [Seats(k) -> Nat]
  <2>1. p.won \in [Seats(k) -> Nat] /\ q.won = [p.won EXCEPT ![w] = @ + 1]
    BY <1>1 DEF Typed, PlayLast
  <2> HIDE DEF w
  <2> QED BY <1>3, <2>1
<1>8. q.points \in [Teams(r, k) -> Int]
  <2>1. PICK v : v = PointsOf(r, CardsOf(TableWith(p, c)))
    OBVIOUS
  <2>2. v \in Int
    <3>1. CardsOf(T) \subseteq Deck(r)
      BY <1>4 DEF CardsOf
    <3> QED BY <2>1, <3>1, WorthHolds DEF Table
  <2>3. PICK t \in Teams(r, k) : t = TeamOf(r, k, w)
    BY <1>3, TeamsHold
  <2>4. p.points \in [Teams(r, k) -> Int] /\ q.points = [p.points EXCEPT ![t] = @ + v]
    BY <1>1, <2>1, <2>3 DEF Typed, PlayLast
  <2> QED BY <2>2, <2>4
<1>9. H \in Nat /\ L < H
  BY <1>1, HandSizes DEF Typed, Course
<1>10. \A s \in Seats(k) : Cardinality(q.hands[s]) = H - (L + 1)
  <2> SUFFICES ASSUME NEW s \in Seats(k) PROVE Cardinality(q.hands[s]) = H - (L + 1)
    OBVIOUS
  <2>1. Cardinality(p.hands[s]) = H - L - (IF OnTable(p, s) THEN 1 ELSE 0)
    BY <1>1 DEF Sizes
  <2> HIDE DEF H, L
  <2>2. CASE s = p.turn
    <3>1. ~OnTable(p, s)
      BY <1>1, <2>2, TurnIsFree
    <3>2. Cardinality(q.hands[s]) = Cardinality(p.hands[s]) - 1
      BY <1>1, <2>2, HandsWithout
    <3> QED BY <1>6, <1>9, <2>1, <3>1, <3>2
  <2>3. CASE s # p.turn
    <3>1. OnTable(p, s)
      BY <1>1, <1>4, <2>3, AllHavePlayed
    <3>2. q.hands[s] = p.hands[s]
      BY <1>1, <2>3, HandsWithout
    <3> QED BY <1>6, <1>9, <2>1, <3>1, <3>2
  <2> QED BY <2>2, <2>3
<1>11. q.phase = IF L + 1 = H THEN "SCORING" ELSE "PLAYING"
  <2>1. \A s \in Seats(k) : IsFiniteSet(q.hands[s])
    BY <1>1, HandsWithout
  <2>2. \A s \in Seats(k) : q.hands[s] = {} <=> L + 1 = H
    <3> HIDE DEF H, L
    <3> QED BY <1>6, <1>9, <1>10, <2>1, FS_EmptySet
  <2>3. 0 \in Seats(k)
    BY <1>2 DEF Seats
  <2>4. (\A s \in Seats(k) : q.hands[s] = {}) <=> L + 1 = H
    <3> HIDE DEF H, L
    <3> QED BY <2>2, <2>3
  <2>5. q.phase = IF \A s \in Seats(k) : q.hands[s] = {} THEN "SCORING" ELSE "PLAYING"
    BY PhasesHold DEF PlayLast, Table
  <2> HIDE DEF H, L
  <2> QED BY <2>4, <2>5
<1>12. q.trick = << >> /\ q.lead = {} /\ q.turn = w /\ q.pendingTrumpReveal = FALSE
       /\ q.revealed \in BOOLEAN /\ q.lastResult = p.lastResult /\ p.lastResult = {}
  BY <1>1 DEF PlayLast, Laid, Course
<1>13. Typed(r, k, q)
  <2>1. Shape(q) /\ q.number = p.number /\ q.dealer = p.dealer /\ q.kitty = p.kitty /\ q.bid = p.bid
    BY <1>1 DEF Laid
  <2>2. q.hands \in [Seats(k) -> SUBSET Deck(r)]
    BY <1>1, HandsWithout
  <2>3. q.trick \in Seq(Seats(k) \X Deck(r)) /\ Len(q.trick) < k
    BY <1>2, <1>12
  <2>4. q.phase \in {"BIDDING", "TRUMP_SELECTION", "PLAYING", "SCORING"}
    BY <1>11
  <2> HIDE DEF m, T, w, x, H, L
  <2> QED BY <1>1, <1>3, <1>6, <1>7, <1>8, <1>12, <2>1, <2>2, <2>3, <2>4 DEF Typed
<1>14. q.number = p.number
  BY <1>1 DEF Laid
<1>15. Course(r, k, q)
  <2> HIDE DEF m, T, w, x
  <2> QED BY <1>6, <1>9, <1>11, <1>12, <1>14 DEF Course
<1>16. Turns(k, q)
  BY <1>12 DEF Turns
<1>17. Sizes(r, k, q)
  <2>1. \A s : ~OnTable(q, s)
    BY <1>12 DEF OnTable
  <2> SUFFICES ASSUME NEW s \in Seats(k) PROVE Cardinality(q.hands[s]) = H - (L + 1) - 0
    BY <1>6, <1>14, <2>1 DEF Sizes
  <2> HIDE DEF H, L
  <2> QED BY <1>6, <1>9, <1>10
<1> QED BY <1>13, <1>15, <1>16, <1>17 DEF Ready

\* c was played: the trick goes on, or it is complete.
Discards(r, k, p, c, q) ==
  IF Len(TableWith(p, c)) < k THEN PlayOn(r, k, p, c, q) ELSE PlayLast(r, k, p, c, q)

\* Trump is turned up: nothing else changes.
Turned(p, q) ==
  /\ Shape(q) /\ q.revealed = TRUE /\ q.pendingTrumpReveal = TRUE
  /\ q.number = p.number /\ q.phase = p.phase /\ q.dealer = p.dealer /\ q.turn = p.turn
  /\ q.declarer = p.declarer /\ q.trump = p.trump /\ q.hands = p.hands /\ q.front = p.front
  /\ q.kitty = p.kitty /\ q.trick = p.trick /\ q.lead = p.lead
  /\ q.completedTricks = p.completedTricks /\ q.broken = p.broken /\ q.won = p.won
  /\ q.points = p.points /\ q.bid = p.bid /\ q.scores = p.scores /\ q.bags = p.bags
  /\ q.rough = p.rough
  /\ q.lastResult = p.lastResult

\* Nothing of the play changes, nor of the score.
Undealt(p, q) ==
  /\ Shape(q) /\ q.pendingTrumpReveal = p.pendingTrumpReveal
  /\ q.number = p.number /\ q.dealer = p.dealer /\ q.hands = p.hands /\ q.front = p.front
  /\ q.kitty = p.kitty /\ q.trick = p.trick /\ q.lead = p.lead
  /\ q.completedTricks = p.completedTricks /\ q.broken = p.broken /\ q.won = p.won
  /\ q.points = p.points /\ q.scores = p.scores /\ q.bags = p.bags
  /\ q.rough = p.rough
  /\ q.lastResult = p.lastResult

\* Trump s was named.
Named(r, k, p, s, q) ==
  /\ Undealt(p, q) /\ q.bid = p.bid /\ q.declarer = p.declarer
  /\ q.trump = {s} /\ q.revealed = (r.trump.mode # "hidden")
  /\ q.phase = PhaseAfter(r, p.phase) /\ q.turn = SeatAfter(k, p.dealer)

\* What a legal move may do.
MoveEffect(r, k, p, q) ==
  \/ /\ p.phase = "TRUMP_SELECTION" /\ p.declarer = {p.turn} /\ p.trump = {}
     /\ \E s \in Suits(r) : Named(r, k, p, s, q)
  \/ /\ p.phase = "PLAYING"
     /\ \E c \in Options(r, p, VisibleTrump(p), OwesTrump(r, p)) : Discards(r, k, p, c, q)
  \/ /\ p.phase = "PLAYING" /\ MayReveal(r, p)
     /\ Turned(p, q)
  \/ /\ p.phase = "PLAYING" /\ MayReveal(r, p)
     /\ \E mid : /\ Turned(p, mid)
                 /\ \E c \in Options(r, mid, mid.trump, FALSE) : Discards(r, k, mid, c, q)

\* What generateLegalMoves offers to play is in the hand.
LEMMA OptionsHeld ==
  ASSUME NEW r, NEW p, NEW trump, NEW forced
  PROVE  Options(r, p, trump, forced) \subseteq p.hands[p.turn]
BY DEF Options, LeadOptions, FollowOptions, InSuit

\* A legal move names trump, turns it up, or discards a card it may discard.
LEMMA MoveHasEffect ==
  ASSUME NEW r, NEW k, NEW p, Shape(p), NEW m \in LegalMoves(r, p)
  PROVE  MoveEffect(r, k, p, ApplyMove(r, k, p, m))
<1> PICK q : q = ApplyMove(r, k, p, m)
  OBVIOUS
<1>1. CASE p.phase = "TRUMP_SELECTION"
  <2>1. LegalMoves(r, p) = TrumpMoves(r, p)
    BY <1>1 DEF LegalMoves
  <2>2. PICK s \in Suits(r) : m = <<Select(s)>> /\ p.declarer = {p.turn} /\ p.trump = {}
    BY <2>1 DEF TrumpMoves
  <2>3. q = ApplyAction(r, k, p, Select(s))
    BY <2>2 DEF ApplyMove
  <2>4. q = [p EXCEPT !.trump = {s}, !.revealed = r.trump.mode # "hidden",
                   !.phase = PhaseAfter(r, @), !.turn = SeatAfter(k, p.dealer)]
    BY <2>3 DEF ApplyAction, Select
  <2>5. Undealt(p, q) /\ q.bid = p.bid /\ q.declarer = p.declarer
        /\ q.trump = {s} /\ q.phase = PhaseAfter(r, p.phase) /\ q.turn = SeatAfter(k, p.dealer)
    <3>1. PICK phase, turn, shown :
            /\ phase = PhaseAfter(r, p.phase) /\ turn = SeatAfter(k, p.dealer)
            /\ shown = (r.trump.mode # "hidden")
      OBVIOUS
    <3>2. q = [p EXCEPT !.trump = {s}, !.revealed = shown, !.phase = phase, !.turn = turn]
      BY <2>4, <3>1
    <3>3. Undealt(p, q)
      BY <3>2 DEF Shape, Fields, Undealt
    <3>4. /\ q.bid = p.bid /\ q.declarer = p.declarer
          /\ q.trump = {s} /\ q.phase = phase /\ q.turn = turn
      BY <3>2 DEF Shape, Fields
    <3> QED BY <3>1, <3>3, <3>4
  <2>6. q.revealed = (r.trump.mode # "hidden")
    BY <2>4 DEF Shape, Fields
  <2>7. Named(r, k, p, s, q)
    BY <2>5, <2>6, Zenon DEF Named
  <2> QED BY <1>1, <2>2, <2>7 DEF MoveEffect
<1>2. CASE p.phase # "TRUMP_SELECTION"
  <2>1. p.phase = "PLAYING" /\ m \in PlayingMoves(r, p)
    BY <1>2 DEF LegalMoves
  <2>2. \/ \E c \in Options(r, p, VisibleTrump(p), OwesTrump(r, p)) : m = <<Play(c)>>
        \/ MayReveal(r, p) /\ \E x \in r.compoundActions : m \in CompoundMoves(r, p, x)
    BY <2>1 DEF PlayingMoves
  <2>3. CASE \E c \in Options(r, p, VisibleTrump(p), OwesTrump(r, p)) : m = <<Play(c)>>
    <3>1. PICK c \in Options(r, p, VisibleTrump(p), OwesTrump(r, p)) : m = <<Play(c)>>
      BY <2>3
    <3>2. q = ApplyAction(r, k, p, Play(c))
      BY <3>1 DEF ApplyMove
    <3>3. q = PlayCard(r, k, p, c)
      BY <3>2 DEF ApplyAction, Play
    <3>4. Discards(r, k, p, c, q)
      BY <3>3, PlayEffect DEF Discards
    <3> QED BY <2>1, <3>1, <3>4 DEF MoveEffect
  <2>4. CASE MayReveal(r, p) /\ \E x \in r.compoundActions : m \in CompoundMoves(r, p, x)
    <3>1. PICK h : h = ApplyAction(r, k, p, Reveal)
      OBVIOUS
    <3>2. h = [p EXCEPT !.revealed = TRUE, !.pendingTrumpReveal = TRUE]
      BY <3>1 DEF ApplyAction, Reveal
    <3>3. Turned(p, h)
      BY <3>2 DEF Shape, Fields, Turned
    <3>4. m = <<Reveal>> \/ \E c \in Options(r, p, p.trump, FALSE) : m = <<Reveal, Play(c)>>
      BY <2>4 DEF CompoundMoves
    <3>5. CASE m = <<Reveal>>
      <4>1. q = h
        BY <3>1, <3>5 DEF ApplyMove
      <4> QED BY <2>1, <2>4, <3>3, <4>1 DEF MoveEffect
    <3>6. CASE \E c \in Options(r, p, p.trump, FALSE) : m = <<Reveal, Play(c)>>
      <4>1. PICK c \in Options(r, p, p.trump, FALSE) : m = <<Reveal, Play(c)>>
        BY <3>6
      <4>2. q = ApplyAction(r, k, h, Play(c))
        BY <3>1, <4>1 DEF ApplyMove
      <4>3. q = PlayCard(r, k, h, c)
        BY <4>2 DEF ApplyAction, Play
      <4>4. Discards(r, k, h, c, q)
        BY <3>3, <4>3, PlayEffect DEF Discards, Turned
      <4>5. Options(r, p, p.trump, FALSE) = Options(r, h, h.trump, FALSE)
        BY <3>3 DEF Turned, Options
      <4> QED BY <2>1, <2>4, <3>3, <4>1, <4>4, <4>5 DEF MoveEffect
    <3> QED BY <3>4, <3>5, <3>6
  <2> QED BY <2>2, <2>3, <2>4
<1> QED BY <1>1, <1>2

\* A discard keeps a hand in order.
LEMMA DiscardReady ==
  ASSUME NEW r, NEW k, Table(r, k), NEW p, Ready(r, k, p), p.phase = "PLAYING",
         NEW c \in p.hands[p.turn], NEW q, Discards(r, k, p, c, q)
  PROVE  Ready(r, k, q)
BY PlayOnReady, PlayLastReady DEF Discards

\* Turning trump up keeps a hand in order.
LEMMA TurnedReady ==
  ASSUME NEW r, NEW k, Table(r, k), NEW p, Ready(r, k, p), p.phase = "PLAYING",
         p.trick # << >>, NEW q, Turned(p, q)
  PROVE  Ready(r, k, q)
<1>1. Typed(r, k, q)
  BY DEF Ready, Typed, Turned
<1>2. Course(r, k, q)
  BY DEF Ready, Course, Turned
<1>3. Turns(k, q)
  BY DEF Ready, Turns, Turned
<1>4. Sizes(r, k, q)
  BY DEF Ready, Sizes, Turned, OnTable
<1> QED BY <1>1, <1>2, <1>3, <1>4 DEF Ready

\* Naming trump keeps a hand in order.
LEMMA NamedReady ==
  ASSUME NEW r, NEW k, Table(r, k), NEW p, Ready(r, k, p), p.phase = "TRUMP_SELECTION",
         NEW s \in Suits(r), NEW q, Named(r, k, p, s, q)
  PROVE  Ready(r, k, q)
<1>1. q.phase = "PLAYING"
  BY PhasesHold DEF Ready, Course, Named, Table
<1>2. q.turn \in Seats(k)
  BY SeatsHold, NextSeat DEF Ready, Typed, Named
<1>3. p.trick = << >> /\ p.completedTricks = << >> /\ p.lastResult = {}
  BY DEF Ready, Course
<1>4. q.revealed \in BOOLEAN
  BY DEF Named
<1>5. Undealt(p, q) /\ q.bid = p.bid
  BY DEF Named
<1>6. Typed(r, k, q)
  BY <1>1, <1>2, <1>4, <1>5 DEF Ready, Typed, Undealt
<1>7. Course(r, k, q)
  <2>1. HandSize(r, k, p.number) >= 1 /\ HandSize(r, k, p.number) \in Nat
    BY HandSizes DEF Ready, Typed
  <2>2. Len(q.completedTricks) = 0
    BY <1>3, <1>5 DEF Undealt
  <2>3. Len(q.completedTricks) < HandSize(r, k, q.number)
    BY <2>1, <2>2, <1>5 DEF Undealt
  <2> QED BY <1>1, <1>3, <1>5, <2>3 DEF Ready, Course, Undealt
<1>8. Turns(k, q)
  BY <1>3, <1>5 DEF Turns, Undealt
<1>9. Sizes(r, k, q)
  BY <1>5 DEF Ready, Sizes, Undealt, OnTable
<1> QED BY <1>6, <1>7, <1>8, <1>9 DEF Ready

\* Every legal move keeps a hand in order.
LEMMA MoveReady ==
  ASSUME NEW r, NEW k, Table(r, k), NEW p, Ready(r, k, p), NEW q, MoveEffect(r, k, p, q)
  PROVE  Ready(r, k, q)
<1>1. CASE p.phase = "TRUMP_SELECTION" /\ \E s \in Suits(r) : Named(r, k, p, s, q)
  BY <1>1, NamedReady
<1>2. CASE /\ p.phase = "PLAYING"
           /\ \E c \in Options(r, p, VisibleTrump(p), OwesTrump(r, p)) : Discards(r, k, p, c, q)
  <2>1. PICK c \in Options(r, p, VisibleTrump(p), OwesTrump(r, p)) : Discards(r, k, p, c, q)
    BY <1>2
  <2>2. c \in p.hands[p.turn]
    BY OptionsHeld
  <2> QED BY <1>2, <2>1, <2>2, DiscardReady
<1>3. CASE p.phase = "PLAYING" /\ MayReveal(r, p) /\ Turned(p, q)
  BY <1>3, TurnedReady DEF MayReveal
<1>4. CASE /\ p.phase = "PLAYING" /\ MayReveal(r, p)
           /\ \E mid : /\ Turned(p, mid)
                       /\ \E c \in Options(r, mid, mid.trump, FALSE) : Discards(r, k, mid, c, q)
  <2>1. PICK mid : /\ Turned(p, mid)
                   /\ \E c \in Options(r, mid, mid.trump, FALSE) : Discards(r, k, mid, c, q)
    BY <1>4
  <2>2. PICK c \in Options(r, mid, mid.trump, FALSE) : Discards(r, k, mid, c, q)
    BY <2>1
  <2>3. c \in mid.hands[mid.turn]
    BY OptionsHeld
  <2>4. Ready(r, k, mid) /\ mid.phase = "PLAYING"
    BY <1>4, <2>1, TurnedReady DEF MayReveal, Turned
  <2> QED BY <2>2, <2>3, <2>4, DiscardReady
<1> QED BY <1>1, <1>2, <1>3, <1>4 DEF MoveEffect

\* A hand as dealHand lays it out.
NewHand(r, k, dealer, i, d, q) ==
  /\ Shape(q) /\ q.number = i /\ q.phase = FirstPhase(r) /\ q.dealer = dealer
  /\ q.turn = OrElse(Chooser(r, k, dealer), SeatAfter(k, dealer))
  /\ q.declarer = Chooser(r, k, dealer) /\ q.trump = InitialTrump(r, d)
  /\ q.revealed = (r.trump.mode \in {"static", "none", "kitty-turnup"})
  /\ q.pendingTrumpReveal = FALSE
  /\ q.hands = d.hands /\ q.front = d.front /\ q.kitty = d.kitty
  /\ q.trick = << >> /\ q.lead = {} /\ q.completedTricks = << >> /\ q.broken = {}
  /\ q.won = [s \in Seats(k) |-> 0] /\ q.points = [t \in Teams(r, k) |-> 0]
  /\ q.bid = [s \in Seats(k) |-> Quota(r, k, dealer, s)]
  /\ q.lastResult = {}

\* dealHand lays out a new hand and carries the totals over.
LEMMA DealIsNewHand ==
  ASSUME NEW r, NEW k, NEW dealer, NEW i, NEW d, NEW scores, NEW bags, NEW rough,
         NEW q, q = DealHand(r, k, dealer, i, d, scores, bags, rough)
  PROVE  NewHand(r, k, dealer, i, d, q) /\ q.scores = scores /\ q.bags = bags /\ q.rough = rough
BY DEF DealHand, NewHand, Shape, Fields

\* A hand just dealt is in order.
LEMMA NewHandReady ==
  ASSUME NEW r, NEW k, Table(r, k), NEW dealer \in Seats(k), NEW i \in Nat, i >= 1,
         NEW d \in Deals(r, k, i), NEW q, NewHand(r, k, dealer, i, d, q)
  PROVE  Ready(r, k, q)
<1>1. k \in Nat /\ k >= 2 /\ dealer \in Nat
  BY SeatsHold DEF Seats
<1>2. Dealing(r, k, i, d)
  BY DealsHold
<1>3. \A a \in Int : a % k \in Seats(k)
  <2>1. \A a \in Int, b \in Nat : b >= 2 => a % b \in 0..(b - 1)
    OBVIOUS
  <2> QED BY <1>1, <2>1 DEF Seats
<1>4. Chooser(r, k, dealer) \subseteq Seats(k)
  <2>1. r.trump.chooserOffset \subseteq Int
    BY RulesHold DEF Table, WellTyped
  <2> QED BY <1>1, <1>3, <2>1 DEF Chooser
<1>5. q.turn \in Seats(k)
  <2>1. SeatAfter(k, dealer) \in Seats(k)
    BY <1>1, NextSeat
  <2>2. q.turn = OrElse(Chooser(r, k, dealer), SeatAfter(k, dealer))
    BY DEF NewHand
  <2> QED BY <1>4, <2>1, <2>2, OptionHolds
<1>6. \A s \in Seats(k) : Quota(r, k, dealer, s) \in Int
  <2> SUFFICES ASSUME NEW s \in Seats(k) PROVE Quota(r, k, dealer, s) \in Int
    OBVIOUS
  <2> DEFINE j == ((s - dealer + k) % k) + 1
             Q == {x[j] : x \in {z \in r.quotas : j <= Len(z)}}
  <2>1. (s - dealer + k) % k \in Seats(k)
    <3>1. s \in Int
      BY <1>1 DEF Seats
    <3> QED BY <1>1, <1>3, <3>1
  <2>2. j \in Nat /\ j >= 1
    BY <1>1, <2>1 DEF Seats
  <2>3. r.quotas \subseteq Seq(Nat)
    BY RulesHold DEF Table, WellTyped
  <2>4. Q \subseteq Int
    <3> HIDE DEF j
    <3> SUFFICES ASSUME NEW x \in r.quotas, j <= Len(x) PROVE x[j] \in Int
      OBVIOUS
    <3> QED BY <2>2, <2>3
  <2>5. Quota(r, k, dealer, s) = OrElse(Q, NoBid)
    BY DEF Quota
  <2> HIDE DEF Q, j
  <2>6. OrElse(Q, NoBid) = NoBid \/ OrElse(Q, NoBid) \in Q
    BY OptionHolds
  <2>7. NoBid \in Int
    BY DEF NoBid
  <2> QED BY <2>4, <2>5, <2>6, <2>7
<1>7. q.phase \in {"BIDDING", "TRUMP_SELECTION", "PLAYING"}
      /\ (q.phase = "BIDDING" => r.bidding # {})
      /\ (q.phase = "TRUMP_SELECTION" => AfterBidding(r) = "TRUMP_SELECTION" /\ r.trump.mode = "chooser")
  BY PhasesHold DEF NewHand, Table
<1>8. AfterBidding(r) = "TRUMP_SELECTION" => q.trump = {}
  <2>1. AfterBidding(r) = "TRUMP_SELECTION" => r.trump.mode \in {"hidden", "bid-selected", "chooser"}
    BY PhasesHold DEF Table
  <2> QED BY <2>1 DEF NewHand, InitialTrump
<1>9. r.trump.mode = "chooser" => q.declarer = {q.turn}
  <2> SUFFICES ASSUME r.trump.mode = "chooser" PROVE q.declarer = {q.turn}
    OBVIOUS
  <2>1. PICK o : o \in r.trump.chooserOffset /\ \A x \in r.trump.chooserOffset : x = o
    BY RulesHold DEF Table, WellTyped, ValidTrump, AtMostOne
  <2>2. Chooser(r, k, dealer) = {(dealer + o) % k}
    BY <2>1 DEF Chooser
  <2>3. OrElse({(dealer + o) % k}, SeatAfter(k, dealer)) = (dealer + o) % k
    BY DEF OrElse
  <2> QED BY <2>2, <2>3 DEF NewHand
<1>10. HandSize(r, k, i) \in Nat /\ HandSize(r, k, i) >= 1
  BY HandSizes
<1>11. q.number = i /\ q.trick = << >> /\ q.completedTricks = << >> /\ q.lead = {}
       /\ q.pendingTrumpReveal = FALSE /\ q.lastResult = {} /\ q.hands = d.hands
  BY DEF NewHand
<1>12. Typed(r, k, q)
  <2>1. Shape(q) /\ q.dealer = dealer /\ q.revealed \in BOOLEAN /\ q.kitty \in SUBSET Deck(r)
        /\ q.hands \in [Seats(k) -> SUBSET Deck(r)]
    BY <1>2 DEF NewHand, Dealing
  <2>2. q.won \in [Seats(k) -> Nat] /\ q.points \in [Teams(r, k) -> Int]
        /\ q.bid \in [Seats(k) -> Int]
    BY <1>6 DEF NewHand
  <2>3. q.trick \in Seq(Seats(k) \X Deck(r)) /\ Len(q.trick) = 0
    BY <1>11
  <2>4. /\ q.completedTricks \in Seq(Range(q.completedTricks))
        /\ \A j \in DOMAIN q.completedTricks : TrickTyped(r, k, q.completedTricks[j])
    BY <1>11
  <2>5. q.number \in Nat /\ q.number >= 1 /\ Len(q.trick) < k
    BY <1>1, <1>11, <2>3
  <2> QED BY <1>5, <1>7, <1>11, <2>1, <2>2, <2>3, <2>4, <2>5 DEF Typed
<1>13. Course(r, k, q)
  <2>1. Len(q.completedTricks) = 0
    BY <1>11
  <2>2. Len(q.completedTricks) < HandSize(r, k, q.number)
    BY <1>10, <1>11, <2>1
  <2> QED BY <1>7, <1>8, <1>9, <1>11, <2>2 DEF Course
<1>14. Turns(k, q)
  BY <1>11 DEF Turns
<1>15. Sizes(r, k, q)
  <2>1. \A s : ~OnTable(q, s)
    BY <1>11 DEF OnTable
  <2>2. Len(q.completedTricks) = 0
    BY <1>11
  <2> SUFFICES ASSUME NEW s \in Seats(k)
               PROVE  Cardinality(q.hands[s]) = HandSize(r, k, i) - 0 - 0
    BY <1>11, <2>1, <2>2 DEF Sizes
  <2> QED BY <1>2, <1>10, <1>11 DEF Dealing
<1> QED BY <1>12, <1>13, <1>14, <1>15 DEF Ready

-----------------------------------------------------------------------------
(* The bidding's outcome, and the scoring.                                 *)

\* What the end of the bidding does.
BidEffect(r, k, p, bids, d, q) ==
  /\ Undealt(p, q) /\ q.bid = bids /\ q.declarer = d /\ q.trump = p.trump
  /\ q.revealed = p.revealed /\ q.phase = PhaseAfter(r, p.phase)
  /\ q.turn = IF q.phase = "TRUMP_SELECTION" /\ d # {}
              THEN OrElse(d, 0) ELSE SeatAfter(k, p.dealer)

\* The end of the bidding keeps a hand in order.
LEMMA BidReady ==
  ASSUME NEW r, NEW k, Table(r, k), NEW p, Ready(r, k, p), p.phase = "BIDDING",
         NEW bids \in [Seats(k) -> Int], NEW d,
         IF NamesTrump(r) THEN \E s \in Seats(k) : d = {s} ELSE d = {},
         NEW q, BidEffect(r, k, p, bids, d, q)
  PROVE  Ready(r, k, q)
<1>1. q.phase = AfterBidding(r) /\ r.bidding # {}
  BY PhasesHold DEF Ready, Course, BidEffect, Table
<1>2. q.phase \in {"TRUMP_SELECTION", "PLAYING"}
  BY <1>1, PhasesHold DEF Table
<1>3. q.phase = "TRUMP_SELECTION" => NamesTrump(r)
  BY <1>1, PhasesHold DEF Table
<1>4. p.trick = << >> /\ p.completedTricks = << >> /\ p.lastResult = {}
      /\ (q.phase = "TRUMP_SELECTION" => p.trump = {})
  BY <1>1 DEF Ready, Course
<1>5. Undealt(p, q) /\ q.bid = bids /\ q.trump = p.trump /\ q.revealed = p.revealed
      /\ q.declarer = d
  BY DEF BidEffect
<1>6. SeatAfter(k, p.dealer) \in Seats(k)
  BY SeatsHold, NextSeat DEF Ready, Typed
<1>7. q.turn \in Seats(k) /\ (q.phase = "TRUMP_SELECTION" => q.declarer = {q.turn})
  <2>1. CASE q.phase = "TRUMP_SELECTION"
    <3>1. PICK s \in Seats(k) : d = {s}
      BY <1>3, <2>1
    <3>2. OrElse({s}, 0) = s
      BY DEF OrElse
    <3>3. q.turn = s
      BY <2>1, <3>1, <3>2 DEF BidEffect
    <3> QED BY <1>5, <3>1, <3>3
  <2>2. CASE q.phase # "TRUMP_SELECTION"
    BY <1>6, <2>2 DEF BidEffect
  <2> QED BY <2>1, <2>2
<1>8. Typed(r, k, q)
  BY <1>2, <1>5, <1>7 DEF Ready, Typed, Undealt
<1>9. Course(r, k, q)
  <2>1. HandSize(r, k, p.number) >= 1 /\ HandSize(r, k, p.number) \in Nat
    BY HandSizes DEF Ready, Typed
  <2>2. Len(q.completedTricks) = 0
    BY <1>4, <1>5 DEF Undealt
  <2>3. Len(q.completedTricks) < HandSize(r, k, q.number)
    BY <2>1, <2>2, <1>5 DEF Undealt
  <2> QED BY <1>1, <1>2, <1>4, <1>5, <1>7, <2>3 DEF Ready, Course, Undealt
<1>10. Turns(k, q)
  BY <1>4, <1>5 DEF Turns, Undealt
<1>11. Sizes(r, k, q)
  BY <1>5 DEF Ready, Sizes, Undealt, OnTable
<1> QED BY <1>8, <1>9, <1>10, <1>11 DEF Ready

\* The position but for the totals and the result.
Tallied(p, q) ==
  /\ Shape(q) /\ q.number = p.number /\ q.phase = p.phase /\ q.dealer = p.dealer
  /\ q.turn = p.turn /\ q.declarer = p.declarer /\ q.trump = p.trump
  /\ q.revealed = p.revealed /\ q.pendingTrumpReveal = p.pendingTrumpReveal
  /\ q.hands = p.hands /\ q.front = p.front /\ q.kitty = p.kitty /\ q.trick = p.trick
  /\ q.lead = p.lead /\ q.completedTricks = p.completedTricks /\ q.broken = p.broken
  /\ q.won = p.won /\ q.points = p.points /\ q.bid = p.bid

\* applyHandScoring changes the totals and the result, and nothing else.
LEMMA ScoringTallies ==
  ASSUME NEW r, NEW k, NEW p, Shape(p), NEW short, NEW x,
         NEW q, q = ApplyHandScoring(r, k, p, short, x)
  PROVE  /\ Tallied(p, q) /\ q.scores = NewScores(r, k, p) /\ q.bags = BagsLeft(r, p)
         /\ q.rough = Rough(r, k, p)
         /\ q.lastResult = {Result(r, k, p, NewScores(r, k, p), short, x)}
BY DEF ApplyHandScoring, Tallied, Shape, Fields

\* Scoring keeps a hand in order.
LEMMA TalliedReady ==
  ASSUME NEW r, NEW k, NEW p, Ready(r, k, p), p.phase = "SCORING", NEW q, Tallied(p, q)
  PROVE  Ready(r, k, q)
<1>1. Typed(r, k, q)
  BY DEF Ready, Typed, Tallied
<1>2. Course(r, k, q)
  BY DEF Ready, Course, Tallied
<1>3. Turns(k, q)
  BY DEF Ready, Turns, Tallied
<1>4. Sizes(r, k, q)
  BY DEF Ready, Sizes, Tallied, OnTable
<1> QED BY <1>1, <1>2, <1>3, <1>4 DEF Ready

\* What every position reached is.
Playing == Table(rules, n) /\ ValidHandLimit(override) /\ Ready(rules, n, g)

\* Two seats are not equally far from a third.
LEMMA TurnsDiffer ==
  ASSUME NEW k \in Nat, NEW d \in Seats(k),
         NEW s \in Seats(k), NEW u \in Seats(k), s # u
  PROVE  \/ (IF s > d THEN s - d ELSE s - d + k) < (IF u > d THEN u - d ELSE u - d + k)
         \/ (IF u > d THEN u - d ELSE u - d + k) < (IF s > d THEN s - d ELSE s - d + k)
BY DEF Seats

\* In a single round one of two seats acts before the other.
LEMMA TurnsApart ==
  ASSUME n \in Nat, g.dealer \in Seats(n),
         NEW s \in Seats(n), NEW u \in Seats(n), s # u
  PROVE  Place(s) < Place(u) \/ Place(u) < Place(s)
BY TurnsDiffer DEF Place

\* There is one bidding, from a number that is not negative.
LEMMA BiddingHolds ==
  ASSUME Table(rules, n), NEW b \in rules.bidding
  PROVE  /\ b.minBid \in Int /\ b.maxBid \in Int /\ b.minBid >= 0
         /\ b.auction => b.namesTrump
         /\ rules.bidding = {b} /\ (NamesTrump(rules) <=> b.namesTrump)
<1>1. /\ b.minBid \in Int /\ b.maxBid \in Int /\ b.minBid >= 0
      /\ b.auction => b.namesTrump
  BY RulesHold DEF Table, WellTyped, Modelled
<1>2. rules.bidding = {b}
  BY RulesHold DEF Table, WellTyped, AtMostOne
<1> QED BY <1>1, <1>2 DEF NamesTrump

\* What the seats have bid are numbers.
LEMMA BidsTyped ==
  ASSUME Table(rules, n), NEW bids \in BidsMade
  PROVE  bids \in [Seats(n) -> Int]
<1>1. PICK b \in rules.bidding :
        bids \in IF b.auction THEN AuctionEnds(b)
                 ELSE IF b.namesTrump THEN RoundEnds(b) ELSE QuotasStaked(b)
  BY DEF BidsMade
<1>2. b.minBid \in Int /\ b.maxBid \in Int
  BY BiddingHolds
<1>3. Pass \in Int /\ NoBid \in Int
  BY DEF Pass, NoBid
<1>4. CASE bids \in AuctionEnds(b)
  BY <1>2, <1>3, <1>4 DEF AuctionEnds
<1>5. CASE bids \in RoundEnds(b)
  BY <1>2, <1>3, <1>5 DEF RoundEnds
<1>6. CASE bids \in QuotasStaked(b)
  BY <1>2, <1>3, <1>6 DEF QuotasStaked
<1> QED BY <1>1, <1>4, <1>5, <1>6

\* Two seats do not stand at the same number.
LEMMA NumbersDiffer ==
  ASSUME Table(rules, n), g.dealer \in Seats(n), NamesTrump(rules), NEW bids \in BidsMade,
         NEW s \in Seats(n), NEW u \in Seats(n), bids[s] >= 0, bids[u] >= 0, bids[s] = bids[u]
  PROVE  s = u
<1>1. PICK b \in rules.bidding :
        bids \in IF b.auction THEN AuctionEnds(b)
                 ELSE IF b.namesTrump THEN RoundEnds(b) ELSE QuotasStaked(b)
  BY DEF BidsMade
<1>2. b.namesTrump /\ b.minBid \in Int /\ b.maxBid \in Int
  BY BiddingHolds
<1>3. ~(Pass >= 0) /\ ~(NoBid >= 0)
  BY DEF Pass, NoBid
<1>4. CASE bids \in AuctionEnds(b)
  BY <1>3, <1>4 DEF AuctionEnds
<1>5. CASE bids \in RoundEnds(b)
  <2>1. \A x, y \in Seats(n) : Place(x) < Place(y) /\ bids[y] # Pass => bids[x] < bids[y]
    BY <1>5 DEF RoundEnds
  <2>2. bids[s] # Pass /\ bids[u] # Pass
    BY <1>3
  <2>3. bids[s] \in Int /\ bids[u] \in Int
    BY BidsTyped
  <2> SUFFICES ASSUME s # u PROVE FALSE
    OBVIOUS
  <2>4. Place(s) < Place(u) \/ Place(u) < Place(s)
    <3>1. n \in Nat
      BY SeatsHold
    <3> QED BY <3>1, TurnsApart
  <2>5. bids[s] < bids[u] \/ bids[u] < bids[s]
    BY <2>1, <2>2, <2>4
  <2> QED BY <2>3, <2>5
<1> QED BY <1>1, <1>2, <1>4, <1>5

\* The bids are numbers, and a bidding that names trump leaves one declarer.
LEMMA BidsHold ==
  ASSUME Table(rules, n), g.dealer \in Seats(n), NEW bids \in BidsMade
  PROVE  /\ bids \in [Seats(n) -> Int]
         /\ IF NamesTrump(rules) THEN \E s \in Seats(n) : DeclarerOf(bids) = {s}
                                 ELSE DeclarerOf(bids) = {}
<1>1. bids \in [Seats(n) -> Int]
  BY BidsTyped
<1> DEFINE bidders == {s \in Seats(n) : bids[s] >= 0}
<1>2. CASE ~NamesTrump(rules)
  BY <1>1, <1>2 DEF DeclarerOf
<1>3. CASE NamesTrump(rules) /\ bidders = {}
  BY <1>1, <1>3 DEF DeclarerOf
<1>4. CASE NamesTrump(rules) /\ bidders # {}
  <2> DEFINE h == [s \in bidders |-> bids[s]]
  <2>1. IsFiniteSet(bidders) /\ \A s \in bidders : h[s] \in Int
    BY <1>1, SeatsHold, FS_Subset
  <2>2. PICK s \in bidders : \A u \in bidders : h[u] <= h[s]
    <3> HIDE DEF h, bidders
    <3> QED BY <1>4, <2>1, FiniteHasGreatest
  <2>3. \A u \in bidders : bids[u] <= bids[s]
    BY <2>2
  <2>4. ASSUME NEW u \in bidders, \A v \in bidders : bids[v] <= bids[u] PROVE u = s
    <3>1. bids[u] = bids[s]
      <4>1. bids[u] <= bids[s] /\ bids[s] <= bids[u] /\ bids[u] \in Int /\ bids[s] \in Int
        BY <1>1, <2>3, <2>4
      <4> QED BY <4>1
    <3> QED BY <1>4, <3>1, NumbersDiffer
  <2>5. DeclarerOf(bids) = {u \in bidders : \A v \in bidders : bids[v] <= bids[u]}
    BY <1>4 DEF DeclarerOf
  <2>6. DeclarerOf(bids) = {s}
    <3> HIDE DEF bidders
    <3> QED BY <2>3, <2>4, <2>5
  <2> QED BY <1>1, <1>4, <2>6
<1> QED BY <1>2, <1>3, <1>4

\* The steps of Next other than moves, by their effect.
BidStep ==
  /\ g.phase = "BIDDING"
  /\ \E bids \in BidsMade :
       /\ HookAllows(bids) /\ BidEffect(rules, n, g, bids, DeclarerOf(bids), g')
       /\ bids \in [Seats(n) -> Int]
       /\ IF NamesTrump(rules) THEN \E s \in Seats(n) : DeclarerOf(bids) = {s}
                               ELSE DeclarerOf(bids) = {}

ScoreStep ==
  /\ g.phase = "SCORING" /\ g.lastResult = {}
  /\ Tallied(g, g') /\ g'.scores = NewScores(rules, n, g) /\ g'.bags = BagsLeft(rules, g)
  /\ g'.rough = Rough(rules, n, g)
  /\ \E short \in SUBSET Rough(rules, n, g) :
       g'.lastResult = {Result(rules, n, g, NewScores(rules, n, g), short, override)}

DealStep ==
  \E x \in g.lastResult : \E d \in Deals(rules, n, g.number + 1) :
    /\ x.endReason = {}
    /\ NewHand(rules, n, SeatAfter(n, g.dealer), g.number + 1, d, g')
    /\ g'.scores = g.scores /\ g'.bags = g.bags /\ g'.rough = g.rough

\* What each step of the match does to the position.
LEMMA Steps ==
  ASSUME Playing, Next
  PROVE  /\ rules' = rules /\ n' = n /\ override' = override
         /\ BidStep \/ MoveEffect(rules, n, g, g') \/ ScoreStep \/ DealStep
<1>1. Shape(g)
  BY DEF Playing, Ready, Typed
<1>2. CASE Bid
  <2>1. PICK bids \in BidsMade :
       /\ HookAllows(bids)
       /\ g' = [g EXCEPT !.bid = bids, !.declarer = DeclarerOf(bids),
                         !.phase = PhaseAfter(rules, g.phase),
                         !.turn = IF PhaseAfter(rules, g.phase) = "TRUMP_SELECTION" /\ DeclarerOf(bids) # {}
                                  THEN OrElse(DeclarerOf(bids), 0) ELSE SeatAfter(n, g.dealer)]
    BY <1>2 DEF Bid
  <2>2. BidEffect(rules, n, g, bids, DeclarerOf(bids), g')
    <3> DEFINE d == DeclarerOf(bids)
    <3> HIDE DEF d
    <3> QED BY <1>1, <2>1 DEF BidEffect, Undealt, Shape, Fields, d
  <2>3. BidStep
    <3>1. Table(rules, n) /\ g.dealer \in Seats(n)
      BY DEF Playing, Ready, Typed
    <3>2. /\ bids \in [Seats(n) -> Int]
          /\ IF NamesTrump(rules) THEN \E s \in Seats(n) : DeclarerOf(bids) = {s}
                                  ELSE DeclarerOf(bids) = {}
      BY <3>1, BidsHold
    <3> QED BY <1>2, <2>1, <2>2, <3>2 DEF Bid, BidStep
  <2> QED BY <1>2, <2>3 DEF Bid
<1>3. CASE Move
  <2>1. PICK m \in LegalMoves(rules, g) : g' = ApplyMove(rules, n, g, m)
    BY <1>3 DEF Move
  <2>2. MoveEffect(rules, n, g, g')
    BY <1>1, <2>1, MoveHasEffect
  <2> QED BY <1>3, <2>2 DEF Move
<1>4. CASE Score
  <2>1. PICK short \in SUBSET Rough(rules, n, g) :
          g' = ApplyHandScoring(rules, n, g, short, override)
    BY <1>4 DEF Score
  <2>2. PICK q : q = g'
    OBVIOUS
  <2>3. /\ Tallied(g, q) /\ q.scores = NewScores(rules, n, g) /\ q.bags = BagsLeft(rules, g)
        /\ q.rough = Rough(rules, n, g)
        /\ q.lastResult = {Result(rules, n, g, NewScores(rules, n, g), short, override)}
    BY <1>1, <2>1, <2>2, ScoringTallies
  <2>4. ScoreStep
    BY <1>4, <2>2, <2>3 DEF Score, ScoreStep
  <2> QED BY <1>4, <2>4 DEF Score
<1>5. CASE StartNextHand
  <2>1. PICK x \in g.lastResult : x.endReason = {}
    BY <1>5 DEF StartNextHand
  <2>2. PICK d \in Deals(rules, n, g.number + 1) :
       g' = DealHand(rules, n, SeatAfter(n, g.dealer), g.number + 1, d, g.scores, g.bags, g.rough)
    BY <1>5 DEF StartNextHand
  <2>3. PICK q : q = g'
    OBVIOUS
  <2>4. NewHand(rules, n, SeatAfter(n, g.dealer), g.number + 1, d, q)
        /\ q.scores = g.scores /\ q.bags = g.bags /\ q.rough = g.rough
    BY <2>2, <2>3, DealIsNewHand
  <2>5. DealStep
    BY <2>1, <2>2, <2>3, <2>4 DEF DealStep
  <2> QED BY <1>5, <2>5 DEF StartNextHand
<1> QED BY <1>2, <1>3, <1>4, <1>5 DEF Next

\* A match starts with a new hand and no points.
LEMMA Starts ==
  ASSUME Init
  PROVE  /\ Table(rules, n) /\ ValidHandLimit(override)
         /\ \E d \in Deals(rules, n, 1) : NewHand(rules, n, 0, 1, d, g)
         /\ g.scores = [t \in Teams(rules, n) |-> 0] /\ g.bags = [t \in Teams(rules, n) |-> 0]
<1>1. Table(rules, n) /\ ValidHandLimit(override)
  BY DEF Init, Opened, Table
<1>2. PICK z : z = [t \in Teams(rules, n) |-> 0]
  OBVIOUS
<1>3. PICK d \in Deals(rules, n, 1) : g = DealHand(rules, n, 0, 1, d, z, z, {})
  BY <1>2 DEF Init, Opened
<1>4. NewHand(rules, n, 0, 1, d, g) /\ g.scores = z /\ g.bags = z
  BY <1>3, DealIsNewHand
<1> QED BY <1>1, <1>2, <1>4

\* The match starts in order.
LEMMA InitPlaying == Init => Playing
<1> SUFFICES ASSUME Init PROVE Playing
  OBVIOUS
<1>1. Table(rules, n) /\ ValidHandLimit(override)
  BY Starts
<1>2. PICK d \in Deals(rules, n, 1) : NewHand(rules, n, 0, 1, d, g)
  BY Starts
<1>3. 0 \in Seats(n)
  BY <1>1, SeatsHold
<1>4. Ready(rules, n, g)
  BY <1>1, <1>2, <1>3, NewHandReady
<1> QED BY <1>1, <1>4 DEF Playing

\* Every step keeps the match in order.
LEMMA StepPlaying == Playing /\ [Next]_vars => Playing'
<1> SUFFICES ASSUME Playing, [Next]_vars PROVE Playing'
  OBVIOUS
<1>1. CASE UNCHANGED vars
  BY <1>1 DEF Playing, vars
<1>2. CASE Next
  <2>1. rules' = rules /\ n' = n /\ override' = override
    BY <1>2, Steps
  <2>2. PICK q : q = g'
    OBVIOUS
  <2>3. Table(rules, n) /\ Ready(rules, n, g) /\ ValidHandLimit(override)
    BY DEF Playing
  <2>4. CASE BidStep
    <3>1. Ready(rules, n, q)
      BY <2>2, <2>3, <2>4, BidReady DEF BidStep
    <3> QED BY <2>1, <2>2, <2>3, <3>1 DEF Playing
  <2>5. CASE MoveEffect(rules, n, g, g')
    <3>1. Ready(rules, n, q)
      BY <2>2, <2>3, <2>5, MoveReady
    <3> QED BY <2>1, <2>2, <2>3, <3>1 DEF Playing
  <2>6. CASE ScoreStep
    <3>1. Ready(rules, n, q)
      BY <2>2, <2>3, <2>6, TalliedReady DEF ScoreStep
    <3> QED BY <2>1, <2>2, <2>3, <3>1 DEF Playing
  <2>7. CASE DealStep
    <3>1. PICK d \in Deals(rules, n, g.number + 1) :
            NewHand(rules, n, SeatAfter(n, g.dealer), g.number + 1, d, q)
      BY <2>2, <2>7 DEF DealStep
    <3>2. g.number + 1 \in Nat /\ g.number + 1 >= 1 /\ g.dealer \in Seats(n)
      BY <2>3 DEF Ready, Typed
    <3>3. SeatAfter(n, g.dealer) \in Seats(n)
      BY <2>3, <3>2, SeatsHold, NextSeat
    <3>4. Ready(rules, n, q)
      BY <2>3, <3>1, <3>2, <3>3, NewHandReady
    <3> QED BY <2>1, <2>2, <2>3, <3>4 DEF Playing
  <2> QED BY <1>2, <2>4, <2>5, <2>6, <2>7, Steps
<1> QED BY <1>1, <1>2

\* Whoever has a card left may play one.
LEMMA OptionsExist ==
  ASSUME NEW r, NEW p, NEW trump, NEW forced, p.hands[p.turn] # {}
  PROVE  Options(r, p, trump, forced) # {}
BY DEF Options, LeadOptions, FollowOptions, InSuit

\* While the play lasts the seat on turn has a card left.
LEMMA HandToPlay ==
  ASSUME NEW r, NEW k, Table(r, k), NEW p, Ready(r, k, p), p.phase = "PLAYING"
  PROVE  p.hands[p.turn] # {}
<1>1. ~OnTable(p, p.turn) /\ p.turn \in Seats(k)
  BY TurnIsFree DEF Ready, Typed
<1>2. Cardinality(p.hands[p.turn]) = HandSize(r, k, p.number) - Len(p.completedTricks) - 0
  BY <1>1 DEF Ready, Sizes
<1>3. Len(p.completedTricks) < HandSize(r, k, p.number)
  BY DEF Ready, Course
<1>4. HandSize(r, k, p.number) \in Nat /\ Len(p.completedTricks) \in Nat
  <2>1. p.number \in Nat /\ p.number >= 1
    BY DEF Ready, Typed
  <2>2. HandSize(r, k, p.number) \in Nat
    BY <2>1, HandSizes
  <2>3. p.completedTricks \in Seq(Range(p.completedTricks))
    BY DEF Ready, Typed
  <2> QED BY <2>2, <2>3
<1>5. Cardinality(p.hands[p.turn]) # 0
  BY <1>2, <1>3, <1>4
<1> QED BY <1>5, FS_EmptySet

\* A match in order is never stuck.
LEMMA NeverStuck == Playing => SomeMoveUntilScoring
<1> SUFFICES ASSUME Playing, g.phase \in {"TRUMP_SELECTION", "PLAYING"}
             PROVE  /\ LegalMoves(rules, g) # {}
                    /\ \A m \in LegalMoves(rules, g) : \A i \in DOMAIN m :
                         m[i][1] = "PLAY_CARD" => m[i][2] \in g.hands[g.turn]
  BY DEF SomeMoveUntilScoring
<1>1. Table(rules, n) /\ Ready(rules, n, g)
  BY DEF Playing
<1>2. CASE g.phase = "TRUMP_SELECTION"
  <2>1. Suits(rules) # {} /\ rules.trump.mode \in {"hidden", "bid-selected", "chooser"}
        /\ g.declarer = {g.turn} /\ g.trump = {}
    <3>1. Suits(rules) # {}
      <4>1. PICK suits : suits = rules.suits
        OBVIOUS
      <4>2. suits \in Seq(Range(suits)) /\ suits # << >>
        BY <1>1, <4>1, RulesHold DEF Table, ValidDeck, WellTyped
      <4>3. suits[1] \in Range(suits)
        BY <4>2
      <4> QED BY <4>1, <4>3 DEF Suits
    <3> QED BY <1>1, <1>2, <3>1, RulesHold, PhasesHold DEF Table, Ready, Course
  <2>2. LegalMoves(rules, g) = {<<Select(s)>> : s \in Suits(rules)}
    BY <1>2, <2>1 DEF LegalMoves, TrumpMoves
  <2>3. \A m \in LegalMoves(rules, g) : \A i \in DOMAIN m : m[i][1] = "SELECT_TRUMP"
    BY <2>2 DEF Select
  <2> QED BY <2>1, <2>2, <2>3
<1>3. CASE g.phase = "PLAYING"
  <2>1. LegalMoves(rules, g) = PlayingMoves(rules, g)
    BY <1>3 DEF LegalMoves
  <2>2. PICK c : c \in Options(rules, g, VisibleTrump(g), OwesTrump(rules, g))
    BY <1>1, <1>3, HandToPlay, OptionsExist
  <2>3. <<Play(c)>> \in PlayingMoves(rules, g)
    BY <2>2 DEF PlayingMoves
  <2>4. ASSUME NEW m \in PlayingMoves(rules, g), NEW i \in DOMAIN m, m[i][1] = "PLAY_CARD"
        PROVE  m[i][2] \in g.hands[g.turn]
    <3>1. CASE \E x \in Options(rules, g, VisibleTrump(g), OwesTrump(rules, g)) : m = <<Play(x)>>
      <4>1. PICK x \in Options(rules, g, VisibleTrump(g), OwesTrump(rules, g)) : m = <<Play(x)>>
        BY <3>1
      <4>2. m[i][2] = x
        BY <4>1, <2>4 DEF Play
      <4>3. x \in g.hands[g.turn]
        BY OptionsHeld
      <4> QED BY <4>2, <4>3
    <3>2. CASE \E x \in Options(rules, g, g.trump, FALSE) : m = <<Reveal, Play(x)>>
      <4>1. PICK x \in Options(rules, g, g.trump, FALSE) : m = <<Reveal, Play(x)>>
        BY <3>2
      <4>2. i = 1 \/ i = 2
        BY <4>1
      <4>3. m[i][2] = x
        BY <4>1, <4>2, <2>4 DEF Play, Reveal
      <4>4. x \in g.hands[g.turn]
        BY OptionsHeld
      <4> QED BY <4>3, <4>4
    <3>3. CASE m = <<Reveal>>
      <4>1. m[i][1] = "REVEAL_TRUMP"
        BY <3>3 DEF Reveal
      <4> QED BY <4>1, <2>4
    <3>4. \/ \E x \in Options(rules, g, VisibleTrump(g), OwesTrump(rules, g)) : m = <<Play(x)>>
          \/ \E x \in Options(rules, g, g.trump, FALSE) : m = <<Reveal, Play(x)>>
          \/ m = <<Reveal>>
      BY <2>4 DEF PlayingMoves, CompoundMoves
    <3> QED BY <3>1, <3>2, <3>3, <3>4
  <2> QED BY <2>1, <2>3, <2>4
<1> QED BY <1>2, <1>3

\* RevealIsPaid, of one step.
PaysReveal ==
  rules.mustTrumpAfterOwnReveal /\ g.pendingTrumpReveal /\ g'.hands # g.hands =>
    LET c == CHOOSE x \in g.hands[g.turn] : x \notin g'.hands[g.turn]
    IN  \/ Suit(c) \in g.trump \cup g.lead
        \/ InSuit(g.hands[g.turn], g.trump) = {}

\* In a match in order whoever turned trump up plays it, follows suit or has none.
LEMMA RevealPays == Playing /\ [Next]_vars => PaysReveal \/ UNCHANGED vars
<1> SUFFICES ASSUME Playing, Next, rules.mustTrumpAfterOwnReveal, g.pendingTrumpReveal,
                    g'.hands # g.hands
             PROVE  LET c == CHOOSE x \in g.hands[g.turn] : x \notin g'.hands[g.turn]
                    IN  \/ Suit(c) \in g.trump \cup g.lead
                        \/ InSuit(g.hands[g.turn], g.trump) = {}
  BY DEF PaysReveal
<1>1. Table(rules, n) /\ Ready(rules, n, g)
  BY DEF Playing
<1>2. g.pendingTrumpReveal = TRUE
  BY <1>1 DEF Ready, Typed
<1>3. g.phase = "PLAYING" /\ g.trick # << >> /\ g.revealed = TRUE /\ g.lastResult = {}
  BY <1>1, <1>2 DEF Ready, Course
<1>4. OwesTrump(rules, g) /\ ~MayReveal(rules, g)
  BY DEF OwesTrump, MayReveal
<1>5. MoveEffect(rules, n, g, g')
  BY <1>3, Steps DEF BidStep, ScoreStep, DealStep
<1>6. PICK c \in Options(rules, g, VisibleTrump(g), OwesTrump(rules, g)) :
        Discards(rules, n, g, c, g')
  BY <1>3, <1>4, <1>5 DEF MoveEffect
<1>7. c \in g.hands[g.turn]
  BY OptionsHeld
<1>8. g'.hands[g.turn] = g.hands[g.turn] \ {c}
  <2>1. PICK q : q = g'
    OBVIOUS
  <2>2. Laid(rules, g, c, q)
    BY <1>6, <2>1 DEF Discards, PlayOn, PlayLast
  <2>3. q.hands[g.turn] = g.hands[g.turn] \ {c}
    BY <1>1, <1>7, <2>2, HandsWithout DEF Ready
  <2> QED BY <2>1, <2>3
<1>9. (CHOOSE x \in g.hands[g.turn] : x \notin g'.hands[g.turn]) = c
  <2>1. \A x : x \in g.hands[g.turn] /\ x \notin g'.hands[g.turn] <=> x = c
    BY <1>7, <1>8
  <2> QED BY <2>1
<1>10. c \in FollowOptions(rules, g.hands[g.turn], g.lead, g.trump, TRUE)
  <2>1. g.lead # {}
    BY <1>1, <1>3 DEF Ready, Course
  <2>2. VisibleTrump(g) = g.trump
    BY <1>3 DEF VisibleTrump
  <2>3. c \in FollowOptions(rules, g.hands[g.turn], g.lead, g.trump, OwesTrump(rules, g))
    BY <1>6, <2>1, <2>2 DEF Options
  <2> QED BY <1>4, <2>3 DEF FollowOptions
<1>11. Suit(c) \in g.trump \cup g.lead \/ InSuit(g.hands[g.turn], g.trump) = {}
  BY <1>10 DEF FollowOptions, InSuit
<1> QED BY <1>9, <1>11

LEMMA AlwaysPlaying == Spec => []Playing
BY InitPlaying, StepPlaying, PTL DEF Spec

\* A hand goes on until it can be scored (generateLegalMoves), where the rules deal
\* whole cards, none of them twice, in the phases that Playable asks for.
THEOREM HandsGoOn == Spec => []SomeMoveUntilScoring
BY AlwaysPlaying, NeverStuck, PTL

\* Whoever turns trump up pays for it with the next card
\* (mustTrumpAfterOwnReveal).
THEOREM RevealsArePaid == Spec => RevealIsPaid
<1>1. Playing /\ [Next]_vars => [PaysReveal]_vars
  BY RevealPays
<1>2. Spec => [][PaysReveal]_vars
  BY <1>1, AlwaysPlaying, PTL DEF Spec
<1>3. RevealIsPaid <=> [][PaysReveal]_vars
  BY DEF RevealIsPaid, PaysReveal
<1> QED BY <1>2, <1>3

-----------------------------------------------------------------------------
(* The books of a hand.                                                    *)

\* The cards of a list of tricks; those that are out; the tricks some seats
\* took; what a trick is worth.
PlayedIn(tricks) == UNION {CardsOf(tricks[i].cards) : i \in DOMAIN tricks}
Out(p) == PlayedIn(p.completedTricks) \cup CardsOf(p.trick)
WonBy(tricks, seats) == {i \in DOMAIN tricks : tricks[i].winner \in seats}
TrickWorth(r, tricks, i) == PointsOf(r, CardsOf(tricks[i].cards))

\* Every card is in one place.
Shares(r, k, p) ==
  /\ Out(p) \subseteq Deck(r) /\ p.kitty \subseteq Deck(r)
  /\ Out(p) \cap p.kitty = {}
  /\ \A s \in Seats(k) : p.hands[s] \cap Out(p) = {} /\ p.hands[s] \cap p.kitty = {}
  /\ \A s, u \in Seats(k) : s # u => p.hands[s] \cap p.hands[u] = {}
  /\ \A c \in Deck(r) : c \in Out(p) \/ c \in p.kitty \/ \E s \in Seats(k) : c \in p.hands[s]

\* The summaries are those of the tricks taken.
Counts(r, k, p) ==
  /\ \A s \in Seats(k) : p.won[s] = Cardinality(WonBy(p.completedTricks, {s}))
  /\ \A t \in Teams(r, k) :
       p.points[t] = SumFunction([i \in WonBy(p.completedTricks, t) |->
                                    TrickWorth(r, p.completedTricks, i)])

\* t is s with e at its end.
Grown(s, e, t) ==
  /\ Len(s) \in Nat /\ DOMAIN s = 1..Len(s) /\ DOMAIN t = 1..(Len(s) + 1)
  /\ \A i \in DOMAIN s : i \in DOMAIN t /\ t[i] = s[i] /\ i # Len(s) + 1
  /\ Len(s) + 1 \in DOMAIN t /\ t[Len(s) + 1] = e
  /\ \A i \in DOMAIN t : i \in DOMAIN s \/ i = Len(s) + 1
  /\ Len(t) = Len(s) + 1

\* Appending makes a history grow by one trick.
LEMMA AppendGrows ==
  ASSUME NEW s, NEW e, s \in Seq(Range(s))
  PROVE  Grown(s, e, Append(s, e))
<1> PICK t : t = Append(s, e)
  OBVIOUS
<1>1. /\ Len(s) \in Nat /\ Len(t) = Len(s) + 1
      /\ DOMAIN s = 1..Len(s) /\ DOMAIN t = 1..(Len(s) + 1)
      /\ \A i \in 1..Len(s) : t[i] = s[i]
      /\ t[Len(s) + 1] = e
  BY AppendHolds
<1> QED BY <1>1 DEF Grown

\* One more trick adds its cards to those that were played.
LEMMA PlayedGrows ==
  ASSUME NEW s, NEW e, NEW t, Grown(s, e, t)
  PROVE  PlayedIn(t) = PlayedIn(s) \cup CardsOf(e.cards)
BY DEF Grown, PlayedIn

\* One more trick adds its place to those its winner has taken.
LEMMA WonGrows ==
  ASSUME NEW s, NEW e, NEW t, Grown(s, e, t), NEW X
  PROVE  /\ WonBy(t, X) = WonBy(s, X) \cup (IF e.winner \in X THEN {Len(s) + 1} ELSE {})
         /\ Len(s) + 1 \notin WonBy(s, X) /\ IsFiniteSet(WonBy(s, X)) /\ IsFiniteSet(WonBy(t, X))
<1>1. IsFiniteSet(DOMAIN s) /\ IsFiniteSet(DOMAIN t)
  BY FS_Interval DEF Grown
<1>2. IsFiniteSet(WonBy(s, X)) /\ IsFiniteSet(WonBy(t, X))
  BY <1>1, FS_Subset DEF WonBy
<1> QED BY <1>2 DEF Grown, WonBy

\* No trick, no cards.
LEMMA CardsOfNone == CardsOf(<< >>) = {}
BY DEF CardsOf

\* A discard puts one card among those that are out.
LEMMA OutGrows ==
  ASSUME NEW r, NEW k, Table(r, k), NEW p, Ready(r, k, p), NEW c \in Deck(r), NEW q,
         Discards(r, k, p, c, q)
  PROVE  Out(q) = Out(p) \cup {c}
<1>1. PICK T : T = TableWith(p, c)
  OBVIOUS
<1>2. CardsOf(T) = CardsOf(p.trick) \cup {c}
  <2>1. Typed(r, k, p)
    BY DEF Ready
  <2>2. OneMore(r, k, p, c, T)
    BY <1>1, <2>1, TableWithHolds
  <2> QED BY <2>2 DEF OneMore
<1>3. CASE Len(TableWith(p, c)) < k
  <2>1. q.completedTricks = p.completedTricks /\ q.trick = T
    BY <1>1, <1>3 DEF Discards, PlayOn
  <2> QED BY <1>2, <2>1 DEF Out
<1>4. CASE ~(Len(TableWith(p, c)) < k)
  <2>1. PICK e : /\ q.completedTricks = Append(p.completedTricks, e)
                 /\ e.cards = T
    <3>1. PICK e : e = [cards |-> T, winner |-> Taker(r, p, c),
                        lead |-> LeadWith(p, c), trump |-> ShownWith(r, p, c)]
      OBVIOUS
    <3>2. q.completedTricks = Append(p.completedTricks, e)
      BY <1>1, <1>4, <3>1 DEF Discards, PlayLast
    <3> QED BY <3>1, <3>2
  <2>2. q.trick = << >>
    BY <1>4 DEF Discards, PlayLast
  <2>3. Grown(p.completedTricks, e, q.completedTricks)
    <3>1. p.completedTricks \in Seq(Range(p.completedTricks))
      BY DEF Ready, Typed
    <3> QED BY <2>1, <3>1, AppendGrows
  <2>4. PlayedIn(q.completedTricks) = PlayedIn(p.completedTricks) \cup CardsOf(e.cards)
    BY <2>3, PlayedGrows
  <2> QED BY <1>2, <2>1, <2>2, <2>4, CardsOfNone DEF Out
<1> QED BY <1>3, <1>4

\* A discard leaves the deck shared out.
LEMMA DiscardShares ==
  ASSUME NEW r, NEW k, Table(r, k), NEW p, Ready(r, k, p), NEW c \in p.hands[p.turn], NEW q,
         Discards(r, k, p, c, q), Shares(r, k, p)
  PROVE  Shares(r, k, q)
<1>1. Laid(r, p, c, q) /\ q.kitty = p.kitty
  BY DEF Discards, PlayOn, PlayLast, Laid
<1>2. /\ c \in Deck(r) /\ p.turn \in Seats(k)
      /\ q.hands[p.turn] = p.hands[p.turn] \ {c}
      /\ \A s \in Seats(k) : s # p.turn => q.hands[s] = p.hands[s]
  <2>1. Typed(r, k, p)
    BY DEF Ready
  <2>2. p.turn \in Seats(k)
    BY <2>1 DEF Typed
  <2> QED BY <1>1, <2>1, <2>2, HandsWithout
<1>3. Out(q) = Out(p) \cup {c}
  BY <1>2, OutGrows
<1>4. \A s \in Seats(k) : q.hands[s] = p.hands[s] \ {c}
  BY <1>2 DEF Shares
<1> QED BY <1>1, <1>2, <1>3, <1>4 DEF Shares

\* A completed trick is worth a number of points.
LEMMA WorthIsInt ==
  ASSUME NEW r, NEW k, Table(r, k), NEW x, TrickTyped(r, k, x)
  PROVE  PointsOf(r, CardsOf(x.cards)) \in Int
<1>1. CardsOf(x.cards) \subseteq Deck(r)
  BY DEF TrickTyped, CardsOf
<1> QED BY <1>1, WorthHolds DEF Table

\* The card that completes a trick keeps the summaries in step with the history.
LEMMA LastCounts ==
  ASSUME NEW r, NEW k, Table(r, k), NEW p, Ready(r, k, p), NEW c \in p.hands[p.turn], NEW q,
         PlayLast(r, k, p, c, q), Counts(r, k, p), Ready(r, k, q)
  PROVE  Counts(r, k, q)
<1>1. PICK w \in Seats(k) : w = Taker(r, p, c)
  BY TakerHolds, HandsWithout DEF PlayLast, Ready
<1>2. PICK v : v = PointsOf(r, CardsOf(TableWith(p, c)))
  OBVIOUS
<1>3. PICK u \in Teams(r, k) : u = TeamOf(r, k, w)
  BY TeamsHold
<1>4. PICK e : /\ q.completedTricks = Append(p.completedTricks, e)
               /\ e.cards = TableWith(p, c) /\ e.winner = w
  <2>1. PICK e : e = [cards |-> TableWith(p, c), winner |-> w,
                        lead |-> LeadWith(p, c), trump |-> ShownWith(r, p, c)]
    OBVIOUS
  <2>2. q.completedTricks = Append(p.completedTricks, e)
    BY <1>1, <2>1 DEF PlayLast
  <2> QED BY <2>1, <2>2
<1> DEFINE s == p.completedTricks
           t == q.completedTricks
<1>5. Grown(s, e, t) /\ TrickTyped(r, k, e)
  <2>1. p.completedTricks \in Seq(Range(p.completedTricks))
    BY DEF Ready, Typed
  <2>2. Grown(s, e, t)
    BY <1>4, <2>1, AppendGrows
  <2> QED BY <2>2 DEF Grown, Ready, Typed
<1>6. q.won = [p.won EXCEPT ![w] = @ + 1] /\ q.points = [p.points EXCEPT ![u] = @ + v]
  BY <1>1, <1>2, <1>3 DEF PlayLast
<1>7. p.won \in [Seats(k) -> Nat] /\ p.points \in [Teams(r, k) -> Int]
  BY DEF Ready, Typed
<1>8. ASSUME NEW a \in Seats(k) PROVE q.won[a] = Cardinality(WonBy(t, {a}))
  <2>1. p.won[a] = Cardinality(WonBy(s, {a}))
    BY DEF Counts
  <2>2. /\ WonBy(t, {a}) = WonBy(s, {a}) \cup (IF e.winner \in {a} THEN {Len(s) + 1} ELSE {})
        /\ Len(s) + 1 \notin WonBy(s, {a}) /\ IsFiniteSet(WonBy(s, {a}))
    BY <1>5, WonGrows
  <2>3. CASE a = w
    <3>1. WonBy(t, {a}) = WonBy(s, {a}) \cup {Len(s) + 1}
      BY <1>4, <2>2, <2>3
    <3>2. Cardinality(WonBy(t, {a})) = Cardinality(WonBy(s, {a})) + 1
      BY <2>2, <3>1, FS_AddElement
    <3> QED BY <1>6, <1>7, <2>1, <2>3, <3>2
  <2>4. CASE a # w
    <3>1. WonBy(t, {a}) = WonBy(s, {a})
      BY <1>4, <2>2, <2>4
    <3> QED BY <1>6, <1>7, <2>1, <2>4, <3>1
  <2> QED BY <2>3, <2>4
<1>9. ASSUME NEW a \in Teams(r, k)
      PROVE  q.points[a] = SumFunction([i \in WonBy(t, a) |-> TrickWorth(r, t, i)])
  <2> DEFINE f == [i \in WonBy(s, a) |-> TrickWorth(r, s, i)]
             h == [i \in WonBy(t, a) |-> TrickWorth(r, t, i)]
             new == Len(s) + 1
  <2> SUFFICES q.points[a] = SumFunction(h)
    OBVIOUS
  <2>1. p.points[a] = SumFunctionOnSet(f, WonBy(s, a))
    BY DEF Counts, SumFunction
  <2>2. SumFunction(h) = SumFunctionOnSet(h, WonBy(t, a))
    BY DEF SumFunction
  <2>3. /\ WonBy(t, a) = WonBy(s, a) \cup (IF w \in a THEN {new} ELSE {})
        /\ new \notin WonBy(s, a) /\ IsFiniteSet(WonBy(s, a)) /\ IsFiniteSet(WonBy(t, a))
    BY <1>4, <1>5, WonGrows
  <2>4. w \in a <=> a = u
    BY <1>3, TeamsHold
  <2>5. \A i \in WonBy(t, a) : h[i] \in Int
    <3>1. \A i \in DOMAIN t : TrickTyped(r, k, t[i])
      BY DEF Ready, Typed
    <3> QED BY <3>1, WorthIsInt DEF WonBy, TrickWorth
  <2>6. \A i \in WonBy(s, a) : i \in WonBy(t, a) /\ h[i] = f[i]
    <3>1. \A i \in WonBy(s, a) : i \in DOMAIN s
      BY DEF WonBy
    <3>2. \A i \in WonBy(s, a) : t[i] = s[i]
      BY <1>5, <3>1 DEF Grown
    <3> QED BY <2>3, <3>2 DEF TrickWorth
  <2>7. w \in a => h[new] = v
    BY <1>2, <1>4, <1>5, <2>3 DEF Grown, TrickWorth
  <2> HIDE DEF f, h, new, s, t
  <2>8. SumFunctionOnSet(h, WonBy(s, a)) = SumFunctionOnSet(f, WonBy(s, a))
    <3>1. Ints(f, WonBy(s, a))
      BY <2>3, <2>5, <2>6 DEF Ints
    <3> QED BY <2>6, <3>1, SumSame
  <2>9. CASE w \in a
    <3>1. WonBy(t, a) = WonBy(s, a) \cup {new}
      BY <2>3, <2>9
    <3>2. Ints(h, WonBy(s, a) \cup {new})
      BY <2>3, <2>5, <3>1 DEF Ints
    <3>3. SumFunctionOnSet(h, WonBy(s, a) \cup {new}) = SumFunctionOnSet(h, WonBy(s, a)) + h[new]
      BY <2>3, <3>2, SumAdd
    <3>4. q.points[a] = p.points[a] + v
      BY <1>6, <1>7, <2>4, <2>9
    <3> QED BY <2>1, <2>2, <2>7, <2>8, <2>9, <3>1, <3>3, <3>4
  <2>10. CASE w \notin a
    <3>1. WonBy(t, a) = WonBy(s, a)
      BY <2>3, <2>10
    <3>2. q.points[a] = p.points[a]
      BY <1>6, <1>7, <2>4, <2>10
    <3> QED BY <2>1, <2>2, <2>8, <3>1, <3>2
  <2> QED BY <2>9, <2>10
<1> QED BY <1>8, <1>9 DEF Counts

\* The books of a hand: the deck is shared out, the tricks are counted.
Books(r, k, p) == Shares(r, k, p) /\ Counts(r, k, p)

\* A discard keeps the books.
LEMMA DiscardBooks ==
  ASSUME NEW r, NEW k, Table(r, k), NEW p, Ready(r, k, p), NEW c \in p.hands[p.turn], NEW q,
         p.phase = "PLAYING", Discards(r, k, p, c, q), Books(r, k, p)
  PROVE  Books(r, k, q)
<1>1. Shares(r, k, q)
  BY DiscardShares DEF Books
<1>2. CASE Len(TableWith(p, c)) < k
  <2>1. q.completedTricks = p.completedTricks /\ q.won = p.won /\ q.points = p.points
    BY <1>2 DEF Discards, PlayOn
  <2> QED BY <1>1, <2>1 DEF Books, Counts
<1>3. CASE ~(Len(TableWith(p, c)) < k)
  <2>1. PlayLast(r, k, p, c, q)
    BY <1>3 DEF Discards
  <2>2. Ready(r, k, q)
    BY DiscardReady
  <2> QED BY <1>1, <2>1, <2>2, LastCounts DEF Books
<1> QED BY <1>2, <1>3

\* What the play leaves alone.
SameBooks(p, q) ==
  /\ q.hands = p.hands /\ q.kitty = p.kitty /\ q.trick = p.trick
  /\ q.completedTricks = p.completedTricks /\ q.won = p.won /\ q.points = p.points

\* A step that touches none of the books keeps them.
LEMMA KeptBooks ==
  ASSUME NEW r, NEW k, NEW p, NEW q, SameBooks(p, q), Books(r, k, p)
  PROVE  Books(r, k, q)
BY DEF SameBooks, Books, Shares, Counts, Out

\* A hand just dealt has its books in order.
LEMMA DealBooks ==
  ASSUME NEW r, NEW k, Table(r, k), NEW dealer, NEW i \in Nat, i >= 1,
         NEW d \in Deals(r, k, i), NEW q, NewHand(r, k, dealer, i, d, q)
  PROVE  Books(r, k, q)
<1>1. Dealing(r, k, i, d)
  BY DealsHold
<1>2. q.hands = d.hands /\ q.kitty = d.kitty /\ q.trick = << >> /\ q.completedTricks = << >>
      /\ q.won = [s \in Seats(k) |-> 0] /\ q.points = [t \in Teams(r, k) |-> 0]
  BY DEF NewHand
<1>3. Out(q) = {}
  BY <1>2, CardsOfNone DEF Out, PlayedIn
<1>4. Shares(r, k, q)
  BY <1>1, <1>2, <1>3 DEF Shares, Dealing
<1>5. \A X : WonBy(q.completedTricks, X) = {}
  BY <1>2 DEF WonBy
<1>6. Counts(r, k, q)
  <2>1. \A s \in Seats(k) : q.won[s] = Cardinality(WonBy(q.completedTricks, {s}))
    BY <1>2, <1>5, FS_EmptySet
  <2>2. ASSUME NEW t \in Teams(r, k)
        PROVE  q.points[t] = SumFunction([j \in WonBy(q.completedTricks, t) |->
                                            TrickWorth(r, q.completedTricks, j)])
    <3> PICK f : f = [j \in WonBy(q.completedTricks, t) |-> TrickWorth(r, q.completedTricks, j)]
      OBVIOUS
    <3>1. DOMAIN f = {}
      BY <1>5
    <3>2. SumFunction(f) = 0
      BY <3>1, SumEmpty DEF SumFunction
    <3> QED BY <1>2, <3>2
  <2> QED BY <2>1, <2>2 DEF Counts
<1> QED BY <1>4, <1>6 DEF Books

\* Every legal move keeps the books.
LEMMA MoveBooks ==
  ASSUME NEW r, NEW k, Table(r, k), NEW p, Ready(r, k, p), Books(r, k, p), NEW q,
         MoveEffect(r, k, p, q)
  PROVE  Books(r, k, q)
<1>1. CASE p.phase = "TRUMP_SELECTION" /\ \E s \in Suits(r) : Named(r, k, p, s, q)
  <2>1. SameBooks(p, q)
    BY <1>1 DEF Named, Undealt, SameBooks
  <2> QED BY <2>1, KeptBooks
<1>2. CASE /\ p.phase = "PLAYING"
           /\ \E c \in Options(r, p, VisibleTrump(p), OwesTrump(r, p)) : Discards(r, k, p, c, q)
  <2>1. PICK c \in Options(r, p, VisibleTrump(p), OwesTrump(r, p)) : Discards(r, k, p, c, q)
    BY <1>2
  <2>2. c \in p.hands[p.turn]
    BY OptionsHeld
  <2> QED BY <1>2, <2>1, <2>2, DiscardBooks
<1>3. CASE p.phase = "PLAYING" /\ MayReveal(r, p) /\ Turned(p, q)
  <2>1. SameBooks(p, q)
    BY <1>3 DEF Turned, SameBooks
  <2> QED BY <2>1, KeptBooks
<1>4. CASE /\ p.phase = "PLAYING" /\ MayReveal(r, p)
           /\ \E mid : /\ Turned(p, mid)
                       /\ \E c \in Options(r, mid, mid.trump, FALSE) : Discards(r, k, mid, c, q)
  <2>1. PICK mid : /\ Turned(p, mid)
                   /\ \E c \in Options(r, mid, mid.trump, FALSE) : Discards(r, k, mid, c, q)
    BY <1>4
  <2>2. PICK c \in Options(r, mid, mid.trump, FALSE) : Discards(r, k, mid, c, q)
    BY <2>1
  <2>3. c \in mid.hands[mid.turn]
    BY OptionsHeld
  <2>4. Ready(r, k, mid) /\ mid.phase = "PLAYING"
    BY <1>4, <2>1, TurnedReady DEF MayReveal, Turned
  <2>5. SameBooks(p, mid)
    BY <2>1 DEF Turned, SameBooks
  <2>6. Books(r, k, mid)
    BY <2>5, KeptBooks
  <2> QED BY <2>2, <2>3, <2>4, <2>6, DiscardBooks
<1> QED BY <1>1, <1>2, <1>3, <1>4 DEF MoveEffect

\* The inductive invariant of the books.
Balanced == Playing /\ Books(rules, n, g)

\* The match starts with its books in order.
LEMMA InitBalanced == Init => Balanced
<1> SUFFICES ASSUME Init PROVE Balanced
  OBVIOUS
<1>1. Playing
  BY InitPlaying
<1>2. PICK d \in Deals(rules, n, 1) : NewHand(rules, n, 0, 1, d, g)
  BY Starts
<1>3. Books(rules, n, g)
  BY <1>1, <1>2, DealBooks DEF Playing
<1> QED BY <1>1, <1>3 DEF Balanced

\* Every step keeps the books.
LEMMA StepBalanced == Balanced /\ [Next]_vars => Balanced'
<1> SUFFICES ASSUME Balanced, [Next]_vars PROVE Balanced'
  OBVIOUS
<1>1. Playing /\ Books(rules, n, g) /\ Table(rules, n) /\ Ready(rules, n, g)
  BY DEF Balanced, Playing
<1>2. Playing'
  BY <1>1, StepPlaying
<1>3. CASE UNCHANGED vars
  BY <1>1, <1>2, <1>3 DEF Balanced, vars
<1>4. CASE Next
  <2>1. rules' = rules /\ n' = n
    BY <1>1, <1>4, Steps
  <2>2. PICK q : q = g'
    OBVIOUS
  <2> SUFFICES Books(rules, n, q)
    BY <1>2, <2>1, <2>2 DEF Balanced
  <2>3. CASE BidStep
    <3>1. SameBooks(g, q)
      BY <2>2, <2>3 DEF BidStep, BidEffect, Undealt, SameBooks
    <3> QED BY <1>1, <3>1, KeptBooks
  <2>4. CASE MoveEffect(rules, n, g, g')
    BY <1>1, <2>2, <2>4, MoveBooks
  <2>5. CASE ScoreStep
    <3>1. SameBooks(g, q)
      BY <2>2, <2>5 DEF ScoreStep, Tallied, SameBooks
    <3> QED BY <1>1, <3>1, KeptBooks
  <2>6. CASE DealStep
    <3>1. PICK d \in Deals(rules, n, g.number + 1) :
            NewHand(rules, n, SeatAfter(n, g.dealer), g.number + 1, d, q)
      BY <2>2, <2>6 DEF DealStep
    <3>2. g.number + 1 \in Nat /\ g.number + 1 >= 1
      BY <1>1 DEF Ready, Typed
    <3> QED BY <1>1, <3>1, <3>2, DealBooks
  <2> QED BY <1>1, <1>4, <2>3, <2>4, <2>5, <2>6, Steps
<1> QED BY <1>3, <1>4

\* Books in order balance as the property asks.
LEMMA BooksBalance == Balanced => LedgerBalances
<1> SUFFICES ASSUME Balanced PROVE LedgerBalances
  OBVIOUS
<1>1. Table(rules, n) /\ Ready(rules, n, g) /\ Shares(rules, n, g) /\ Counts(rules, n, g)
      /\ Typed(rules, n, g) /\ Turns(n, g) /\ Sizes(rules, n, g)
  BY DEF Balanced, Playing, Books, Ready
<1>2. Played = Out(g)
  <2>1. UNION {TrickCards(i) : i \in Tricks} = PlayedIn(g.completedTricks)
    <3>1. \A i \in Tricks : TrickCards(i) = CardsOf(g.completedTricks[i].cards)
      BY DEF TrickCards
    <3> QED BY <3>1 DEF Tricks, PlayedIn
  <2> QED BY <2>1 DEF Played, Out
<1>3. g.hands \in [Seats(n) -> SUBSET Deck(rules)] /\ g.kitty \in SUBSET Deck(rules)
  BY <1>1 DEF Typed
<1> DEFINE U == UNION {g.hands[s] : s \in Seats(n)}
<1>4. UNION Range(g.hands) = U
  BY <1>3 DEF Range
<1>5. Out(g) \cup g.kitty \cup U = Deck(rules)
  BY <1>1, <1>3 DEF Shares
<1>6. IsFiniteSet(Out(g)) /\ IsFiniteSet(g.kitty) /\ \A s \in Seats(n) : IsFiniteSet(g.hands[s])
  <2>1. IsFiniteSet(Deck(rules))
    BY <1>1, DeckHolds DEF Table
  <2> QED BY <1>1, <1>3, <2>1, FS_Subset DEF Shares
<1>7. IsFiniteSet(U) /\ Cardinality(U) = SumFunction([s \in Seats(n) |-> Cardinality(g.hands[s])])
  <2>1. IsFiniteSet(Seats(n))
    BY <1>1, SeatsHold
  <2>2. \A s, u \in Seats(n) : s # u => g.hands[s] \cap g.hands[u] = {}
    BY <1>1 DEF Shares
  <2>3. PICK F : F = g.hands
    OBVIOUS
  <2> QED BY <1>6, <2>1, <2>2, <2>3, SumCards
<1>8. Cardinality(Out(g)) + Cardinality(g.kitty) + Cardinality(U) = Cardinality(Deck(rules))
  <2>1. Out(g) \cap g.kitty = {} /\ (Out(g) \cup g.kitty) \cap U = {}
    BY <1>1 DEF Shares
  <2> HIDE DEF U
  <2>2. PICK A, B, C : A = Out(g) /\ B = g.kitty /\ C = U
    OBVIOUS
  <2>3. IsFiniteSet(A) /\ IsFiniteSet(B) /\ IsFiniteSet(C) /\ A \cap B = {} /\ (A \cup B) \cap C = {}
    BY <1>6, <1>7, <2>1, <2>2
  <2>4. IsFiniteSet(A \cup B) /\ Cardinality(A \cup B) = Cardinality(A) + Cardinality(B) - Cardinality(A \cap B)
    BY <2>3, FS_Union
  <2>5. Cardinality((A \cup B) \cup C) = Cardinality(A \cup B) + Cardinality(C) - Cardinality((A \cup B) \cap C)
    BY <2>3, <2>4, FS_Union
  <2>6. Cardinality(A \cap B) = 0 /\ Cardinality((A \cup B) \cap C) = 0
    BY <2>3, FS_EmptySet
  <2>7. Cardinality(A) \in Nat /\ Cardinality(B) \in Nat /\ Cardinality(C) \in Nat
    BY <2>3, FS_CardinalityType
  <2>8. (A \cup B) \cup C = Deck(rules)
    BY <1>5, <2>2
  <2>9. Cardinality(A) + Cardinality(B) + Cardinality(C) = Cardinality((A \cup B) \cup C)
    BY <2>4, <2>5, <2>6, <2>7
  <2> QED BY <2>2, <2>8, <2>9
<1>9. ASSUME NEW s \in Seats(n)
      PROVE  Cardinality(g.hands[s]) + Cardinality({i \in DOMAIN g.trick : g.trick[i][1] = s})
               = HandSize(rules, n, g.number) - Len(g.completedTricks)
  <2> DEFINE I == {i \in DOMAIN g.trick : g.trick[i][1] = s}
  <2>1. g.trick \in Seq(Seats(n) \X Deck(rules)) /\ DOMAIN g.trick = 1..Len(g.trick)
        /\ Len(g.trick) \in Nat
    BY <1>1 DEF Typed
  <2>2. Cardinality(g.hands[s]) = HandSize(rules, n, g.number) - Len(g.completedTricks)
                                - (IF OnTable(g, s) THEN 1 ELSE 0)
    BY <1>1 DEF Sizes
  <2>3. HandSize(rules, n, g.number) \in Int /\ Len(g.completedTricks) \in Int
    BY <1>1, HandSizes DEF Typed
  <2>4. CASE OnTable(g, s)
    <3>1. PICK i \in 1..Len(g.trick) : g.trick[i][1] = s
      BY <2>4 DEF OnTable
    <3>2. ASSUME NEW j \in I PROVE j = i
      <4>1. j \in 1..Len(g.trick) /\ g.trick[j][1] = s
        BY <2>1
      <4>2. Places(n, s, g.turn) = Len(g.trick) + 1 - j /\ Places(n, s, g.turn) = Len(g.trick) + 1 - i
        BY <1>1, <3>1, <4>1 DEF Turns
      <4> QED BY <2>1, <4>1, <4>2
    <3>3. I = {i}
      BY <2>1, <3>1, <3>2
    <3>4. Cardinality(I) = 1
      BY <3>3, FS_Singleton
    <3> QED BY <2>2, <2>3, <2>4, <3>4
  <2>5. CASE ~OnTable(g, s)
    <3>1. I = {}
      BY <2>1, <2>5 DEF OnTable
    <3>2. Cardinality(I) = 0
      BY <3>1, FS_EmptySet
    <3> QED BY <2>2, <2>3, <2>5, <3>2
  <2> QED BY <2>4, <2>5
<1>10. ASSUME NEW s \in Seats(n)
       PROVE  g.won[s] = Cardinality({i \in Tricks : g.completedTricks[i].winner = s})
  <2>1. WonBy(g.completedTricks, {s}) = {i \in Tricks : g.completedTricks[i].winner = s}
    BY DEF WonBy, Tricks
  <2> QED BY <1>1, <2>1 DEF Counts
<1>11. ASSUME NEW t \in Teams(rules, n)
       PROVE  g.points[t] = SumFunction([i \in {i \in Tricks : g.completedTricks[i].winner \in t} |->
                                           PointsOf(rules, TrickCards(i))])
  BY <1>1 DEF Counts, WonBy, Tricks, TrickWorth, TrickCards
<1> HIDE DEF U
<1> QED BY <1>2, <1>4, <1>5, <1>7, <1>8, <1>9, <1>10, <1>11 DEF LedgerBalances

\* The books are always in order.
LEMMA AlwaysBalanced == Spec => []Balanced
BY InitBalanced, StepBalanced, PTL DEF Spec

\* The hands, the kitty and the tricks share out the deck, and the running
\* summaries say what the history says (applyMove, playCard), where the rules deal
\* whole cards, none of them twice.
THEOREM BooksAreKept == Spec => []LedgerBalances
BY AlwaysBalanced, BooksBalance, PTL

-----------------------------------------------------------------------------
(* What a hand is worth is a number.                                       *)

\* An optional field is a finite set.
LEMMA SmallIsFinite == ASSUME NEW S, AtMostOne(S) PROVE IsFiniteSet(S)
<1>1. CASE S = {}
  BY <1>1, FS_EmptySet
<1>2. CASE S # {}
  <2>1. PICK x : x \in S
    BY <1>2
  <2>2. S = {x}
    BY <2>1 DEF AtMostOne
  <2> QED BY <2>2, FS_Singleton
<1> QED BY <1>1, <1>2

\* A sum over a function's domain is an integer.
LEMMA SumTyped ==
  ASSUME NEW f, IsFiniteSet(DOMAIN f), \A x \in DOMAIN f : f[x] \in Int
  PROVE  SumFunction(f) \in Int
BY SumInt DEF SumFunction, Ints

\* What is bid before the play begins.
Bids(r, k, p) ==
  /\ p.declarer \subseteq Seats(k)
  /\ NamesTrump(r) /\ p.phase # "BIDDING" =>
       \E s \in Seats(k) : p.declarer = {s}
  /\ r.bidding # {} /\ ~NamesTrump(r) /\ p.phase # "BIDDING" =>
       \A s \in Seats(k) :
         p.bid[s] = Pass \/ (p.bid[s] >= 0 /\ p.bid[s] <= HandSize(r, k, p.number))
  /\ p.phase # "BIDDING" /\ (\A s \in Seats(k) : p.bid[s] # Pass) =>
       \A b \in r.bidding : b.forbidExactTotal /\ HasChoice(b, HandSize(r, k, p.number)) =>
         SumFunction([s \in Seats(k) |-> IF p.bid[s] > 0 THEN p.bid[s] ELSE 0])
           # HandSize(r, k, p.number)

\* A declarer, if there is one, sits at the table.
Declared(k, p) == p.declarer \subseteq Seats(k)

\* There is at most one formula, and it is typed (scoringFormula).
LEMMA FormulaHolds ==
  ASSUME NEW r \in RuleSets
  PROVE  /\ AtMostOne(ScoringFormula(r)) /\ IsFiniteSet(ScoringFormula(r))
         /\ \A f \in ScoringFormula(r) : FormulaTyped(f)
<1>1. WellTyped(r)
  BY RulesHold
<1>2. CASE r.formula # {}
  <2>1. ScoringFormula(r) = r.formula
    BY <1>2 DEF ScoringFormula
  <2> QED BY <1>1, <2>1, SmallIsFinite DEF WellTyped
<1>3. CASE r.formula = {} /\ r.basis = "tricks"
  <2>1. PICK f : f = [kind |-> "bid-plus-overtrick-fraction", overtrickValue |-> {}]
    OBVIOUS
  <2>2. ScoringFormula(r) = {f}
    BY <1>3, <2>1 DEF ScoringFormula
  <2>3. FormulaTyped(f)
    BY <2>1 DEF FormulaTyped, FormulaKinds, ContractKinds, AtMostOne
  <2>4. AtMostOne({f})
    BY DEF AtMostOne
  <2> QED BY <2>2, <2>3, <2>4, SmallIsFinite
<1>4. CASE r.formula = {} /\ r.basis = "points"
  <2>1. PICK f : f = [kind |-> "declarer-contract", stake |-> {}, mirror |-> TRUE]
    OBVIOUS
  <2>2. ScoringFormula(r) = {f}
    BY <1>4, <2>1 DEF ScoringFormula
  <2>3. FormulaTyped(f)
    BY <2>1 DEF FormulaTyped, FormulaKinds, ContractKinds, AtMostOne
  <2>4. AtMostOne({f})
    BY DEF AtMostOne
  <2> QED BY <2>2, <2>3, <2>4, SmallIsFinite
<1>5. CASE r.formula = {} /\ r.basis \notin {"points", "tricks"}
  <2>1. ScoringFormula(r) = {}
    BY <1>5 DEF ScoringFormula
  <2> QED BY <2>1, SmallIsFinite DEF AtMostOne
<1> QED BY <1>2, <1>3, <1>4, <1>5

\* tallyCaptured: what a side made is a number.
LEMMA MadeHolds ==
  ASSUME NEW r, NEW k, Table(r, k), NEW p, Typed(r, k, p), NEW t \in Teams(r, k)
  PROVE  /\ Made(r, p, t) \in Int /\ Ints(p.won, t) /\ Ints(p.bid, t)
         /\ t \subseteq Seats(k) /\ IsFiniteSet(t)
<1>1. t \subseteq Seats(k) /\ IsFiniteSet(t)
  BY TeamsHold
<1>2. p.won \in [Seats(k) -> Nat] /\ p.points \in [Teams(r, k) -> Int] /\ p.bid \in [Seats(k) -> Int]
  BY DEF Typed
<1>3. Ints(p.won, t) /\ Ints(p.bid, t)
  BY <1>1, <1>2 DEF Ints
<1>4. SumFunctionOnSet(p.won, t) \in Int
  BY <1>3, SumInt
<1> QED BY <1>1, <1>2, <1>3, <1>4 DEF Made

\* A side has at most one contract, a number.
LEMMA TeamBidHolds ==
  ASSUME NEW r, NEW k, Table(r, k), NEW p, Typed(r, k, p), NEW t \in Teams(r, k)
  PROVE  /\ TeamBid(r, p, t) \subseteq Int /\ AtMostOne(TeamBid(r, p, t))
         /\ OrElse(TeamBid(r, p, t), 0) \in Int
<1>1. Ints(p.bid, t)
  BY MadeHolds
<1>2. Contractors(r, p, t) \subseteq t
  BY DEF Contractors
<1>3. Ints(p.bid, Contractors(r, p, t))
  BY <1>1, <1>2, FS_Subset DEF Ints
<1>4. SumFunctionOnSet(p.bid, Contractors(r, p, t)) \in Int
  BY <1>3, SumInt
<1>5. TeamBid(r, p, t) \subseteq Int /\ AtMostOne(TeamBid(r, p, t))
  BY <1>4 DEF TeamBid, AtMostOne
<1> QED BY <1>5, OptionHolds

\* A seat's bid and its tricks are numbers.
LEMMA SeatBidHolds ==
  ASSUME NEW r, NEW k, NEW p, Typed(r, k, p), NEW s \in Seats(k)
  PROVE  SeatBid(p, s) \in Int /\ p.won[s] \in Nat
BY DEF Typed, SeatBid

\* addNil: nils are worth a number of points.
LEMMA NilHolds ==
  ASSUME NEW r, NEW k, Table(r, k), NEW p, Typed(r, k, p), NEW t \in Teams(r, k)
  PROVE  NilWorth(r, p, t) \in Int
<1>1. IsFiniteSet(r.nil) /\ \A m \in r.nil : m.bonus \in Int /\ m.penalty \in Int
  BY RulesHold, SmallIsFinite DEF Table, WellTyped
<1>2. IsFiniteSet(NilBidders(r, p, t))
  BY MadeHolds, FS_Subset DEF NilBidders
<1>3. ASSUME NEW s
      PROVE  SumFunction([m \in r.nil |-> IF p.won[s] = 0 THEN m.bonus ELSE -m.penalty]) \in Int
  <2> PICK f : f = [m \in r.nil |-> IF p.won[s] = 0 THEN m.bonus ELSE -m.penalty]
    OBVIOUS
  <2>1. DOMAIN f = r.nil /\ \A m \in r.nil : f[m] \in Int
    BY <1>1
  <2>2. SumFunction(f) \in Int
    BY <1>1, <2>1, SumTyped
  <2> QED BY <2>2
<1> PICK h : h = [s \in NilBidders(r, p, t) |->
                    SumFunction([m \in r.nil |-> IF p.won[s] = 0 THEN m.bonus ELSE -m.penalty])]
  OBVIOUS
<1>4. DOMAIN h = NilBidders(r, p, t) /\ \A s \in NilBidders(r, p, t) : h[s] \in Int
  BY <1>3
<1>5. SumFunction(h) \in Int
  BY <1>2, <1>4, SumTyped
<1> QED BY <1>5 DEF NilWorth

\* What all sides captured is a number.
LEMMA CapturedHolds ==
  ASSUME NEW r, NEW k, Table(r, k), NEW p, Typed(r, k, p)
  PROVE  Captured(r, k, p) \in Int
<1> PICK h : h = [t \in Teams(r, k) |-> Made(r, p, t)]
  OBVIOUS
<1>1. DOMAIN h = Teams(r, k) /\ \A t \in Teams(r, k) : h[t] \in Int
  BY MadeHolds
<1>2. SumFunction(h) \in Int
  BY <1>1, TeamsHold, SumTyped
<1> QED BY <1>2 DEF Captured

\* The declarer is at the table, and so is the declaring side.
LEMMA DeclarerHolds ==
  ASSUME NEW r, NEW k, Table(r, k), NEW p, Typed(r, k, p), Declared(k, p)
  PROVE  /\ OrElse(p.declarer, 0) \in Seats(k)
         /\ DeclarerTeam(r, k, p) \in Teams(r, k)
         /\ DeclarerBid(r, p) \in Int
<1>1. 0 \in Seats(k)
  BY SeatsHold
<1>2. OrElse(p.declarer, 0) \in Seats(k)
  BY <1>1, OptionHolds DEF Declared
<1>3. DeclarerTeam(r, k, p) \in Teams(r, k)
  BY <1>2, TeamsHold DEF DeclarerTeam
<1>4. \A b \in r.bidding : b.minBid \in Int
  BY RulesHold DEF Table, WellTyped
<1>5. PICK z : z = OrElse({b.minBid : b \in r.bidding}, 0)
  OBVIOUS
<1>6. z \in Int
  <2>1. z = 0 \/ z \in {b.minBid : b \in r.bidding}
    BY <1>5, OptionHolds
  <2> QED BY <1>4, <2>1
<1>7. p.bid[OrElse(p.declarer, 0)] \in Int
  BY <1>2 DEF Typed
<1>8. DeclarerBid(r, p) \in Int
  BY <1>5, <1>6, <1>7 DEF DeclarerBid
<1> QED BY <1>2, <1>3, <1>8

\* handDeltas: every formula pays a number of points.
LEMMA DeltaHolds ==
  ASSUME NEW r, NEW k, Table(r, k), NEW p, Typed(r, k, p), Declared(k, p),
         NEW f \in ScoringFormula(r), NEW t \in Teams(r, k)
  PROVE  HandDelta(r, k, f, p, t) \in Int
<1>1. FormulaTyped(f)
  BY FormulaHolds DEF Table
<1>2. Made(r, p, t) \in Int /\ t \subseteq Seats(k) /\ IsFiniteSet(t)
  BY MadeHolds
<1>3. \A s \in t : SeatBid(p, s) \in Int /\ p.won[s] \in Int
  BY <1>2, SeatBidHolds
<1>4. CASE f.kind = "bid-plus-overtrick-fraction"
  <2>1. PICK v \in Int : v = OvertrickValue(f)
    <3>1. f.overtrickValue \subseteq Int
      BY <1>1, <1>4 DEF FormulaTyped
    <3> QED BY <3>1, OptionHolds DEF OvertrickValue
  <2> PICK h : h = [s \in t |->
    IF p.won[s] >= SeatBid(p, s)
    THEN Points(SeatBid(p, s)) + (p.won[s] - SeatBid(p, s)) * v
    ELSE -Points(SeatBid(p, s))]
    OBVIOUS
  <2>2. \A a, b \in Int : Points(a) \in Int /\ Points(a) + (b - a) * v \in Int /\ -Points(a) \in Int
    BY DEF Points
  <2>3. DOMAIN h = t /\ \A s \in t : h[s] \in Int
    BY <1>3, <2>2
  <2>4. SumFunction(h) \in Int
    BY <1>2, <2>3, SumTyped
  <2>5. BidPlusFraction(f, p, t) = SumFunction(h)
    BY <2>1 DEF BidPlusFraction
  <2> QED BY <1>4, <2>4, <2>5 DEF HandDelta
<1>5. CASE f.kind = "bid-multiplier"
  <2>1. f.madeMultiplier \in Int /\ f.overtrickValue \in Int /\ f.missMultiplier \in Int
    BY <1>1, <1>5 DEF FormulaTyped
  <2>2. TeamBid(r, p, t) \subseteq Int /\ AtMostOne(TeamBid(r, p, t)) /\ NilWorth(r, p, t) \in Int
    BY TeamBidHolds, NilHolds
  <2> PICK h : h = [b \in TeamBid(r, p, t) |->
        IF Made(r, p, t) >= b
        THEN b * f.madeMultiplier + (Made(r, p, t) - b) * f.overtrickValue
        ELSE b * f.missMultiplier]
    OBVIOUS
  <2>3. DOMAIN h = TeamBid(r, p, t) /\ \A b \in TeamBid(r, p, t) : h[b] \in Int
    <3>1. PICK m, x, y, z : m = Made(r, p, t) /\ x = f.madeMultiplier
                            /\ y = f.overtrickValue /\ z = f.missMultiplier
      OBVIOUS
    <3>2. \A b \in Int : b * x + (m - b) * y \in Int /\ b * z \in Int
      BY <1>2, <2>1, <3>1
    <3> QED BY <2>2, <3>1, <3>2
  <2>4. SumFunction(h) \in Int
    BY <2>2, <2>3, SmallIsFinite, SumTyped
  <2>5. BidMultiplier(r, f, p, t) = Points(SumFunction(h) + NilWorth(r, p, t))
    BY DEF BidMultiplier
  <2> QED BY <1>5, <2>2, <2>4, <2>5 DEF HandDelta, Points
<1>6. CASE f.kind = "exact-bid"
  <2>1. f.base \in Int /\ f.perTrick \in Int /\ f.missPerTrick \in Int
    BY <1>1, <1>6 DEF FormulaTyped
  <2> PICK h : h = [s \in t |->
    Points(IF p.won[s] = SeatBid(p, s) THEN f.base + f.perTrick * p.won[s]
           ELSE f.missPerTrick * AbsDiff(p.won[s], SeatBid(p, s)))]
    OBVIOUS
  <2>2. DOMAIN h = t /\ \A s \in t : h[s] \in Int
    <3>1. \A a, b, c \in Int : a + b * c \in Int /\ a * b \in Int /\ Points(a) \in Int /\ AbsDiff(a, b) \in Int
      BY DEF Points, AbsDiff
    <3> QED BY <1>3, <2>1, <3>1
  <2>3. SumFunction(h) \in Int
    BY <1>2, <2>2, SumTyped
  <2> QED BY <1>6, <2>3 DEF HandDelta, ExactBid
<1>7. CASE f.kind = "bid-difference"
  <2> PICK h : h = [s \in t |-> Points(p.won[s] - SeatBid(p, s))]
    OBVIOUS
  <2>1. DOMAIN h = t /\ \A s \in t : h[s] \in Int
    BY <1>3 DEF Points
  <2>2. SumFunction(h) \in Int
    BY <1>2, <2>1, SumTyped
  <2> QED BY <1>7, <2>2 DEF HandDelta, BidDifference
<1>8. CASE f.kind = "threshold-win"
  <2>1. f.value \in Int
    BY <1>1, <1>8 DEF FormulaTyped
  <2> QED BY <1>8, <2>1 DEF HandDelta, Points
<1>9. CASE f.kind = "declarer-contract"
  <2>1. f.stake \subseteq Int
    BY <1>1, <1>9 DEF FormulaTyped
  <2>2. OrElse(f.stake, DeclarerBid(r, p)) \in Int
    BY <2>1, DeclarerHolds, OptionHolds
  <2>3. DeclarerContract(r, k, f, p, t) \in Int
    BY <2>2 DEF DeclarerContract, Points
  <2> QED BY <1>9, <2>3 DEF HandDelta
<1>10. CASE f.kind = "capture"
  <2>1. f.threshold \in Int
    BY <1>1, <1>10 DEF FormulaTyped
  <2> QED BY <1>2, <1>10, <2>1 DEF HandDelta, Points
<1>11. CASE f.kind = "penalty-points"
  <2>1. Captured(r, k, p) \in Int
    BY CapturedHolds
  <2>2. PenaltyPoints(r, k, p, t) \in Int
    BY <1>2, <2>1 DEF PenaltyPoints, Points
  <2> QED BY <1>11, <2>2 DEF HandDelta
<1> QED BY <1>1, <1>4, <1>5, <1>6, <1>7, <1>8, <1>9, <1>10, <1>11
        DEF FormulaTyped, FormulaKinds, ContractKinds

\* The totals and the bags are numbers.
Totals(r, k, p) ==
  p.scores \in [Teams(r, k) -> Int] /\ p.bags \in [Teams(r, k) -> Int]

\* A lump of bags has a size.
LEMMA BagLimit ==
  ASSUME NEW r \in RuleSets, NEW b \in r.bags
  PROVE  /\ OrElse({x.per : x \in r.bags}, 1) = b.per
         /\ b.per \in Int /\ b.per >= 1 /\ b.penalty \in Int
<1>1. WellTyped(r) /\ ValidScoring(r)
  BY RulesHold DEF RuleSets, ValidRules
<1>2. b.per \in Int /\ b.per >= 1 /\ b.penalty \in Int /\ \A x \in r.bags : x = b
  BY <1>1 DEF WellTyped, ValidScoring, AtMostOne
<1>3. {x.per : x \in r.bags} = {b.per}
  BY <1>2
<1> QED BY <1>2, <1>3 DEF OrElse

\* computeScores: the bags left over make less than a lump.
LEMMA BagsHold ==
  ASSUME NEW r, NEW k, Table(r, k), NEW p, Typed(r, k, p), Totals(r, k, p)
  PROVE  /\ BagsLeft(r, p) \in [Teams(r, k) -> Int]
         /\ \A b \in r.bags : \A t \in Teams(r, k) : BagsLeft(r, p)[t] \in 0..(b.per - 1)
         /\ \A t \in Teams(r, k) : BagPenalty(r, p, t) \in Int
         /\ r.bags = {} => \A t \in Teams(r, k) : BagPenalty(r, p, t) = 0
<1>1. ASSUME NEW t \in Teams(r, k) PROVE RunningBags(r, p, t) \in Int
  <2>1. Made(r, p, t) \in Int /\ OrElse(TeamBid(r, p, t), 0) \in Int /\ p.bags[t] \in Int
    BY MadeHolds, TeamBidHolds DEF Totals
  <2> QED BY <2>1 DEF RunningBags, Earned
<1>2. DOMAIN p.bags = Teams(r, k) /\ \A t \in Teams(r, k) : p.bags[t] \in Int
  BY DEF Totals
<1>3. \A a, c \in Int : c >= 1 => a % c \in 0..(c - 1) /\ a \div c \in Int
  OBVIOUS
<1>4. ASSUME NEW b \in r.bags, NEW t \in Teams(r, k)
      PROVE  BagsLeft(r, p)[t] \in 0..(b.per - 1)
  <2>1. OrElse({x.per : x \in r.bags}, 1) = b.per /\ b.per \in Int /\ b.per >= 1
    BY BagLimit DEF Table
  <2>2. BagsLeft(r, p)[t] = RunningBags(r, p, t) % b.per
    BY <1>2, <2>1 DEF BagsLeft
  <2> QED BY <1>1, <1>3, <2>1, <2>2
<1>5. ASSUME NEW t \in Teams(r, k) PROVE BagsLeft(r, p)[t] \in Int
  <2>1. CASE r.bags = {}
    <3>1. BagsLeft(r, p)[t] = p.bags[t]
      BY <1>2, <2>1 DEF BagsLeft
    <3> QED BY <1>2, <3>1
  <2>2. CASE r.bags # {}
    <3>1. PICK b \in r.bags : TRUE
      BY <2>2
    <3>2. b.per \in Int
      BY BagLimit DEF Table
    <3> QED BY <1>4, <3>1, <3>2
  <2> QED BY <2>1, <2>2
<1>6. BagsLeft(r, p) \in [Teams(r, k) -> Int]
  <2>1. DOMAIN BagsLeft(r, p) = Teams(r, k)
        /\ BagsLeft(r, p) = [t \in DOMAIN BagsLeft(r, p) |-> BagsLeft(r, p)[t]]
    BY <1>2 DEF BagsLeft
  <2> QED BY <1>5, <2>1
<1>7. ASSUME NEW t \in Teams(r, k)
      PROVE  BagPenalty(r, p, t) \in Int /\ (r.bags = {} => BagPenalty(r, p, t) = 0)
  <2> PICK h : h = [b \in r.bags |-> (RunningBags(r, p, t) \div b.per) * b.penalty]
    OBVIOUS
  <2>1. IsFiniteSet(r.bags)
    BY RulesHold, SmallIsFinite DEF Table, WellTyped
  <2>2. \A b \in r.bags : h[b] \in Int
    <3> SUFFICES ASSUME NEW b \in r.bags PROVE h[b] \in Int
      OBVIOUS
    <3>1. b.per \in Int /\ b.per >= 1 /\ b.penalty \in Int
      BY BagLimit DEF Table
    <3>2. RunningBags(r, p, t) \div b.per \in Int
      BY <1>1, <1>3, <3>1
    <3> QED BY <3>1, <3>2
  <2>3. SumFunction(h) \in Int
    BY <2>1, <2>2, SumTyped
  <2>4. r.bags = {} => SumFunction(h) = 0
    <3>1. DOMAIN h = r.bags
      OBVIOUS
    <3> QED BY <3>1, SumEmpty DEF SumFunction
  <2> QED BY <2>3, <2>4 DEF BagPenalty
<1> QED BY <1>4, <1>6, <1>7

\* computeScores: the totals stay numbers.
LEMMA ScoresHold ==
  ASSUME NEW r, NEW k, Table(r, k), NEW p, Typed(r, k, p), Declared(k, p), Totals(r, k, p)
  PROVE  NewScores(r, k, p) \in [Teams(r, k) -> Int]
<1> SUFFICES ASSUME NEW t \in Teams(r, k) PROVE NewScores(r, k, p)[t] \in Int
  BY DEF NewScores
<1> PICK h : h = [f \in ScoringFormula(r) |-> HandDelta(r, k, f, p, t)]
  OBVIOUS
<1>1. IsFiniteSet(ScoringFormula(r))
  BY FormulaHolds DEF Table
<1>2. \A f \in ScoringFormula(r) : h[f] \in Int
  BY DeltaHolds
<1>3. SumFunction(h) \in Int
  BY <1>1, <1>2, SumTyped
<1>4. p.scores[t] \in Int /\ BagPenalty(r, p, t) \in Int
  BY BagsHold DEF Totals
<1>5. NewScores(r, k, p)[t] = p.scores[t] + SumFunction(h) - Points(BagPenalty(r, p, t))
  BY DEF NewScores
<1> QED BY <1>3, <1>4, <1>5 DEF Points

\* Some side has the best total.
LEMMA SomebodyIsBest ==
  ASSUME NEW r, NEW T, IsFiniteSet(T), T # {}, NEW v \in [T -> Int]
  PROVE  Best(r, v) # {}
<1> DEFINE h == [t \in T |-> IF r.lowerIsBetter THEN -v[t] ELSE v[t]]
<1>1. \A t \in T : h[t] \in Int
  OBVIOUS
<1>2. PICK t \in T : \A u \in T : h[u] <= h[t]
  <2> HIDE DEF h
  <2> QED BY <1>1, FiniteHasGreatest
<1>3. \A u \in T : IF r.lowerIsBetter THEN v[t] <= v[u] ELSE v[t] >= v[u]
  <2> SUFFICES ASSUME NEW u \in T
               PROVE  IF r.lowerIsBetter THEN v[t] <= v[u] ELSE v[t] >= v[u]
    OBVIOUS
  <2>1. h[u] <= h[t] /\ v[t] \in Int /\ v[u] \in Int
    BY <1>2
  <2> QED BY <2>1
<1>4. DOMAIN v = T
  OBVIOUS
<1>5. t \in Best(r, v)
  <2> HIDE DEF h
  <2> QED BY <1>3, <1>4 DEF Best
<1> QED BY <1>5

\* A result is recorded when the totals are, and stands until the next deal.
Timed(r, k, x, p) ==
  /\ p.number <= HandLimit(r, x)
  /\ p.lastResult = {} =>
       \A v \in r.target : \A t \in Teams(r, k) :
         p.scores[t] < Points(v) \/ (p.scores[t] = Points(v) /\ t \in p.rough)
  /\ \A y \in p.lastResult :
       /\ y.winners # {}
       /\ \E short \in SUBSET p.rough :
            y.endReason = MatchEndReason(r, p.number, p.scores, short, x)

\* The match as agreed: the bids made, the totals, the length.
Settled(r, k, x, p) == Bids(r, k, p) /\ Totals(r, k, p) /\ Timed(r, k, x, p)

\* A step that touches neither bids nor totals leaves the match as settled.
LEMMA KeptSettled ==
  ASSUME NEW r, NEW k, NEW x, NEW p, NEW q, Settled(r, k, x, p), p.phase # "BIDDING",
         q.bid = p.bid, q.declarer = p.declarer, q.number = p.number,
         q.scores = p.scores, q.bags = p.bags, q.rough = p.rough, q.lastResult = p.lastResult
  PROVE  Settled(r, k, x, q)
<1>1. Bids(r, k, q)
  BY DEF Settled, Bids
<1> QED BY <1>1 DEF Settled, Totals, Timed

\* Moves leave the match as settled.
LEMMA MoveSettled ==
  ASSUME NEW r, NEW k, NEW x, NEW p, Settled(r, k, x, p), NEW q, MoveEffect(r, k, p, q)
  PROVE  Settled(r, k, x, q)
<1>1. \A mid, c : Discards(r, k, mid, c, q) => Laid(r, mid, c, q)
  BY DEF Discards, PlayOn, PlayLast
<1>2. /\ p.phase # "BIDDING"
      /\ q.bid = p.bid /\ q.declarer = p.declarer /\ q.number = p.number
      /\ q.scores = p.scores /\ q.bags = p.bags /\ q.rough = p.rough
      /\ q.lastResult = p.lastResult
  <2> DEFINE Alike(a, b) ==
        /\ b.bid = a.bid /\ b.declarer = a.declarer /\ b.number = a.number
        /\ b.scores = a.scores /\ b.bags = a.bags /\ b.rough = a.rough
        /\ b.lastResult = a.lastResult
  <2>1. \A mid, c : Laid(r, mid, c, q) => Alike(mid, q)
    BY DEF Laid
  <2>2. \A mid : Turned(p, mid) => Alike(p, mid)
    BY DEF Turned
  <2>3. \A s : Named(r, k, p, s, q) => Alike(p, q)
    BY DEF Named, Undealt
  <2>4. \A mid : Alike(p, mid) /\ Alike(mid, q) => Alike(p, q)
    OBVIOUS
  <2>5. p.phase # "BIDDING"
    BY DEF MoveEffect
  <2> HIDE DEF Alike
  <2>6. Alike(p, q)
    BY <1>1, <2>1, <2>2, <2>3, <2>4 DEF MoveEffect
  <2> USE DEF Alike
  <2> QED BY <2>5, <2>6
<1> QED BY <1>2, KeptSettled

\* A quota is no larger than the hand, unless the seat passed.
LEMMA QuotasBounded ==
  ASSUME Table(rules, n), ~NamesTrump(rules), NEW bids \in BidsMade, NEW s \in Seats(n)
  PROVE  bids[s] = Pass \/ (bids[s] >= 0 /\ bids[s] <= Cardinality(g.hands[s]))
<1>1. PICK b \in rules.bidding :
        bids \in IF b.auction THEN AuctionEnds(b)
                 ELSE IF b.namesTrump THEN RoundEnds(b) ELSE QuotasStaked(b)
  BY DEF BidsMade
<1>2. b.minBid \in Int /\ b.maxBid \in Int /\ b.minBid >= 0 /\ ~b.auction /\ ~b.namesTrump
  BY BiddingHolds
<1>3. bids \in QuotasStaked(b)
  BY <1>1, <1>2
<1>4. bids[s] \in (b.minBid..b.maxBid) \cup {Pass} /\ bids[s] <= Cardinality(g.hands[s])
  BY <1>3 DEF QuotasStaked
<1> QED BY <1>2, <1>4

\* The end of the bidding leaves the match settled.
LEMMA BidSettled ==
  ASSUME Playing, Settled(rules, n, override, g), BidStep, NEW q, q = g'
  PROVE  Settled(rules, n, override, q)
<1>1. PICK bids \in BidsMade :
        HookAllows(bids) /\ BidEffect(rules, n, g, bids, DeclarerOf(bids), q)
  BY DEF BidStep
<1>2. /\ q.bid = bids /\ q.declarer = DeclarerOf(bids) /\ q.number = g.number
      /\ q.scores = g.scores /\ q.bags = g.bags /\ q.rough = g.rough
      /\ q.lastResult = g.lastResult
  BY <1>1 DEF BidEffect, Undealt
<1>3. Table(rules, n) /\ Typed(rules, n, g) /\ Sizes(rules, n, g) /\ Course(rules, n, g)
  BY DEF Playing, Ready
<1>4. \A s \in Seats(n) : Cardinality(g.hands[s]) = HandSize(rules, n, g.number)
  <2>1. g.trick = << >> /\ g.completedTricks = << >>
    BY <1>3 DEF BidStep, Course
  <2>2. \A s : ~OnTable(g, s)
    BY <2>1 DEF OnTable
  <2>3. Len(g.completedTricks) = 0
    BY <2>1
  <2>4. HandSize(rules, n, g.number) \in Int
    BY <1>3, HandSizes DEF Typed
  <2> QED BY <1>3, <2>2, <2>3, <2>4 DEF Sizes
<1>5. DeclarerOf(bids) \subseteq Seats(n)
  BY <1>3 DEF DeclarerOf, Typed
<1>6. (\A s \in Seats(n) : bids[s] # Pass) =>
        \A b \in rules.bidding : b.forbidExactTotal /\ HasChoice(b, HandSize(rules, n, g.number)) =>
          SumFunction([s \in Seats(n) |-> IF bids[s] > 0 THEN bids[s] ELSE 0])
            # HandSize(rules, n, g.number)
  <2>1. Cardinality(g.hands[g.dealer]) = HandSize(rules, n, g.number)
    BY <1>3, <1>4 DEF Typed
  <2>2. g.dealer \in Seats(n)
    BY <1>3 DEF Typed
  <2> QED BY <1>1, <2>1, <2>2 DEF HookAllows
<1>7. IF NamesTrump(rules)
      THEN \E s \in Seats(n) : DeclarerOf(bids) = {s}
      ELSE \A s \in Seats(n) :
             bids[s] = Pass \/ (bids[s] >= 0 /\ bids[s] <= HandSize(rules, n, g.number))
  <2>1. g.dealer \in Seats(n)
    BY <1>3 DEF Typed
  <2> QED BY <1>3, <1>4, <2>1, BidsHold, QuotasBounded
<1>8. Bids(rules, n, q)
  BY <1>2, <1>5, <1>6, <1>7 DEF Bids
<1> QED BY <1>2, <1>8 DEF Settled, Totals, Timed

\* Scoring leaves the match settled, and somebody has won it.
LEMMA ScoreSettled ==
  ASSUME Playing, Settled(rules, n, override, g), ScoreStep, NEW q, q = g'
  PROVE  Settled(rules, n, override, q)
<1>1. /\ g.phase = "SCORING" /\ Tallied(g, q)
      /\ q.scores = NewScores(rules, n, g) /\ q.bags = BagsLeft(rules, g)
      /\ q.rough = Rough(rules, n, g)
  BY DEF ScoreStep
<1>0. PICK short \in SUBSET q.rough :
        q.lastResult = {Result(rules, n, g, NewScores(rules, n, g), short, override)}
  BY DEF ScoreStep
<1>2. Table(rules, n) /\ Typed(rules, n, g) /\ Declared(n, g) /\ Totals(rules, n, g)
  BY DEF Playing, Ready, Settled, Bids, Declared
<1>3. q.scores \in [Teams(rules, n) -> Int]
  BY <1>1, <1>2, ScoresHold
<1>4. q.bags \in [Teams(rules, n) -> Int]
  BY <1>1, <1>2, BagsHold
<1>5. q.phase = g.phase /\ q.number = g.number /\ q.bid = g.bid /\ q.declarer = g.declarer
  BY <1>1 DEF Tallied
<1>6. Bids(rules, n, q)
  BY <1>5 DEF Settled, Bids
<1>7. PICK y : y = Result(rules, n, g, q.scores, short, override)
  OBVIOUS
<1>8. y.winners = Best(rules, q.scores)
      /\ y.endReason = MatchEndReason(rules, g.number, q.scores, short, override)
  BY <1>7 DEF Result
<1>9. Best(rules, q.scores) # {}
  BY <1>2, <1>3, TeamsHold, SomebodyIsBest
<1>10. q.lastResult = {y}
  BY <1>0, <1>1, <1>7
<1>11. Timed(rules, n, override, q)
  BY <1>5, <1>8, <1>9, <1>10 DEF Timed, Settled
<1> QED BY <1>3, <1>4, <1>6, <1>11 DEF Settled, Totals

\* A hand just dealt has no bids to answer for.
LEMMA NewHandBids ==
  ASSUME NEW r, NEW k, Table(r, k), NEW dealer \in Seats(k), NEW i, NEW d, NEW q,
         NewHand(r, k, dealer, i, d, q)
  PROVE  Bids(r, k, q)
<1>1. k \in Nat /\ k >= 2 /\ dealer \in Nat
  BY SeatsHold DEF Seats
<1>2. q.declarer \subseteq Seats(k)
  <2>1. \A a \in Int : a % k \in Seats(k)
    <3>1. \A a \in Int, b \in Nat : b >= 2 => a % b \in 0..(b - 1)
      OBVIOUS
    <3> QED BY <1>1, <3>1 DEF Seats
  <2>2. r.trump.chooserOffset \subseteq Int
    BY RulesHold DEF Table, WellTyped
  <2>3. q.declarer = Chooser(r, k, dealer)
    BY DEF NewHand
  <2> QED BY <1>1, <2>1, <2>2, <2>3 DEF Chooser
<1>3. q.phase # "BIDDING" => r.bidding = {}
  BY PhasesHold DEF NewHand, Table
<1>4. r.bidding = {} => ~NamesTrump(r)
  BY DEF NamesTrump
<1> QED BY <1>2, <1>3, <1>4 DEF Bids

\* matchEndReason: a match that goes on has a hand left and no total at the target
\* but for those that fall short of what they show.
LEMMA GoesOn ==
  ASSUME NEW r \in RuleSets, NEW i \in Nat, NEW T, NEW v \in [T -> Int], NEW x,
         NEW short, ValidHandLimit(x), MatchEndReason(r, i, v, short, x) = {}
  PROVE  /\ i + 1 <= HandLimit(r, x)
         /\ \A z \in r.target : \A t \in T :
              v[t] < Points(z) \/ (v[t] = Points(z) /\ t \in short)
<1>1. HandLimit(r, x) \in Int
  BY LimitHolds
<1>2. ~(i >= HandLimit(r, x)) /\ ~Reached(r, v, short)
  BY DEF MatchEndReason
<1>3. \A z \in r.target : z \in Int
  BY RulesHold DEF WellTyped
<1>4. ASSUME NEW z \in r.target, NEW t \in T
      PROVE  v[t] < Points(z) \/ (v[t] = Points(z) /\ t \in short)
  <2>1. ~(v[t] > Points(z)) /\ (v[t] = Points(z) => t \in short)
    BY <1>2 DEF Reached
  <2>2. v[t] \in Int /\ Points(z) \in Int
    BY <1>3 DEF Points
  <2> QED BY <2>1, <2>2
<1> QED BY <1>1, <1>2, <1>4

\* The inductive invariant of a match's length.
Progressing == Playing /\ Settled(rules, n, override, g)

\* The next deal leaves the match settled.
LEMMA DealSettled ==
  ASSUME Progressing, DealStep, NEW q, q = g'
  PROVE  Settled(rules, n, override, q)
<1>1. PICK x \in g.lastResult, d \in Deals(rules, n, g.number + 1) :
    /\ x.endReason = {}
    /\ NewHand(rules, n, SeatAfter(n, g.dealer), g.number + 1, d, q)
    /\ q.scores = g.scores /\ q.bags = g.bags /\ q.rough = g.rough
  BY DEF DealStep
<1>2. /\ Table(rules, n) /\ Typed(rules, n, g) /\ Bids(rules, n, g) /\ Totals(rules, n, g)
      /\ Timed(rules, n, override, g) /\ ValidHandLimit(override)
  BY DEF Progressing, Playing, Ready, Settled
<1>3. SeatAfter(n, g.dealer) \in Seats(n)
  BY <1>2, SeatsHold, NextSeat DEF Typed
<1>4. Bids(rules, n, q)
  BY <1>1, <1>2, <1>3, NewHandBids
<1>5. PICK short \in SUBSET g.rough : MatchEndReason(rules, g.number, g.scores, short, override) = {}
  BY <1>1, <1>2 DEF Timed
<1>6. g.scores \in [Teams(rules, n) -> Int] /\ g.number \in Nat
  BY <1>2 DEF Totals, Typed
<1>7. /\ g.number + 1 <= HandLimit(rules, override)
      /\ \A v \in rules.target : \A t \in Teams(rules, n) :
           g.scores[t] < Points(v) \/ (g.scores[t] = Points(v) /\ t \in short)
  BY <1>2, <1>5, <1>6, GoesOn DEF Table
<1>8. q.number = g.number + 1 /\ q.lastResult = {}
  BY <1>1 DEF NewHand
<1> QED BY <1>1, <1>2, <1>4, <1>7, <1>8 DEF Settled, Totals, Timed

\* The match starts settled.
LEMMA InitProgressing == Init => Progressing
<1> SUFFICES ASSUME Init PROVE Progressing
  OBVIOUS
<1>1. Playing /\ Table(rules, n) /\ ValidHandLimit(override)
  BY InitPlaying DEF Playing
<1>2. /\ g.scores = [t \in Teams(rules, n) |-> 0] /\ g.bags = [t \in Teams(rules, n) |-> 0]
      /\ \E d \in Deals(rules, n, 1) : NewHand(rules, n, 0, 1, d, g)
  BY Starts
<1>3. PICK d : NewHand(rules, n, 0, 1, d, g)
  BY <1>2
<1>4. Bids(rules, n, g)
  <2>1. 0 \in Seats(n)
    BY <1>1, SeatsHold
  <2> QED BY <1>1, <1>3, <2>1, NewHandBids
<1>5. HandLimit(rules, override) >= 1 /\ g.number = 1 /\ g.lastResult = {}
  BY <1>1, <1>3, LimitHolds DEF NewHand, Table
<1>6. \A v \in rules.target : \A t \in Teams(rules, n) : g.scores[t] < Points(v)
  <2>1. \A v \in rules.target : v \in Int /\ v > 0
    BY <1>1, RulesHold DEF Table, WellTyped, Playable
  <2> QED BY <1>2, <2>1 DEF Points
<1> QED BY <1>1, <1>2, <1>4, <1>5, <1>6 DEF Progressing, Settled, Totals, Timed

\* Every step leaves the match settled.
LEMMA StepProgressing == Progressing /\ [Next]_vars => Progressing'
<1> SUFFICES ASSUME Progressing, [Next]_vars PROVE Progressing'
  OBVIOUS
<1>1. Playing /\ Settled(rules, n, override, g)
  BY DEF Progressing
<1>2. Playing'
  BY <1>1, StepPlaying
<1>3. CASE UNCHANGED vars
  BY <1>1, <1>2, <1>3 DEF Progressing, vars
<1>4. CASE Next
  <2>1. rules' = rules /\ n' = n /\ override' = override
    BY <1>1, <1>4, Steps
  <2>2. PICK q : q = g'
    OBVIOUS
  <2> SUFFICES Settled(rules, n, override, q)
    BY <1>2, <2>1, <2>2 DEF Progressing
  <2>3. CASE BidStep
    BY <1>1, <2>2, <2>3, BidSettled
  <2>4. CASE MoveEffect(rules, n, g, g')
    BY <1>1, <2>2, <2>4, MoveSettled
  <2>5. CASE ScoreStep
    BY <1>1, <2>2, <2>5, ScoreSettled
  <2>6. CASE DealStep
    BY <2>2, <2>6, DealSettled
  <2> QED BY <1>1, <1>4, <2>3, <2>4, <2>5, <2>6, Steps
<1> QED BY <1>3, <1>4

\* The match is always settled.
LEMMA AlwaysProgressing == Spec => []Progressing
BY InitProgressing, StepProgressing, PTL DEF Spec

\* A settled match has the length that was agreed.
LEMMA LengthHolds == Progressing => MatchHasItsLength
BY DEF Progressing, Settled, Timed, MatchHasItsLength

\* No hand is dealt past the limit, nor once a total is past the target; with a
\* total that shows the target itself one is dealt only where fractions of a point
\* went into it; and a match that is over has a winner (matchEndReason, buildResult).
THEOREM MatchesEnd == Spec => []MatchHasItsLength
BY AlwaysProgressing, LengthHolds, PTL

-----------------------------------------------------------------------------
(* The play in hindsight.                                                  *)

\* What seat s held when the trick on the table began.
HeldNow(p, s) == p.hands[s] \cup PlayedBy(s, p.trick)
\* What seat s held when trick i began.
HeldSince(p, s, i) ==
  HeldNow(p, s) \cup UNION {PlayedBy(s, p.completedTricks[j].cards) :
                              j \in {x \in DOMAIN p.completedTricks : x >= i}}
\* The cards of the tricks before trick i.
Before(tricks, i) == UNION {CardsOf(tricks[j].cards) : j \in {x \in DOMAIN tricks : x < i}}

\* Nobody discarded who still had the suit led; h is what the seats held.
Followed(r, cards, lead, h) ==
  r.mustFollowSuit => \A j \in 2..Len(cards) :
    Suit(cards[j][2]) \in lead \/ InSuit(h[cards[j][1]], lead) = {}

\* A locked suit was led by who had nothing else, or once it had been played.
Unlocked(r, cards, lead, before, h) ==
  lead \cap r.lockedLeadSuits # {} /\ InSuit(before, lead \cap r.lockedLeadSuits) = {} =>
    \A c \in h[cards[1][1]] : Suit(c) \in r.lockedLeadSuits

\* c is the highest of some cards.
TopOf(r, cards, c) == c \in cards /\ \A d \in cards : Strength(r, d) <= Strength(r, c)

\* A trick went to the highest trump in sight, or the highest of the suit led.
TakenByTop(r, k, e) ==
  \E j \in 1..k :
    /\ e.cards[j][1] = e.winner
    /\ TopOf(r, IF InSuit(CardsOf(e.cards), e.trump) # {} THEN InSuit(CardsOf(e.cards), e.trump)
                ELSE InSuit(CardsOf(e.cards), e.lead), e.cards[j][2])

\* Trick i was played lawfully.
Lawful(r, k, p, i) ==
  LET e == p.completedTricks[i]
      h == [s \in Seats(k) |-> HeldSince(p, s, i)]
  IN  /\ Followed(r, e.cards, e.lead, h)
      /\ Unlocked(r, e.cards, e.lead, Before(p.completedTricks, i), h)
      /\ TakenByTop(r, k, e)

\* So was what lies on the table.
LawfulTable(r, k, p) ==
  LET h == [s \in Seats(k) |-> HeldNow(p, s)]
  IN  /\ Followed(r, p.trick, p.lead, h)
      /\ Unlocked(r, p.trick, p.lead, PlayedIn(p.completedTricks), h)

\* So was the whole hand.
History(r, k, p) ==
  /\ p.broken = {Suit(c) : c \in Out(p)} \cap r.lockedLeadSuits
  /\ \A i \in DOMAIN p.completedTricks : Lawful(r, k, p, i)
  /\ p.trick # << >> => LawfulTable(r, k, p)

\* Nobody has played to an empty trick.
LEMMA PlayedByNone == \A s : PlayedBy(s, << >>) = {}
BY DEF PlayedBy

\* One more card on the table was played by the seat on turn.
LEMMA TableGrows ==
  ASSUME NEW r, NEW k, NEW p, NEW c, NEW T, OneMore(r, k, p, c, T), NEW s
  PROVE  PlayedBy(s, T) = PlayedBy(s, p.trick) \cup (IF s = p.turn THEN {c} ELSE {})
<1>1. PICK m : m = Len(p.trick) /\ m \in Nat
  BY DEF OneMore
<1>2. /\ DOMAIN p.trick = 1..m /\ DOMAIN T = 1..(m + 1)
      /\ \A i \in 1..m : T[i] = p.trick[i]
      /\ T[m + 1] = <<p.turn, c>>
  BY <1>1 DEF OneMore
<1>3. \A i \in DOMAIN T : i \in DOMAIN p.trick \/ i = m + 1
  BY <1>1, <1>2
<1>4. \A i \in DOMAIN p.trick : i \in DOMAIN T /\ T[i] = p.trick[i]
  BY <1>1, <1>2
<1>5. m + 1 \in DOMAIN T /\ T[m + 1][1] = p.turn /\ T[m + 1][2] = c
  BY <1>1, <1>2
<1> QED BY <1>3, <1>4, <1>5 DEF PlayedBy

\* A card that is laid moves from the hand to the table.
LEMMA HandPlusTable ==
  ASSUME NEW r, NEW k, Table(r, k), NEW p, Ready(r, k, p), NEW c \in p.hands[p.turn], NEW q,
         Laid(r, p, c, q), NEW s \in Seats(k)
  PROVE  q.hands[s] \cup PlayedBy(s, TableWith(p, c)) = HeldNow(p, s)
<1>1. Typed(r, k, p) /\ p.turn \in Seats(k)
  BY DEF Ready, Typed
<1>2. /\ c \in Deck(r)
      /\ q.hands[p.turn] = p.hands[p.turn] \ {c}
      /\ \A u \in Seats(k) : u # p.turn => q.hands[u] = p.hands[u]
  BY <1>1, HandsWithout
<1>3. PICK T : T = TableWith(p, c)
  OBVIOUS
<1>4. OneMore(r, k, p, c, T)
  BY <1>1, <1>2, <1>3, TableWithHolds
<1>5. PlayedBy(s, T) = PlayedBy(s, p.trick) \cup (IF s = p.turn THEN {c} ELSE {})
  BY <1>4, TableGrows
<1> QED BY <1>2, <1>3, <1>5 DEF HeldNow

\* A discard does not change what anybody held when a trick began.
LEMMA HeldKept ==
  ASSUME NEW r, NEW k, Table(r, k), NEW p, Ready(r, k, p), NEW c \in p.hands[p.turn], NEW q,
         Discards(r, k, p, c, q), NEW s \in Seats(k)
  PROVE  /\ \A i \in 1..(Len(p.completedTricks) + 1) : HeldSince(q, s, i) = HeldSince(p, s, i)
         /\ Len(TableWith(p, c)) < k => HeldNow(q, s) = HeldNow(p, s)
<1> PICK T : T = TableWith(p, c)
  OBVIOUS
<1>1. q.hands[s] \cup PlayedBy(s, T) = HeldNow(p, s)
  BY HandPlusTable DEF Discards, PlayOn, PlayLast
<1>2. CASE Len(TableWith(p, c)) < k
  <2>1. q.completedTricks = p.completedTricks /\ q.trick = T
    BY <1>2 DEF Discards, PlayOn
  <2>2. HeldNow(q, s) = HeldNow(p, s)
    BY <1>1, <2>1 DEF HeldNow
  <2> QED BY <2>1, <2>2 DEF HeldSince
<1>3. CASE ~(Len(TableWith(p, c)) < k)
  <2>1. PICK e : /\ q.completedTricks = Append(p.completedTricks, e) /\ e.cards = T
    <3>1. PICK e : e = [cards |-> T, winner |-> Taker(r, p, c),
                        lead |-> LeadWith(p, c), trump |-> ShownWith(r, p, c)]
      OBVIOUS
    <3>2. q.completedTricks = Append(p.completedTricks, e)
      BY <1>3, <3>1 DEF Discards, PlayLast
    <3> QED BY <3>1, <3>2
  <2>2. q.trick = << >>
    BY <1>3 DEF Discards, PlayLast
  <2>3. HeldNow(q, s) = q.hands[s]
    BY <2>2, PlayedByNone DEF HeldNow
  <2>4. Grown(p.completedTricks, e, q.completedTricks)
    <3>1. p.completedTricks \in Seq(Range(p.completedTricks))
      BY DEF Ready, Typed
    <3> QED BY <2>1, <3>1, AppendGrows
  <2>5. ASSUME NEW i \in 1..(Len(p.completedTricks) + 1)
        PROVE  HeldSince(q, s, i) = HeldSince(p, s, i)
    <3> DEFINE a == p.completedTricks
               b == q.completedTricks
               N == Len(p.completedTricks) + 1
               A == UNION {PlayedBy(s, a[j].cards) : j \in {x \in DOMAIN a : x >= i}}
               B == UNION {PlayedBy(s, b[j].cards) : j \in {x \in DOMAIN b : x >= i}}
    <3>1. N >= i /\ N \in DOMAIN b /\ b[N] = e
      BY <2>4 DEF Grown
    <3>2. \A j \in DOMAIN a : j \in DOMAIN b /\ b[j] = a[j]
      BY <2>4 DEF Grown
    <3>3. \A j \in DOMAIN b : j \in DOMAIN a \/ j = N
      BY <2>4 DEF Grown
    <3>4. B = A \cup PlayedBy(s, T)
      <4> HIDE DEF a, b, N
      <4> QED BY <2>1, <3>1, <3>2, <3>3
    <3>5. HeldSince(q, s, i) = q.hands[s] \cup B /\ HeldSince(p, s, i) = HeldNow(p, s) \cup A
      BY <2>3 DEF HeldSince
    <3> HIDE DEF A, B
    <3> QED BY <1>1, <3>4, <3>5
  <2> QED BY <1>3, <2>5
<1> QED BY <1>2, <1>3

\* A card that is offered follows suit, or opens a suit as the rules allow.
LEMMA NewTableLawful ==
  ASSUME NEW r, NEW k, Table(r, k), NEW p, Ready(r, k, p), History(r, k, p),
         NEW trump, NEW forced, NEW c \in Options(r, p, trump, forced),
         NEW h, h = [s \in Seats(k) |-> HeldNow(p, s)]
  PROVE  /\ Followed(r, TableWith(p, c), LeadWith(p, c), h)
         /\ Unlocked(r, TableWith(p, c), LeadWith(p, c), PlayedIn(p.completedTricks), h)
<1>1. Typed(r, k, p) /\ p.turn \in Seats(k) /\ Turns(k, p) /\ Course(r, k, p)
  BY DEF Ready, Typed
<1>2. c \in p.hands[p.turn] /\ p.hands[p.turn] \subseteq Deck(r)
  BY <1>1, OptionsHeld DEF Typed
<1> PICK T : T = TableWith(p, c)
  OBVIOUS
<1>3. OneMore(r, k, p, c, T)
  BY <1>1, <1>2, TableWithHolds
<1>4. PICK m : /\ m = Len(p.trick) /\ m \in Nat /\ Len(T) = m + 1
               /\ \A i \in 1..m : T[i] = p.trick[i]
               /\ T[m + 1] = <<p.turn, c>>
  BY <1>3 DEF OneMore
<1>5. h[p.turn] = p.hands[p.turn]
  <2>1. ~OnTable(p, p.turn)
    BY <1>1, TurnIsFree
  <2>2. DOMAIN p.trick = 1..Len(p.trick)
    BY <1>1 DEF Typed
  <2>3. PlayedBy(p.turn, p.trick) = {}
    BY <2>1, <2>2 DEF OnTable, PlayedBy
  <2> QED BY <1>1, <2>3 DEF HeldNow
<1>6. p.lead = {} <=> p.trick = << >>
  BY <1>1 DEF Course
<1>7. CASE p.trick = << >>
  <2>1. m = 0 /\ Len(T) = 1 /\ T[1][1] = p.turn
    BY <1>4, <1>7
  <2>2. Followed(r, T, LeadWith(p, c), h)
    BY <2>1 DEF Followed
  <2>3. LeadWith(p, c) = {Suit(c)}
    BY <1>7 DEF LeadWith
  <2>4. p.broken = {Suit(x) : x \in PlayedIn(p.completedTricks)} \cap r.lockedLeadSuits
    BY <1>7, CardsOfNone DEF History, Out
  <2>5. ASSUME Suit(c) \in r.lockedLeadSuits,
               InSuit(PlayedIn(p.completedTricks), {Suit(c)} \cap r.lockedLeadSuits) = {},
               NEW d \in p.hands[p.turn]
        PROVE  Suit(d) \in r.lockedLeadSuits
    <3>1. Suit(c) \notin p.broken
      BY <2>4, <2>5 DEF InSuit
    <3>2. c \in LeadOptions(r, p.hands[p.turn], p.broken)
      BY <1>6, <1>7 DEF Options
    <3> QED BY <2>5, <3>1, <3>2 DEF LeadOptions
  <2>6. Unlocked(r, T, LeadWith(p, c), PlayedIn(p.completedTricks), h)
    <3>1. {Suit(c)} \cap r.lockedLeadSuits # {} => Suit(c) \in r.lockedLeadSuits
      OBVIOUS
    <3> QED BY <1>5, <2>1, <2>3, <2>5, <3>1 DEF Unlocked
  <2> QED BY <2>2, <2>6
<1>8. CASE p.trick # << >>
  <2>1. m >= 1
    <3>1. p.trick \in Seq(Seats(k) \X Deck(r))
      BY <1>1 DEF Typed
    <3> QED BY <1>4, <1>8, <3>1
  <2>2. LeadWith(p, c) = p.lead /\ T[1] = p.trick[1]
    BY <1>4, <1>8, <2>1 DEF LeadWith
  <2>3. /\ Followed(r, p.trick, p.lead, h)
        /\ Unlocked(r, p.trick, p.lead, PlayedIn(p.completedTricks), h)
    BY <1>8 DEF History, LawfulTable
  <2>4. Unlocked(r, T, p.lead, PlayedIn(p.completedTricks), h)
    BY <2>2, <2>3 DEF Unlocked
  <2>5. ASSUME r.mustFollowSuit, NEW j \in 2..Len(T)
        PROVE  Suit(T[j][2]) \in p.lead \/ InSuit(h[T[j][1]], p.lead) = {}
    <3>1. CASE j = m + 1
      <4>1. c \in FollowOptions(r, p.hands[p.turn], p.lead, trump, forced)
        BY <1>6, <1>8 DEF Options
      <4>2. Suit(c) \in p.lead \/ InSuit(p.hands[p.turn], p.lead) = {}
        BY <2>5, <4>1 DEF FollowOptions, InSuit
      <4> QED BY <1>4, <1>5, <3>1, <4>2
    <3>2. CASE j # m + 1
      <4>1. j \in 2..m /\ j \in 1..m
        BY <1>4, <3>2
      <4> QED BY <1>4, <2>3, <2>5, <4>1 DEF Followed
    <3> QED BY <3>1, <3>2
  <2>6. Followed(r, T, p.lead, h)
    BY <2>5 DEF Followed
  <2> QED BY <2>2, <2>4, <2>6
<1> QED BY <1>7, <1>8

\* resolveTrick: the highest trump in sight, or the highest of the suit led, takes.
LEMMA TopTakes ==
  ASSUME NEW r \in RuleSets, NEW k \in Nat, k >= 1, NEW T \in Seq(Seats(k) \X Deck(r)), Len(T) = k,
         NEW trump, NEW e, e.cards = T, e.lead = {Suit(T[1][2])}, e.trump = trump,
         e.winner = TrickWinner(r, T, e.lead, trump)
  PROVE  TakenByTop(r, k, e)
<1> PICK lead : lead = e.lead
  OBVIOUS
<1>1. PICK b \in 1..Len(T) :
         /\ TrickWinner(r, T, lead, trump) = T[b][1]
         /\ \A j \in 1..Len(T) :
              TrickValue(r, T[j][2], lead, trump) <= TrickValue(r, T[b][2], lead, trump)
  <2>1. T # << >>
    OBVIOUS
  <2> QED BY <2>1, TrickHasWinner
<1> DEFINE C == CardsOf(T)
           v == [x \in C |-> TrickValue(r, x, lead, trump)]
           st == [x \in C |-> Strength(r, x)]
<1>2. DOMAIN T = 1..Len(T) /\ Len(T) >= 1 /\ b \in DOMAIN T /\ 1 \in DOMAIN T
  OBVIOUS
<1>3. T[b][2] \in C /\ T[1][2] \in C
  BY <1>2 DEF CardsOf
<1>4. \A x \in C : v[x] <= v[T[b][2]]
  <2> SUFFICES ASSUME NEW j \in DOMAIN T PROVE v[T[j][2]] <= v[T[b][2]]
    BY DEF CardsOf
  <2>1. T[j][2] \in C
    BY DEF CardsOf
  <2>2. j \in 1..Len(T)
    BY <1>2
  <2> QED BY <1>1, <1>3, <2>1, <2>2
<1>9. \A x \in C : x \in Deck(r)
  BY <1>2 DEF CardsOf
<1>10. \A x \in C : /\ st[x] \in 1..13 /\ st[x] = Strength(r, x)
                    /\ Suit(x) \in trump => v[x] = 1000 + st[x]
                    /\ Suit(x) \notin trump /\ Suit(x) \in lead => v[x] = st[x]
                    /\ Suit(x) \notin trump /\ Suit(x) \notin lead => v[x] = -1
  BY <1>9, StrengthHolds DEF MaxRanks, TrickValue
<1> PICK w : w = T[b][2]
  OBVIOUS
<1>11. w \in C /\ \A x \in C : v[x] <= v[w]
  BY <1>3, <1>4
<1>12. \A x \in C : st[x] \in Int /\ 1 <= st[x] /\ st[x] <= 13
  <2> HIDE DEF C, v, st
  <2>1. \A i \in 1..13 : i \in Int /\ 1 <= i /\ i <= 13
    OBVIOUS
  <2> QED BY <1>10, <2>1
<1> HIDE DEF C, v, st
<1>5. ASSUME InSuit(C, trump) # {} PROVE TopOf(r, InSuit(C, trump), w)
  <2>1. PICK d \in C : Suit(d) \in trump
    BY <1>5 DEF InSuit
  <2>2. Suit(w) \in trump
    <3>1. v[d] = 1000 + st[d] /\ v[d] <= v[w]
      BY <1>10, <1>11, <2>1
    <3>2. Suit(w) \notin trump => v[w] = -1 \/ v[w] = st[w]
      BY <1>10, <1>11
    <3>3. st[d] \in Int /\ 1 <= st[d] /\ st[w] \in Int /\ st[w] <= 13
      BY <1>11, <1>12, <2>1
    <3> QED BY <3>1, <3>2, <3>3
  <2>3. ASSUME NEW x \in C, Suit(x) \in trump PROVE Strength(r, x) <= Strength(r, w)
    <3>1. 1000 + st[x] <= 1000 + st[w]
      BY <1>10, <1>11, <2>2, <2>3
    <3>2. st[x] \in Int /\ st[w] \in Int
      BY <1>11, <1>12, <2>3
    <3>3. st[x] <= st[w]
      BY <3>1, <3>2
    <3> QED BY <1>10, <1>11, <3>3
  <2> QED BY <1>11, <2>2, <2>3 DEF TopOf, InSuit
<1>6. ASSUME InSuit(C, trump) = {} PROVE TopOf(r, InSuit(C, lead), w)
  <2>1. \A x \in C : Suit(x) \notin trump
    BY <1>6 DEF InSuit
  <2>2. PICK d : d = T[1][2] /\ d \in C /\ Suit(d) \in lead
    BY <1>3
  <2>3. Suit(w) \in lead
    <3>1. v[d] = st[d] /\ v[d] <= v[w] /\ st[d] >= 1 /\ st[d] \in Int
      <4>1. v[d] = st[d] /\ v[d] <= v[w]
        BY <1>10, <1>11, <2>1, <2>2
      <4>2. 1 <= st[d] /\ st[d] \in Int
        BY <1>12, <2>2
      <4> QED BY <4>1, <4>2
    <3>2. Suit(w) \notin lead => v[w] = -1
      BY <1>10, <1>11, <2>1
    <3> QED BY <3>1, <3>2
  <2>4. ASSUME NEW x \in C, Suit(x) \in lead PROVE Strength(r, x) <= Strength(r, w)
    <3>1. v[x] = st[x] /\ v[w] = st[w] /\ v[x] <= v[w]
      BY <1>10, <1>11, <2>1, <2>3, <2>4
    <3>2. st[x] <= st[w]
      BY <3>1
    <3> QED BY <1>10, <1>11, <3>2
  <2> QED BY <1>11, <2>3, <2>4 DEF TopOf, InSuit
<1>7. e.cards[b][1] = e.winner /\ e.cards[b][2] = w /\ b \in 1..k
  BY <1>1
<1>8. CardsOf(e.cards) = C
  BY DEF C
<1> QED BY <1>5, <1>6, <1>7, <1>8 DEF TakenByTop

\* The suit led is that of the first card.
LEMMA LeadIsFirst ==
  ASSUME NEW r, NEW k, Table(r, k), NEW p, Ready(r, k, p), NEW c \in Deck(r), NEW T,
         OneMore(r, k, p, c, T)
  PROVE  LeadWith(p, c) = {Suit(T[1][2])}
<1>1. PICK m : /\ m = Len(p.trick) /\ m \in Nat /\ \A i \in 1..m : T[i] = p.trick[i]
               /\ T[m + 1] = <<p.turn, c>>
  BY DEF OneMore
<1>2. CASE p.trick = << >>
  <2>1. m = 0
    BY <1>1, <1>2
  <2>2. T[1] = <<p.turn, c>>
    BY <1>1, <2>1
  <2> QED BY <1>2, <2>2 DEF LeadWith
<1>3. CASE p.trick # << >>
  <2>1. p.trick \in Seq(Seats(k) \X Deck(r))
    BY DEF Ready, Typed
  <2>2. m >= 1
    BY <1>1, <1>3, <2>1
  <2>3. T[1] = p.trick[1]
    BY <1>1, <2>2
  <2> QED BY <1>3, <2>3 DEF LeadWith, Ready, Course
<1> QED BY <1>2, <1>3

\* A discard keeps the history lawful.
LEMMA DiscardHistory ==
  ASSUME NEW r, NEW k, Table(r, k), NEW p, Ready(r, k, p), History(r, k, p),
         NEW trump, NEW forced, NEW c \in Options(r, p, trump, forced), NEW q,
         Discards(r, k, p, c, q)
  PROVE  History(r, k, q)
<1>1. Typed(r, k, p) /\ c \in p.hands[p.turn] /\ c \in Deck(r) /\ k \in Nat /\ k >= 2
  <2>1. Typed(r, k, p) /\ c \in p.hands[p.turn]
    BY OptionsHeld DEF Ready
  <2> QED BY <2>1, SeatsHold DEF Typed
<1>2. q.broken = {Suit(x) : x \in Out(q)} \cap r.lockedLeadSuits
  <2>1. Out(q) = Out(p) \cup {c}
    BY <1>1, OutGrows
  <2>2. q.broken = p.broken \cup ({Suit(c)} \cap r.lockedLeadSuits)
    BY DEF Discards, PlayOn, PlayLast, Laid, Broken
  <2> QED BY <2>1, <2>2 DEF History
<1> PICK T : T = TableWith(p, c)
  OBVIOUS
<1>3. OneMore(r, k, p, c, T)
  BY <1>1, TableWithHolds
<1> DEFINE now == [s \in Seats(k) |-> HeldNow(p, s)]
<1>4. /\ Followed(r, T, LeadWith(p, c), now)
      /\ Unlocked(r, T, LeadWith(p, c), PlayedIn(p.completedTricks), now)
  BY NewTableLawful
<1>5. p.completedTricks \in Seq(Range(p.completedTricks)) /\ Len(p.completedTricks) \in Nat
      /\ DOMAIN p.completedTricks = 1..Len(p.completedTricks)
  <2>1. p.completedTricks \in Seq(Range(p.completedTricks))
    BY <1>1 DEF Typed
  <2> QED BY <2>1
<1>6. \A i \in 1..(Len(p.completedTricks) + 1) :
        [s \in Seats(k) |-> HeldSince(q, s, i)] = [s \in Seats(k) |-> HeldSince(p, s, i)]
  BY <1>1, HeldKept
<1>7. CASE Len(TableWith(p, c)) < k
  <2>1. q.completedTricks = p.completedTricks /\ q.trick = T /\ q.lead = LeadWith(p, c)
    BY <1>7 DEF Discards, PlayOn
  <2>2. [s \in Seats(k) |-> HeldNow(q, s)] = now
    BY <1>1, <1>7, HeldKept
  <2>3. LawfulTable(r, k, q)
    <3> HIDE DEF now
    <3> QED BY <1>4, <2>1, <2>2 DEF LawfulTable
  <2>4. ASSUME NEW i \in DOMAIN q.completedTricks PROVE Lawful(r, k, q, i)
    <3>1. i \in 1..(Len(p.completedTricks) + 1) /\ i \in DOMAIN p.completedTricks
      BY <1>5, <2>1
    <3>2. Lawful(r, k, p, i)
      BY <3>1 DEF History
    <3>3. [s \in Seats(k) |-> HeldSince(q, s, i)] = [s \in Seats(k) |-> HeldSince(p, s, i)]
      BY <1>6, <3>1
    <3> QED BY <2>1, <3>2, <3>3 DEF Lawful
  <2> QED BY <1>2, <2>3, <2>4 DEF History
<1>8. CASE ~(Len(TableWith(p, c)) < k)
  <2>1. PICK e : /\ q.completedTricks = Append(p.completedTricks, e)
                 /\ e.cards = T /\ e.lead = LeadWith(p, c) /\ e.trump = ShownWith(r, p, c)
                 /\ e.winner = TrickWinner(r, T, LeadWith(p, c), ShownWith(r, p, c))
    <3>1. PICK e : e = [cards |-> T, winner |-> Taker(r, p, c),
                        lead |-> LeadWith(p, c), trump |-> ShownWith(r, p, c)]
      OBVIOUS
    <3>2. q.completedTricks = Append(p.completedTricks, e)
      BY <1>8, <3>1 DEF Discards, PlayLast
    <3> QED BY <3>1, <3>2 DEF Taker
  <2>2. q.trick = << >>
    BY <1>8 DEF Discards, PlayLast
  <2> DEFINE a == p.completedTricks
             b == q.completedTricks
             N == Len(p.completedTricks) + 1
  <2>3. Grown(a, e, b)
    BY <1>5, <2>1, AppendGrows
  <2>4. N \in DOMAIN b /\ b[N] = e /\ \A i \in DOMAIN b : i \in DOMAIN a \/ i = N
    BY <2>3 DEF Grown
  <2>5. ASSUME NEW i \in DOMAIN a PROVE Lawful(r, k, q, i)
    <3>1. i \in 1..N /\ b[i] = a[i] /\ i < N
      BY <1>5, <2>3 DEF Grown
    <3>2. Lawful(r, k, p, i)
      BY DEF History
    <3>3. [s \in Seats(k) |-> HeldSince(q, s, i)] = [s \in Seats(k) |-> HeldSince(p, s, i)]
      BY <1>6, <3>1
    <3>4. Before(b, i) = Before(a, i)
      <4>1. \A j \in DOMAIN a : j \in DOMAIN b /\ b[j] = a[j]
        BY <2>3 DEF Grown
      <4>2. \A j \in DOMAIN b : j < i => j \in DOMAIN a
        BY <1>5, <2>4, <3>1
      <4> HIDE DEF a, b, N
      <4> QED BY <4>1, <4>2 DEF Before
    <3> QED BY <3>1, <3>2, <3>3, <3>4 DEF Lawful
  <2>6. Lawful(r, k, q, N)
    <3>1. [s \in Seats(k) |-> HeldSince(q, s, N)] = now
      <4>1. \A s : HeldSince(p, s, N) = HeldNow(p, s)
        <5>1. {x \in DOMAIN a : x >= N} = {}
          BY <1>5
        <5> QED BY <5>1 DEF HeldSince
      <4>2. N \in 1..(Len(p.completedTricks) + 1)
        BY <1>5
      <4> QED BY <1>6, <4>1, <4>2
    <3>2. Before(b, N) = PlayedIn(a)
      <4>1. \A j \in DOMAIN a : j \in DOMAIN b /\ b[j] = a[j] /\ j < N
        BY <1>5, <2>3 DEF Grown
      <4>2. \A j \in DOMAIN b : j < N => j \in DOMAIN a
        BY <1>5, <2>4
      <4> HIDE DEF a, b, N
      <4> QED BY <4>1, <4>2 DEF Before, PlayedIn
    <3>3. e.lead = {Suit(T[1][2])}
      BY <1>1, <1>3, <2>1, LeadIsFirst
    <3>4. T \in Seq(Seats(k) \X Deck(r)) /\ Len(T) = k
      <4>1. T \in Seq(Seats(k) \X Deck(r)) /\ Len(T) = Len(p.trick) + 1 /\ Len(p.trick) \in Nat
        BY <1>3 DEF OneMore
      <4> QED BY <1>1, <1>8, <4>1 DEF Typed
    <3>5. TakenByTop(r, k, e)
      <4>1. e.winner = TrickWinner(r, T, e.lead, e.trump)
        BY <2>1
      <4>2. r \in RuleSets /\ k \in Nat /\ k >= 1
        BY <1>1 DEF Table
      <4>3. PICK z : z = e.trump
        OBVIOUS
      <4>4. e.cards = T /\ e.trump = z /\ e.winner = TrickWinner(r, T, e.lead, z)
        BY <2>1, <4>1, <4>3
      <4> QED BY <3>3, <3>4, <4>2, <4>4, TopTakes
    <3>6. Followed(r, e.cards, e.lead, now) /\ Unlocked(r, e.cards, e.lead, PlayedIn(a), now)
      BY <1>4, <2>1
    <3>7. b[N] = e
      BY <2>4
    <3> HIDE DEF now, a, N
    <3> QED BY <3>1, <3>2, <3>5, <3>6, <3>7 DEF Lawful
  <2>7. \A i \in DOMAIN b : Lawful(r, k, q, i)
    BY <2>4, <2>5, <2>6
  <2> QED BY <1>2, <2>2, <2>7 DEF History
<1> QED BY <1>7, <1>8

\* The history depends on no more of a position.
LEMMA KeptHistory ==
  ASSUME NEW r, NEW k, NEW p, NEW q, SameBooks(p, q), q.broken = p.broken, q.lead = p.lead,
         History(r, k, p)
  PROVE  History(r, k, q)
<1>1. /\ q.hands = p.hands /\ q.trick = p.trick /\ q.completedTricks = p.completedTricks
  BY DEF SameBooks
<1>2. \A s : HeldNow(q, s) = HeldNow(p, s)
  BY <1>1 DEF HeldNow
<1>3. \A s, i : HeldSince(q, s, i) = HeldSince(p, s, i)
  BY <1>1, <1>2 DEF HeldSince
<1>4. \A i : Lawful(r, k, p, i) => Lawful(r, k, q, i)
  <2> SUFFICES ASSUME NEW i, Lawful(r, k, p, i) PROVE Lawful(r, k, q, i)
    OBVIOUS
  <2>1. [s \in Seats(k) |-> HeldSince(q, s, i)] = [s \in Seats(k) |-> HeldSince(p, s, i)]
    BY <1>3
  <2> QED BY <1>1, <2>1 DEF Lawful
<1>5. LawfulTable(r, k, p) => LawfulTable(r, k, q)
  <2>1. [s \in Seats(k) |-> HeldNow(q, s)] = [s \in Seats(k) |-> HeldNow(p, s)]
    BY <1>2
  <2> QED BY <1>1, <2>1 DEF LawfulTable
<1>6. Out(q) = Out(p)
  BY <1>1 DEF Out
<1> QED BY <1>1, <1>4, <1>5, <1>6 DEF History

\* Every legal move keeps the history lawful.
LEMMA MoveHistory ==
  ASSUME NEW r, NEW k, Table(r, k), NEW p, Ready(r, k, p), History(r, k, p), NEW q,
         MoveEffect(r, k, p, q)
  PROVE  History(r, k, q)
<1>1. CASE p.phase = "TRUMP_SELECTION" /\ \E s \in Suits(r) : Named(r, k, p, s, q)
  <2>1. SameBooks(p, q) /\ q.broken = p.broken /\ q.lead = p.lead
    BY <1>1 DEF Named, Undealt, SameBooks
  <2> QED BY <2>1, KeptHistory
<1>2. CASE /\ p.phase = "PLAYING"
           /\ \E c \in Options(r, p, VisibleTrump(p), OwesTrump(r, p)) : Discards(r, k, p, c, q)
  BY <1>2, DiscardHistory
<1>3. CASE p.phase = "PLAYING" /\ MayReveal(r, p) /\ Turned(p, q)
  <2>1. SameBooks(p, q) /\ q.broken = p.broken /\ q.lead = p.lead
    BY <1>3 DEF Turned, SameBooks
  <2> QED BY <2>1, KeptHistory
<1>4. CASE /\ p.phase = "PLAYING" /\ MayReveal(r, p)
           /\ \E mid : /\ Turned(p, mid)
                       /\ \E c \in Options(r, mid, mid.trump, FALSE) : Discards(r, k, mid, c, q)
  <2>1. PICK mid : /\ Turned(p, mid)
                   /\ \E c \in Options(r, mid, mid.trump, FALSE) : Discards(r, k, mid, c, q)
    BY <1>4
  <2>2. Ready(r, k, mid)
    BY <1>4, <2>1, TurnedReady DEF MayReveal, Turned
  <2>3. SameBooks(p, mid) /\ mid.broken = p.broken /\ mid.lead = p.lead
    BY <2>1 DEF Turned, SameBooks
  <2>4. History(r, k, mid)
    BY <2>3, KeptHistory
  <2> QED BY <2>1, <2>2, <2>4, DiscardHistory
<1> QED BY <1>1, <1>2, <1>3, <1>4 DEF MoveEffect

\* The inductive invariant of lawful play.
Remembered == Playing /\ History(rules, n, g)

\* A hand just dealt has no history.
LEMMA NewHandHistory ==
  ASSUME NEW r, NEW k, NEW dealer, NEW i, NEW d, NEW q, NewHand(r, k, dealer, i, d, q)
  PROVE  History(r, k, q)
<1>1. q.trick = << >> /\ q.completedTricks = << >> /\ q.broken = {}
  BY DEF NewHand
<1>2. Out(q) = {}
  BY <1>1, CardsOfNone DEF Out, PlayedIn
<1> QED BY <1>1, <1>2 DEF History

\* The match starts without a history.
LEMMA InitRemembered == Init => Remembered
BY InitPlaying, Starts, NewHandHistory DEF Remembered

\* Every step keeps the history lawful.
LEMMA StepRemembered == Remembered /\ [Next]_vars => Remembered'
<1> SUFFICES ASSUME Remembered, [Next]_vars PROVE Remembered'
  OBVIOUS
<1>1. Playing /\ History(rules, n, g) /\ Table(rules, n) /\ Ready(rules, n, g)
  BY DEF Remembered, Playing
<1>2. Playing'
  BY <1>1, StepPlaying
<1>3. CASE UNCHANGED vars
  BY <1>1, <1>2, <1>3 DEF Remembered, vars
<1>4. CASE Next
  <2>1. rules' = rules /\ n' = n
    BY <1>1, <1>4, Steps
  <2>2. PICK q : q = g'
    OBVIOUS
  <2> SUFFICES History(rules, n, q)
    BY <1>2, <2>1, <2>2 DEF Remembered
  <2>3. CASE BidStep
    <3>1. SameBooks(g, q) /\ q.broken = g.broken /\ q.lead = g.lead
      BY <2>2, <2>3 DEF BidStep, BidEffect, Undealt, SameBooks
    <3> QED BY <1>1, <3>1, KeptHistory
  <2>4. CASE MoveEffect(rules, n, g, g')
    BY <1>1, <2>2, <2>4, MoveHistory
  <2>5. CASE ScoreStep
    <3>1. SameBooks(g, q) /\ q.broken = g.broken /\ q.lead = g.lead
      BY <2>2, <2>5 DEF ScoreStep, Tallied, SameBooks
    <3> QED BY <1>1, <3>1, KeptHistory
  <2>6. CASE DealStep
    BY <2>2, <2>6, NewHandHistory DEF DealStep
  <2> QED BY <1>1, <1>4, <2>3, <2>4, <2>5, <2>6, Steps
<1> QED BY <1>3, <1>4

\* A lawful history is what the property asks for.
LEMMA HistoryIsLawful == Remembered => PlayIsLawful
<1> SUFFICES ASSUME Remembered, NEW i \in Tricks
             PROVE
    LET trick  == g.completedTricks[i]
        leader == trick.cards[1][1]
        trumps == InSuit(TrickCards(i), trick.trump)
        locked == trick.lead \cap rules.lockedLeadSuits
        before == UNION {TrickCards(j) : j \in {x \in Tricks : x < i}}
    IN  /\ rules.mustFollowSuit => \A k \in 2..n :
             Suit(trick.cards[k][2]) \in trick.lead
               \/ InSuit(HeldAt(trick.cards[k][1], i), trick.lead) = {}
        /\ locked # {} /\ InSuit(before, locked) = {} =>
             \A c \in HeldAt(leader, i) : Suit(c) \in rules.lockedLeadSuits
        /\ \E k \in 1..n :
             /\ trick.cards[k][1] = trick.winner
             /\ Highest(IF trumps # {} THEN trumps ELSE InSuit(TrickCards(i), trick.lead),
                        trick.cards[k][2])
  BY DEF PlayIsLawful
<1> DEFINE e == g.completedTricks[i]
           h == [s \in Seats(n) |-> HeldSince(g, s, i)]
<1>1. Lawful(rules, n, g, i) /\ Typed(rules, n, g) /\ Table(rules, n)
  BY DEF Remembered, History, Playing, Ready, Tricks
<1>2. Followed(rules, e.cards, e.lead, h)
      /\ Unlocked(rules, e.cards, e.lead, Before(g.completedTricks, i), h)
      /\ TakenByTop(rules, n, e)
  BY <1>1 DEF Lawful
<1>3. /\ e.cards \in Seq(Seats(n) \X Deck(rules)) /\ Len(e.cards) = n /\ n \in Nat /\ n >= 2
  BY <1>1, SeatsHold DEF Typed, TrickTyped, Tricks
<1>4. \A k \in 1..n : e.cards[k][1] \in Seats(n)
  <2> PICK T : T = e.cards
    OBVIOUS
  <2>1. T \in Seq(Seats(n) \X Deck(rules)) /\ Len(T) = n
    BY <1>3
  <2>2. \A k \in 1..n : T[k][1] \in Seats(n)
    BY <2>1
  <2> QED BY <2>2
<1>5. \A s : HeldAt(s, i) = HeldSince(g, s, i)
  BY DEF HeldAt, HeldSince, HeldNow, Tricks
<1>6. \A k \in 1..n : h[e.cards[k][1]] = HeldAt(e.cards[k][1], i)
  BY <1>4, <1>5
<1>7. \A j : TrickCards(j) = CardsOf(g.completedTricks[j].cards)
  BY DEF TrickCards
<1>8. UNION {TrickCards(j) : j \in {x \in Tricks : x < i}} = Before(g.completedTricks, i)
  BY <1>7 DEF Before, Tricks
<1>9. \A cards, c : Highest(cards, c) <=> TopOf(rules, cards, c)
  BY DEF Highest, TopOf
<1>10. \A k \in 2..n : k \in 1..n
  BY <1>3
<1>11. rules.mustFollowSuit => \A k \in 2..n :
             Suit(e.cards[k][2]) \in e.lead
               \/ InSuit(HeldAt(e.cards[k][1], i), e.lead) = {}
  <2> HIDE DEF h, e
  <2> QED BY <1>2, <1>3, <1>6, <1>10 DEF Followed
<1>12. e.lead \cap rules.lockedLeadSuits # {}
       /\ InSuit(UNION {TrickCards(j) : j \in {x \in Tricks : x < i}},
                 e.lead \cap rules.lockedLeadSuits) = {} =>
             \A c \in HeldAt(e.cards[1][1], i) : Suit(c) \in rules.lockedLeadSuits
  <2>1. 1 \in 1..n
    BY <1>3
  <2> HIDE DEF h, e
  <2> QED BY <1>2, <1>6, <1>8, <2>1 DEF Unlocked
<1>13. \E k \in 1..n :
         /\ e.cards[k][1] = e.winner
         /\ Highest(IF InSuit(TrickCards(i), e.trump) # {} THEN InSuit(TrickCards(i), e.trump)
                    ELSE InSuit(TrickCards(i), e.lead), e.cards[k][2])
  BY <1>2, <1>7, <1>9 DEF TakenByTop
<1> HIDE DEF h
<1> QED BY <1>11, <1>12, <1>13

\* The history is always lawful.
LEMMA AlwaysRemembered == Spec => []Remembered
BY InitRemembered, StepRemembered, PTL DEF Spec

\* Every trick was led, followed and taken lawfully, judged by what the seats
\* held when it was played (followSuitOptions, leadOptions, resolveTrick).
THEOREM HandsAreLawful == Spec => []PlayIsLawful
BY AlwaysRemembered, HistoryIsLawful, PTL

-----------------------------------------------------------------------------
(* What the scores add up to.                                              *)

\* A sum of differences, in tenths, is the difference of the sums, in tenths.
LEMMA SumScaled ==
  ASSUME NEW f, NEW a, NEW b, NEW S, Ints(a, S), Ints(b, S),
         \A x \in S : f[x] = Points(a[x] - b[x])
  PROVE  /\ Ints(f, S)
         /\ SumFunctionOnSet(f, S) = Points(SumFunctionOnSet(a, S) - SumFunctionOnSet(b, S))
<1> DEFINE Right(T) ==
        SumFunctionOnSet(f, T) = Points(SumFunctionOnSet(a, T) - SumFunctionOnSet(b, T))
           Good == {T \in SUBSET S : Right(T)}
<1>1. IsFiniteSet(S) /\ \A x \in S : a[x] \in Int /\ b[x] \in Int
  BY DEF Ints
<1>2. Ints(f, S)
  BY <1>1 DEF Ints, Points
<1>3. {} \in Good
  BY SumEmpty DEF Points
<1>4. ASSUME NEW T \in SUBSET S, NEW x \in S \ T, T \in Good PROVE T \cup {x} \in Good
  <2>1. Ints(f, T \cup {x}) /\ Ints(a, T \cup {x}) /\ Ints(b, T \cup {x})
        /\ Ints(a, T) /\ Ints(b, T)
    BY <1>1, <1>2, FS_Subset DEF Ints
  <2>2. PICK sf, sa, sb : /\ sf = SumFunctionOnSet(f, T) /\ sa = SumFunctionOnSet(a, T)
                          /\ sb = SumFunctionOnSet(b, T)
    OBVIOUS
  <2>3. /\ SumFunctionOnSet(f, T \cup {x}) = sf + f[x]
        /\ SumFunctionOnSet(a, T \cup {x}) = sa + a[x]
        /\ SumFunctionOnSet(b, T \cup {x}) = sb + b[x]
    BY <2>1, <2>2, SumAdd
  <2>4. sa \in Int /\ sb \in Int /\ sf = Points(sa - sb)
    BY <1>4, <2>1, <2>2, SumInt
  <2>5. f[x] = Points(a[x] - b[x]) /\ a[x] \in Int /\ b[x] \in Int
    BY <1>1
  <2>6. sf + f[x] = Points((sa + a[x]) - (sb + b[x]))
    BY <2>4, <2>5 DEF Points
  <2> QED BY <2>3, <2>6
<1>5. S \in Good
  <2> HIDE DEF Good
  <2> QED BY <1>1, <1>3, <1>4, SubsetInduction
<1> QED BY <1>2, <1>5

\* The seats are shared out among the sides.
LEMMA SidesSum ==
  ASSUME NEW r, NEW k, Table(r, k), NEW f, \A s \in Seats(k) : f[s] \in Int,
         NEW h, DOMAIN h = Teams(r, k),
         \A t \in Teams(r, k) : h[t] = SumFunctionOnSet(f, t)
  PROVE  SumFunction(h) = SumFunctionOnSet(f, Seats(k))
<1>1. PICK z : z = [t \in Teams(r, k) |-> SumFunctionOnSet(f, t)]
  OBVIOUS
<1>2. \A t \in Teams(r, k) : Ints(f, t)
  BY TeamsHold DEF Ints
<1>3. SumFunction(z) = SumFunctionOnSet(f, Seats(k))
  BY <1>1, <1>2, TeamsHold, SumOfSums
<1>4. Ints(z, Teams(r, k))
  BY <1>1, <1>2, TeamsHold, SumInt DEF Ints
<1>5. SumFunctionOnSet(h, Teams(r, k)) = SumFunctionOnSet(z, Teams(r, k))
  BY <1>1, <1>4, SumSame
<1> QED BY <1>1, <1>3, <1>5 DEF SumFunction

\* The seats' tricks add up to those that were completed.
LEMMA EveryTrickWon ==
  ASSUME NEW r, NEW k, Table(r, k), NEW p, Ready(r, k, p), Counts(r, k, p)
  PROVE  SumFunctionOnSet(p.won, Seats(k)) = Len(p.completedTricks)
<1>1. Typed(r, k, p) /\ IsFiniteSet(Seats(k)) /\ p.completedTricks \in Seq(Range(p.completedTricks))
  BY SeatsHold DEF Ready, Typed
<1>2. DOMAIN p.completedTricks = 1..Len(p.completedTricks) /\ Len(p.completedTricks) \in Nat
  BY <1>1
<1>0. PICK F : F = [s \in Seats(k) |-> WonBy(p.completedTricks, {s})]
  OBVIOUS
<1>3. \A s \in Seats(k) : F[s] \subseteq DOMAIN p.completedTricks
  BY <1>0 DEF WonBy
<1>4. IsFiniteSet(DOMAIN p.completedTricks) /\ Cardinality(DOMAIN p.completedTricks) = Len(p.completedTricks)
  BY <1>2, FS_Interval
<1>5. \A s \in Seats(k) : IsFiniteSet(F[s])
  BY <1>3, <1>4, FS_Subset
<1>6. \A s, u \in Seats(k) : s # u => F[s] \cap F[u] = {}
  BY <1>0 DEF WonBy
<1>7. UNION {F[s] : s \in Seats(k)} = DOMAIN p.completedTricks
  <2>1. \A i \in DOMAIN p.completedTricks : p.completedTricks[i].winner \in Seats(k)
    BY <1>1 DEF Typed, TrickTyped
  <2>2. \A i \in DOMAIN p.completedTricks : i \in F[p.completedTricks[i].winner]
    BY <1>0, <2>1 DEF WonBy
  <2> QED BY <1>3, <2>1, <2>2
<1>8. Cardinality(UNION {F[s] : s \in Seats(k)}) = SumFunction([s \in Seats(k) |-> Cardinality(F[s])])
  <2>1. PICK S : S = Seats(k)
    OBVIOUS
  <2>2. IsFiniteSet(S) /\ (\A s \in S : IsFiniteSet(F[s]))
        /\ \A s, u \in S : s # u => F[s] \cap F[u] = {}
    BY <1>1, <1>5, <1>6, <2>1
  <2>3. IsFiniteSet(UNION {F[x] : x \in S})
        /\ Cardinality(UNION {F[x] : x \in S}) = SumFunction([x \in S |-> Cardinality(F[x])])
    BY <2>2, SumCards
  <2> QED BY <2>1, <2>3
<1>9. PICK c : c = [s \in Seats(k) |-> Cardinality(F[s])]
  OBVIOUS
<1>10. \A s \in Seats(k) : p.won[s] = c[s] /\ c[s] \in Int
  <2>1. \A s \in Seats(k) : p.won[s] = c[s]
    BY <1>0, <1>9 DEF Counts
  <2>2. \A s \in Seats(k) : p.won[s] \in Int
    BY <1>1 DEF Typed
  <2> QED BY <2>1, <2>2
<1>11. SumFunctionOnSet(p.won, Seats(k)) = SumFunctionOnSet(c, Seats(k))
  <2>1. Ints(c, Seats(k))
    BY <1>1, <1>10 DEF Ints
  <2> QED BY <1>10, <2>1, SumSame
<1> QED BY <1>4, <1>7, <1>8, <1>9, <1>11 DEF SumFunction

\* No side has made less than nothing.
LEMMA MadeAtLeast ==
  ASSUME NEW r, NEW k, Table(r, k), NEW p, Ready(r, k, p), Counts(r, k, p), NEW t \in Teams(r, k)
  PROVE  Made(r, p, t) \in Int /\ Made(r, p, t) >= 0
<1>1. Typed(r, k, p)
  BY DEF Ready
<1>2. Made(r, p, t) \in Int
  BY <1>1, MadeHolds
<1>3. SumFunctionOnSet(p.won, t) >= 0
  <2>1. Ints(p.won, t) /\ t \subseteq Seats(k)
    BY <1>1, MadeHolds
  <2>2. \A s \in t : p.won[s] >= 0
    BY <1>1, <2>1 DEF Typed
  <2> QED BY <2>1, <2>2, SumAtLeast
<1>4. p.points[t] >= 0
  <2>1. PICK f : f = [i \in WonBy(p.completedTricks, t) |-> TrickWorth(r, p.completedTricks, i)]
    OBVIOUS
  <2>2. p.points[t] = SumFunction(f)
    BY <2>1 DEF Counts
  <2>3. p.completedTricks \in Seq(Range(p.completedTricks))
    BY <1>1 DEF Typed
  <2>4. IsFiniteSet(DOMAIN p.completedTricks)
    BY <2>3, FS_Interval
  <2>5. IsFiniteSet(WonBy(p.completedTricks, t))
    BY <2>4, FS_Subset DEF WonBy
  <2>6. \A i \in WonBy(p.completedTricks, t) : f[i] \in Int /\ f[i] >= 0
    <3> SUFFICES ASSUME NEW i \in WonBy(p.completedTricks, t) PROVE f[i] \in Int /\ f[i] >= 0
      OBVIOUS
    <3>1. CardsOf(p.completedTricks[i].cards) \subseteq Deck(r)
      <4>1. PICK x : x = p.completedTricks[i]
        OBVIOUS
      <4>2. TrickTyped(r, k, x)
        BY <1>1, <4>1 DEF Typed, WonBy
      <4>3. CardsOf(x.cards) \subseteq Deck(r)
        BY <4>2 DEF TrickTyped, CardsOf
      <4> QED BY <4>1, <4>3
    <3> QED BY <2>1, <3>1, WorthHolds DEF Table, TrickWorth
  <2>7. SumFunctionOnSet(f, WonBy(p.completedTricks, t)) >= 0
    BY <2>5, <2>6, SumAtLeast DEF Ints
  <2> QED BY <2>1, <2>2, <2>7 DEF SumFunction
<1> QED BY <1>2, <1>3, <1>4 DEF Made

\* bid-difference: the sides' payments add up to the tricks less the quotas.
LEMMA DifferenceSum ==
  ASSUME NEW r, NEW k, Table(r, k), NEW p, Ready(r, k, p), Counts(r, k, p),
         NEW h, DOMAIN h = Teams(r, k), \A t \in Teams(r, k) : h[t] = BidDifference(p, t)
  PROVE  SumFunction(h) = Points(Len(p.completedTricks)
                                   - SumFunction([s \in Seats(k) |-> SeatBid(p, s)]))
<1>1. Typed(r, k, p) /\ IsFiniteSet(Seats(k))
  BY SeatsHold DEF Ready
<1> PICK b : b = [s \in Seats(k) |-> SeatBid(p, s)]
  OBVIOUS
<1> PICK f : f = [s \in Seats(k) |-> Points(p.won[s] - SeatBid(p, s))]
  OBVIOUS
<1>2. Ints(p.won, Seats(k)) /\ Ints(b, Seats(k))
  BY <1>1, SeatBidHolds DEF Ints
<1>3. \A s \in Seats(k) : f[s] = Points(p.won[s] - b[s])
  OBVIOUS
<1>4. Ints(f, Seats(k))
      /\ SumFunctionOnSet(f, Seats(k))
           = Points(SumFunctionOnSet(p.won, Seats(k)) - SumFunctionOnSet(b, Seats(k)))
  BY <1>2, <1>3, SumScaled
<1>5. ASSUME NEW t \in Teams(r, k) PROVE h[t] = SumFunctionOnSet(f, t)
  <2>1. t \subseteq Seats(k) /\ IsFiniteSet(t)
    BY TeamsHold
  <2>2. PICK x : x = [s \in t |-> Points(p.won[s] - SeatBid(p, s))]
    OBVIOUS
  <2>3. \A s \in t : x[s] = f[s]
    BY <2>1, <2>2
  <2>4. Ints(f, t)
    BY <1>4, <2>1 DEF Ints
  <2>5. SumFunctionOnSet(x, t) = SumFunctionOnSet(f, t)
    BY <2>3, <2>4, SumSame
  <2> QED BY <2>2, <2>5 DEF BidDifference, SumFunction
<1>6. SumFunction(h) = SumFunctionOnSet(f, Seats(k))
  <2>1. \A s \in Seats(k) : f[s] \in Int
    BY <1>4 DEF Ints
  <2> QED BY <1>5, <2>1, SidesSum
<1> QED BY <1>4, <1>6, EveryTrickWon DEF SumFunction

\* A total with one side at v and the others at w.
LEMMA SumButOne ==
  ASSUME NEW h, NEW T, IsFiniteSet(T), NEW t \in T, NEW v \in Int, NEW w \in Int,
         h[t] = v, \A u \in T \ {t} : h[u] = w
  PROVE  SumFunctionOnSet(h, T) = v + w * (Cardinality(T) - 1)
<1>1. Ints(h, T)
  BY DEF Ints
<1>2. SumFunctionOnSet(h, T) = v + SumFunctionOnSet(h, T \ {t})
  BY <1>1, SumAny
<1>3. IsFiniteSet(T \ {t}) /\ Cardinality(T \ {t}) = Cardinality(T) - 1
  BY FS_RemoveElement
<1>4. SumFunctionOnSet(h, T \ {t}) = w * Cardinality(T \ {t})
  BY <1>3, SumConstant
<1> QED BY <1>2, <1>3, <1>4

\* findMoonShooter: only one side can have taken everything.
LEMMA OneShooter ==
  ASSUME NEW r, NEW k, Table(r, k), NEW p, Ready(r, k, p), Counts(r, k, p),
         NEW t \in MoonShooters(r, k, p), NEW u \in MoonShooters(r, k, p)
  PROVE  t = u
<1> SUFFICES ASSUME t # u PROVE FALSE
  OBVIOUS
<1> PICK h : h = [x \in Teams(r, k) |-> Made(r, p, x)]
  OBVIOUS
<1> DEFINE T == Teams(r, k)
<1>1. \A x \in T : h[x] \in Int /\ h[x] >= 0
  BY MadeAtLeast
<1>2. t \in T /\ u \in T /\ h[t] = SumFunctionOnSet(h, T) /\ h[u] = SumFunctionOnSet(h, T)
      /\ SumFunctionOnSet(h, T) > 0
  BY DEF MoonShooters, Captured, SumFunction
<1>3. IsFiniteSet(T)
  BY TeamsHold
<1> HIDE DEF T
<1>4. Ints(h, T) /\ Ints(h, T \ {t}) /\ Ints(h, (T \ {t}) \ {u})
  BY <1>1, <1>3, FS_Subset DEF Ints
<1>5. SumFunctionOnSet(h, T) = h[t] + SumFunctionOnSet(h, T \ {t})
  BY <1>2, <1>4, SumAny
<1>6. SumFunctionOnSet(h, T \ {t}) = h[u] + SumFunctionOnSet(h, (T \ {t}) \ {u})
  BY <1>2, <1>4, SumAny
<1>7. SumFunctionOnSet(h, (T \ {t}) \ {u}) >= 0 /\ SumFunctionOnSet(h, (T \ {t}) \ {u}) \in Int
  BY <1>1, <1>4, SumAtLeast, SumInt
<1> QED BY <1>1, <1>2, <1>5, <1>6, <1>7

\* penalty-points: what was captured is paid out once, or by every opponent.
LEMMA PenaltySum ==
  ASSUME NEW r, NEW k, Table(r, k), NEW p, Ready(r, k, p), Counts(r, k, p),
         NEW h, DOMAIN h = Teams(r, k), \A t \in Teams(r, k) : h[t] = PenaltyPoints(r, k, p, t)
  PROVE  SumFunction(h) \in {Points(Captured(r, k, p)), -Points(Captured(r, k, p)),
                             Points(Captured(r, k, p) * (Cardinality(Teams(r, k)) - 1))}
<1> PICK all : all = Captured(r, k, p)
  OBVIOUS
<1>1. IsFiniteSet(Teams(r, k)) /\ all \in Int /\ Cardinality(Teams(r, k)) \in Nat
  BY TeamsHold, CapturedHolds, FS_CardinalityType DEF Ready
<1>2. CASE MoonShooters(r, k, p) = {}
  <2> PICK a : a = [t \in Teams(r, k) |-> Made(r, p, t)]
    OBVIOUS
  <2> PICK b : b = [t \in Teams(r, k) |-> 0]
    OBVIOUS
  <2>1. Ints(a, Teams(r, k)) /\ Ints(b, Teams(r, k))
    BY <1>1, MadeAtLeast DEF Ints
  <2>2. \A t \in Teams(r, k) : h[t] = Points(a[t] - b[t])
    BY <1>2, MadeAtLeast DEF PenaltyPoints, Points
  <2>3. SumFunctionOnSet(h, Teams(r, k))
          = Points(SumFunctionOnSet(a, Teams(r, k)) - SumFunctionOnSet(b, Teams(r, k)))
    BY <2>1, <2>2, SumScaled
  <2>4. SumFunctionOnSet(b, Teams(r, k)) = 0 * Cardinality(Teams(r, k))
    BY <1>1, SumConstant
  <2>5. SumFunctionOnSet(a, Teams(r, k)) = all
    BY DEF Captured, SumFunction
  <2>6. SumFunction(h) = Points(all)
    BY <1>1, <2>3, <2>4, <2>5 DEF SumFunction, Points
  <2> QED BY <2>6
<1>3. CASE MoonShooters(r, k, p) # {}
  <2>1. PICK t \in MoonShooters(r, k, p) : TRUE
    BY <1>3
  <2>2. t \in Teams(r, k) /\ \A u \in Teams(r, k) \ {t} : u \notin MoonShooters(r, k, p)
    BY <2>1, OneShooter DEF MoonShooters
  <2>3. CASE "shooter-subtracts" \in r.moonShot
    <3>1. h[t] = Points(-all) /\ \A u \in Teams(r, k) \ {t} : h[u] = Points(0)
      BY <1>3, <2>1, <2>2, <2>3 DEF PenaltyPoints
    <3>2. SumFunctionOnSet(h, Teams(r, k)) = Points(-all) + Points(0) * (Cardinality(Teams(r, k)) - 1)
      <4>1. PICK v, w, T : v = Points(-all) /\ w = Points(0) /\ T = Teams(r, k)
        OBVIOUS
      <4>2. v \in Int /\ w \in Int /\ IsFiniteSet(T) /\ t \in T /\ h[t] = v
            /\ \A u \in T \ {t} : h[u] = w
        BY <1>1, <2>2, <3>1, <4>1 DEF Points
      <4>3. SumFunctionOnSet(h, T) = v + w * (Cardinality(T) - 1)
        BY <4>2, SumButOne
      <4> QED BY <4>1, <4>3
    <3>3. SumFunction(h) = -Points(all)
      BY <1>1, <3>2 DEF SumFunction, Points
    <3> QED BY <3>3
  <2>4. CASE "shooter-subtracts" \notin r.moonShot
    <3>1. h[t] = Points(0) /\ \A u \in Teams(r, k) \ {t} : h[u] = Points(all)
      BY <1>3, <2>1, <2>2, <2>4 DEF PenaltyPoints
    <3>2. SumFunctionOnSet(h, Teams(r, k)) = Points(0) + Points(all) * (Cardinality(Teams(r, k)) - 1)
      <4>1. PICK v, w, T : v = Points(0) /\ w = Points(all) /\ T = Teams(r, k)
        OBVIOUS
      <4>2. v \in Int /\ w \in Int /\ IsFiniteSet(T) /\ t \in T /\ h[t] = v
            /\ \A u \in T \ {t} : h[u] = w
        BY <1>1, <2>2, <3>1, <4>1 DEF Points
      <4>3. SumFunctionOnSet(h, T) = v + w * (Cardinality(T) - 1)
        BY <4>2, SumButOne
      <4> QED BY <4>1, <4>3
    <3>3. \A a, b \in Int : Points(0) + Points(a) * b = Points(a * b)
      BY DEF Points
    <3>4. SumFunction(h) = Points(all * (Cardinality(Teams(r, k)) - 1))
      BY <1>1, <3>2, <3>3 DEF SumFunction
    <3> QED BY <3>4
  <2> QED BY <2>3, <2>4
<1> QED BY <1>2, <1>3

\* Scoring does not change what the hand is worth.
LEMMA SameWorth ==
  ASSUME NEW r, NEW k, NEW p, NEW q, Tallied(p, q)
  PROVE  /\ \A f, t : f.kind # "bid-multiplier" => HandDelta(r, k, f, q, t) = HandDelta(r, k, f, p, t)
         /\ \A t : ContractOutcome(r, k, q, t) = ContractOutcome(r, k, p, t)
<1>1. q.won = p.won /\ q.bid = p.bid /\ q.points = p.points /\ q.declarer = p.declarer
  BY DEF Tallied
<1>2. \A t : Made(r, q, t) = Made(r, p, t)
  BY <1>1 DEF Made
<1>3. \A s : SeatBid(q, s) = SeatBid(p, s)
  BY <1>1 DEF SeatBid
<1>4. \A t : TeamBid(r, q, t) = TeamBid(r, p, t)
  <2>1. \A t : NilBidders(r, q, t) = NilBidders(r, p, t)
    BY <1>1 DEF NilBidders
  <2>2. \A t : Contractors(r, q, t) = Contractors(r, p, t)
    BY <1>1, <2>1 DEF Contractors
  <2> QED BY <1>1, <2>2 DEF TeamBid
<1>5. DeclarerBid(r, q) = DeclarerBid(r, p) /\ DeclarerTeam(r, k, q) = DeclarerTeam(r, k, p)
  BY <1>1 DEF DeclarerBid, DeclarerTeam
<1>6. Captured(r, k, q) = Captured(r, k, p)
  <2>1. [t \in Teams(r, k) |-> Made(r, q, t)] = [t \in Teams(r, k) |-> Made(r, p, t)]
    BY <1>2
  <2> QED BY <2>1 DEF Captured
<1>7. MoonShooters(r, k, q) = MoonShooters(r, k, p)
  BY <1>2, <1>6 DEF MoonShooters
<1>8. ASSUME NEW f, NEW t, f.kind # "bid-multiplier"
      PROVE  HandDelta(r, k, f, q, t) = HandDelta(r, k, f, p, t)
  <2>1. BidPlusFraction(f, q, t) = BidPlusFraction(f, p, t)
    <3>1. [s \in t |-> IF q.won[s] >= SeatBid(q, s)
              THEN Points(SeatBid(q, s)) + (q.won[s] - SeatBid(q, s)) * OvertrickValue(f)
              ELSE -Points(SeatBid(q, s))]
          = [s \in t |-> IF p.won[s] >= SeatBid(p, s)
              THEN Points(SeatBid(p, s)) + (p.won[s] - SeatBid(p, s)) * OvertrickValue(f)
              ELSE -Points(SeatBid(p, s))]
      BY <1>1, <1>3
    <3> QED BY <3>1 DEF BidPlusFraction
  <2>2. ExactBid(f, q, t) = ExactBid(f, p, t)
    <3>1. [s \in t |->
              Points(IF q.won[s] = SeatBid(q, s) THEN f.base + f.perTrick * q.won[s]
                     ELSE f.missPerTrick * AbsDiff(q.won[s], SeatBid(q, s)))]
          = [s \in t |->
              Points(IF p.won[s] = SeatBid(p, s) THEN f.base + f.perTrick * p.won[s]
                     ELSE f.missPerTrick * AbsDiff(p.won[s], SeatBid(p, s)))]
      BY <1>1, <1>3
    <3> QED BY <3>1 DEF ExactBid
  <2>3. BidDifference(q, t) = BidDifference(p, t)
    <3>1. [s \in t |-> Points(q.won[s] - SeatBid(q, s))] = [s \in t |-> Points(p.won[s] - SeatBid(p, s))]
      BY <1>1, <1>3
    <3> QED BY <3>1 DEF BidDifference
  <2>4. DeclarerContract(r, k, f, q, t) = DeclarerContract(r, k, f, p, t)
    BY <1>2, <1>5 DEF DeclarerContract
  <2>5. PenaltyPoints(r, k, q, t) = PenaltyPoints(r, k, p, t)
    BY <1>2, <1>6, <1>7 DEF PenaltyPoints
  <2>6. Made(r, q, t) = Made(r, p, t)
    BY <1>2
  <2> QED BY <1>8, <2>1, <2>2, <2>3, <2>4, <2>5, <2>6 DEF HandDelta
<1>9. ASSUME NEW t PROVE ContractOutcome(r, k, q, t) = ContractOutcome(r, k, p, t)
  <2>1. TeamBid(r, q, t) = TeamBid(r, p, t)
    BY <1>4
  <2>2. {Made(r, q, t) = b : b \in TeamBid(r, q, t)} = {Made(r, p, t) = b : b \in TeamBid(r, p, t)}
    BY <1>2, <2>1
  <2>3. {Made(r, q, t) >= b : b \in TeamBid(r, q, t)} = {Made(r, p, t) >= b : b \in TeamBid(r, p, t)}
    BY <1>2, <2>1
  <2>4. (Made(r, q, DeclarerTeam(r, k, q)) >= DeclarerBid(r, q))
        = (Made(r, p, DeclarerTeam(r, k, p)) >= DeclarerBid(r, p))
    BY <1>2, <1>5
  <2>5. {(t = DeclarerTeam(r, k, q)) = (Made(r, q, DeclarerTeam(r, k, q)) >= DeclarerBid(r, q))}
        = {(t = DeclarerTeam(r, k, p)) = (Made(r, p, DeclarerTeam(r, k, p)) >= DeclarerBid(r, p))}
    BY <1>5, <2>4, Zenon
  <2>6. (q.declarer = {} \/ q.bid[OrElse(q.declarer, 0)] = NoBid)
        = (p.declarer = {} \/ p.bid[OrElse(p.declarer, 0)] = NoBid)
    BY <1>1
  <2>7. PICK a1, a2 : a1 = {Made(r, p, t) = b : b \in TeamBid(r, p, t)}
                      /\ a2 = {Made(r, p, t) >= b : b \in TeamBid(r, p, t)}
    OBVIOUS
  <2>8. PICK a3 : a3 = {(t = DeclarerTeam(r, k, p)) = (Made(r, p, DeclarerTeam(r, k, p)) >= DeclarerBid(r, p))}
    OBVIOUS
  <2>9. ContractOutcome(r, k, p, t)
        = CASE ~HasContract(ScoringFormula(r)) -> {}
            [] OrElse({x.kind : x \in ScoringFormula(r)}, "none") = "declarer-contract" ->
                 IF p.declarer = {} \/ p.bid[OrElse(p.declarer, 0)] = NoBid THEN {} ELSE a3
            [] OrElse({x.kind : x \in ScoringFormula(r)}, "none") = "exact-bid" -> a1
            [] OTHER -> a2
    BY <2>7, <2>8, Zenon DEF ContractOutcome
  <2>10. ContractOutcome(r, k, q, t)
        = CASE ~HasContract(ScoringFormula(r)) -> {}
            [] OrElse({x.kind : x \in ScoringFormula(r)}, "none") = "declarer-contract" ->
                 IF p.declarer = {} \/ p.bid[OrElse(p.declarer, 0)] = NoBid THEN {} ELSE a3
            [] OrElse({x.kind : x \in ScoringFormula(r)}, "none") = "exact-bid" -> a1
            [] OTHER -> a2
    BY <1>1, <2>2, <2>3, <2>5, <2>7, <2>8, Zenon DEF ContractOutcome
  <2> QED BY <2>9, <2>10
<1> QED BY <1>8, <1>9

\* What the result says of the hand that was scored.
Reported(r, k, p) ==
  \A x \in p.lastResult :
    /\ DOMAIN x.delta = Teams(r, k)
    /\ \A f \in ScoringFormula(r) : f.kind # "bid-multiplier" =>
         \A t \in Teams(r, k) : x.delta[t] = HandDelta(r, k, f, p, t)
    /\ \A t \in Teams(r, k) : x.contract[t] = ContractOutcome(r, k, p, t)
    /\ \A b \in r.bags : \A t \in Teams(r, k) : p.bags[t] \in 0..(b.per - 1)

\* Only a multiple of the bid goes with bags.
LEMMA NoBagsElsewhere ==
  ASSUME NEW r \in RuleSets, NEW f \in ScoringFormula(r), f.kind # "bid-multiplier"
  PROVE  r.bags = {}
BY RulesHold DEF ValidScoring, ScoringFormula

\* buildResult: the result says what the formula pays and who made a contract.
LEMMA ScoreReported ==
  ASSUME NEW r, NEW k, Table(r, k), NEW p, Typed(r, k, p), Declared(k, p), Totals(r, k, p),
         NEW x, NEW short, NEW q, Tallied(p, q), q.bags = BagsLeft(r, p),
         q.lastResult = {Result(r, k, p, NewScores(r, k, p), short, x)}
  PROVE  Reported(r, k, q)
<1>1. PICK y : y = Result(r, k, p, NewScores(r, k, p), short, x)
  OBVIOUS
<1>2. /\ y.delta = [t \in Teams(r, k) |-> NewScores(r, k, p)[t] - p.scores[t]]
      /\ y.contract = [t \in Teams(r, k) |-> ContractOutcome(r, k, p, t)]
  BY <1>1 DEF Result, HandGains
<1>3. ASSUME NEW f \in ScoringFormula(r), f.kind # "bid-multiplier", NEW t \in Teams(r, k)
      PROVE  y.delta[t] = HandDelta(r, k, f, q, t)
  <2>1. r.bags = {} /\ BagPenalty(r, p, t) = 0
    <3>1. r.bags = {}
      BY <1>3, NoBagsElsewhere DEF Table
    <3> QED BY <3>1, BagsHold
  <2>2. PICK h : h = [e \in ScoringFormula(r) |-> HandDelta(r, k, e, p, t)]
    OBVIOUS
  <2>3. ScoringFormula(r) = {f}
    BY FormulaHolds DEF AtMostOne, Table
  <2>4. HandDelta(r, k, f, p, t) \in Int /\ p.scores[t] \in Int
    BY DeltaHolds DEF Totals
  <2>5. SumFunction(h) = h[f]
    <3>1. Ints(h, {} \cup {f})
      <4>1. {} \cup {f} = {f} /\ IsFiniteSet({f})
        BY FS_Singleton
      <4>2. h[f] = HandDelta(r, k, f, p, t)
        BY <2>2, <2>3
      <4>3. PICK d : d = HandDelta(r, k, f, p, t) /\ d \in Int
        BY <2>4
      <4> QED BY <4>1, <4>2, <4>3 DEF Ints
    <3>2. SumFunctionOnSet(h, {} \cup {f}) = SumFunctionOnSet(h, {}) + h[f]
      BY <3>1, SumAdd
    <3>3. {} \cup {f} = {f} /\ DOMAIN h = {f} /\ h[f] \in Int
      BY <2>2, <2>3, <2>4
    <3> QED BY <3>2, <3>3, SumEmpty DEF SumFunction
  <2>6. NewScores(r, k, p)[t] = p.scores[t] + SumFunction(h) - Points(BagPenalty(r, p, t))
    BY <2>2 DEF NewScores
  <2>7. y.delta[t] = HandDelta(r, k, f, p, t)
    <3>1. h[f] = HandDelta(r, k, f, p, t)
      BY <2>2, <2>3
    <3>2. PICK d : d = HandDelta(r, k, f, p, t) /\ d \in Int
      BY <2>4
    <3>3. NewScores(r, k, p)[t] = p.scores[t] + d
      BY <2>1, <2>4, <2>5, <2>6, <3>1, <3>2 DEF Points
    <3>4. y.delta[t] = NewScores(r, k, p)[t] - p.scores[t]
      BY <1>2
    <3> QED BY <2>4, <3>2, <3>3, <3>4
  <2> QED BY <1>3, <2>7, SameWorth
<1>4. \A t \in Teams(r, k) : y.contract[t] = ContractOutcome(r, k, q, t)
  BY <1>2, SameWorth
<1>5. \A b \in r.bags : \A t \in Teams(r, k) : q.bags[t] \in 0..(b.per - 1)
  BY BagsHold
<1>6. DOMAIN y.delta = Teams(r, k)
  BY <1>2
<1> QED BY <1>1, <1>3, <1>4, <1>5, <1>6 DEF Reported

\* No move touches the result of the last hand.
LEMMA MoveKeepsResult ==
  ASSUME NEW r, NEW k, NEW p, NEW q, MoveEffect(r, k, p, q)
  PROVE  q.lastResult = p.lastResult
<1>1. \A mid, c : Discards(r, k, mid, c, q) => q.lastResult = mid.lastResult
  BY DEF Discards, PlayOn, PlayLast, Laid
<1>2. \A mid : Turned(p, mid) => mid.lastResult = p.lastResult
  BY DEF Turned
<1>3. \A s : Named(r, k, p, s, q) => q.lastResult = p.lastResult
  BY DEF Named, Undealt
<1> QED BY <1>1, <1>2, <1>3 DEF MoveEffect

\* The inductive invariant of the scores.
Accounted == Balanced /\ Progressing /\ Reported(rules, n, g)

\* The match starts without a result.
LEMMA InitAccounted == Init => Accounted
<1> SUFFICES ASSUME Init PROVE Reported(rules, n, g)
  BY InitBalanced, InitProgressing DEF Accounted
<1>1. g.lastResult = {}
  BY Starts DEF NewHand
<1> QED BY <1>1 DEF Reported

\* Every step keeps the result true to the hand it scored.
LEMMA StepAccounted == Accounted /\ [Next]_vars => Accounted'
<1> SUFFICES ASSUME Accounted, [Next]_vars PROVE Accounted'
  OBVIOUS
<1>1. Balanced /\ Progressing /\ Playing /\ Reported(rules, n, g)
  BY DEF Accounted, Balanced
<1>2. Balanced' /\ Progressing'
  BY <1>1, StepBalanced, StepProgressing
<1>3. CASE UNCHANGED vars
  BY <1>1, <1>2, <1>3 DEF Accounted, vars
<1>4. CASE Next
  <2>1. rules' = rules /\ n' = n
    BY <1>1, <1>4, Steps
  <2>2. PICK q : q = g'
    OBVIOUS
  <2> SUFFICES Reported(rules, n, q)
    BY <1>2, <2>1, <2>2 DEF Accounted
  <2>3. g.phase # "SCORING" => g.lastResult = {}
    BY <1>1 DEF Playing, Ready, Course
  <2>4. CASE BidStep
    <3>1. q.lastResult = {}
      BY <2>2, <2>3, <2>4 DEF BidStep, BidEffect, Undealt
    <3> QED BY <3>1 DEF Reported
  <2>5. CASE MoveEffect(rules, n, g, g')
    <3>1. MoveEffect(rules, n, g, q) /\ g.lastResult = {}
      BY <2>2, <2>3, <2>5 DEF MoveEffect
    <3>3. q.lastResult = g.lastResult
      BY <3>1, MoveKeepsResult
    <3> QED BY <3>1, <3>3 DEF Reported
  <2>6. CASE ScoreStep
    <3>1. /\ Table(rules, n) /\ Typed(rules, n, g) /\ Declared(n, g) /\ Totals(rules, n, g)
      BY <1>1 DEF Playing, Ready, Progressing, Settled, Bids, Declared
    <3>2. PICK short :
            /\ Tallied(g, q) /\ q.bags = BagsLeft(rules, g)
            /\ q.lastResult = {Result(rules, n, g, NewScores(rules, n, g), short, override)}
      BY <2>2, <2>6 DEF ScoreStep
    <3> QED BY <3>1, <3>2, ScoreReported
  <2>7. CASE DealStep
    <3>1. q.lastResult = {}
      BY <2>2, <2>7 DEF DealStep, NewHand
    <3> QED BY <3>1 DEF Reported
  <2> QED BY <1>1, <1>4, <2>4, <2>5, <2>6, <2>7, Steps
<1> QED BY <1>3, <1>4

\* A result is always true to the hand it scored.
LEMMA AlwaysAccounted == Spec => []Accounted
BY InitAccounted, StepAccounted, PTL DEF Spec

\* Two sides: the declarer's and the other.
LEMMA TwoSides ==
  ASSUME NEW T, IsFiniteSet(T), Cardinality(T) = 2, NEW t \in T
  PROVE  \E u \in T : u # t /\ T = {t, u}
<1>1. IsFiniteSet(T \ {t}) /\ Cardinality(T \ {t}) = 1
  BY FS_RemoveElement
<1>2. PICK u : T \ {t} = {u}
  BY <1>1, FS_Singleton
<1> QED BY <1>2

\* A sum of two.
LEMMA SumOfTwo ==
  ASSUME NEW h, NEW t, NEW u, t # u, h[t] \in Int, h[u] \in Int, DOMAIN h = {t, u}
  PROVE  SumFunction(h) = h[t] + h[u]
<1>1. IsFiniteSet({t, u})
  <2>1. IsFiniteSet({t}) /\ {t, u} = {t} \cup {u}
    BY FS_Singleton
  <2> QED BY <2>1, FS_AddElement
<1>2. SumFunctionOnSet(h, {t, u}) = h[t] + SumFunctionOnSet(h, {t, u} \ {t})
  BY <1>1, SumAny DEF Ints
<1>3. {t, u} \ {t} = {} \cup {u} /\ u \notin {}
  OBVIOUS
<1>4. Ints(h, {} \cup {u})
  <2>1. {} \cup {u} = {u} /\ IsFiniteSet({u})
    BY FS_Singleton
  <2> QED BY <2>1 DEF Ints
<1>5. SumFunctionOnSet(h, {} \cup {u}) = 0 + h[u]
  BY <1>3, <1>4, SumAdd, SumEmpty
<1>6. SumFunctionOnSet(h, {t, u}) = h[t] + h[u]
  <2>1. SumFunctionOnSet(h, {t, u} \ {t}) = h[u]
    BY <1>3, <1>5
  <2> QED BY <1>2, <2>1
<1> QED BY <1>6 DEF SumFunction

\* The declarer did bid.
Bidden(p) == p.bid[OrElse(p.declarer, 0)] >= 0

\* What a declarer's contract is about.
Contracted(r, k, p) ==
  /\ p.declarer # {} /\ OrElse(p.declarer, 0) \in Seats(k) /\ DeclarerBid(r, p) \in Int
  /\ Bidden(p) => p.bid[OrElse(p.declarer, 0)] # NoBid /\ DeclarerBid(r, p) >= 0

\* A declarer's contract has a declarer and a stake, and its bid is a number if
\* the declarer did bid.
LEMMA DeclarerStands ==
  ASSUME NEW r, NEW k, Table(r, k), NEW p, Typed(r, k, p), Bids(r, k, p), p.phase # "BIDDING",
         NEW f \in ScoringFormula(r), f.kind = "declarer-contract"
  PROVE  /\ Contracted(r, k, p)
         /\ \A x \in f.stake : x \in Int /\ x >= 0
         /\ f.mirror \in BOOLEAN
<1>1. /\ NamesTrump(r) /\ \A x \in f.stake : x >= 0
  BY RulesHold DEF Playable, Table
<1>2. FormulaTyped(f)
  BY FormulaHolds DEF Table
<1>3. PICK s \in Seats(k) : p.declarer = {s}
  BY <1>1 DEF Bids
<1>4. OrElse(p.declarer, 0) = s /\ p.declarer # {}
  BY <1>3 DEF OrElse
<1>5. DeclarerBid(r, p) \in Int
  BY DeclarerHolds DEF Bids, Declared
<1>6. ASSUME Bidden(p) PROVE p.bid[s] # NoBid /\ DeclarerBid(r, p) >= 0
  <2>1. p.bid[s] >= 0 /\ p.bid[s] # NoBid
    BY <1>4, <1>6 DEF Bidden, NoBid
  <2> QED BY <1>4, <2>1 DEF DeclarerBid
<1>7. Contracted(r, k, p)
  BY <1>3, <1>4, <1>5, <1>6 DEF Contracted
<1>8. f.stake \subseteq Int /\ f.mirror \in BOOLEAN
  BY <1>2 DEF FormulaTyped
<1> QED BY <1>1, <1>7, <1>8

\* The declaring side's contract, and who is paid what for it.
LEMMA ContractPays ==
  ASSUME NEW r, NEW k, Table(r, k), NEW p, Typed(r, k, p), Bids(r, k, p), p.phase # "BIDDING",
         NEW f \in ScoringFormula(r), f.kind = "declarer-contract"
  PROVE  \E D \in Teams(r, k), v \in Int, b \in BOOLEAN :
           /\ Bidden(p) =>
                v >= 0 /\ \A t \in Teams(r, k) : ContractOutcome(r, k, p, t) = {(t = D) = b}
           /\ \A t \in Teams(r, k) :
                HandDelta(r, k, f, p, t)
                = IF t = D THEN IF b THEN v ELSE -v
                  ELSE IF f.mirror THEN IF b THEN -v ELSE v ELSE 0
<1>1. Contracted(r, k, p) /\ (\A x \in f.stake : x \in Int /\ x >= 0) /\ f.mirror \in BOOLEAN
  BY DeclarerStands
<1>2. PICK D : D = DeclarerTeam(r, k, p)
  OBVIOUS
<1>3. D \in Teams(r, k)
  BY <1>1, <1>2, TeamsHold DEF DeclarerTeam, Contracted
<1>4. PICK z : z = OrElse(f.stake, DeclarerBid(r, p))
  OBVIOUS
<1>5. z \in Int /\ (Bidden(p) => z >= 0)
  <2>1. z = DeclarerBid(r, p) \/ z \in f.stake
    BY <1>4, OptionHolds
  <2> QED BY <1>1, <2>1 DEF Contracted
<1>6. PICK v : v = Points(z)
  OBVIOUS
<1>7. v \in Int /\ (Bidden(p) => v >= 0)
  BY <1>5, <1>6 DEF Points
<1>0. PICK m \in Int, c \in Int : m = Made(r, p, D) /\ c = DeclarerBid(r, p)
  BY <1>1, <1>3, MadeHolds DEF Contracted
<1>8. PICK b \in BOOLEAN : b = (m >= c)
  <2>1. CASE m >= c
    <3>1. TRUE = (m >= c)
      BY <2>1
    <3> QED BY <3>1, Zenon
  <2>2. CASE ~(m >= c)
    <3>1. FALSE = (m >= c)
      BY <2>2
    <3> QED BY <3>1, Zenon
  <2> QED BY <2>1, <2>2
<1>9. ASSUME Bidden(p), NEW t \in Teams(r, k)
      PROVE  ContractOutcome(r, k, p, t) = {(t = D) = b}
  <2>1. ScoringFormula(r) = {f}
    BY FormulaHolds DEF AtMostOne, Table
  <2>2. HasContract(ScoringFormula(r))
    BY DEF HasContract, ContractKinds
  <2>3. OrElse({x.kind : x \in ScoringFormula(r)}, "none") = "declarer-contract"
    BY <2>1 DEF OrElse
  <2>4. ~(p.declarer = {} \/ p.bid[OrElse(p.declarer, 0)] = NoBid)
    BY <1>1, <1>9 DEF Contracted
  <2>5. PICK a : a = {(t = D) = b}
    OBVIOUS
  <2>6. a = {(t = DeclarerTeam(r, k, p)) = (Made(r, p, DeclarerTeam(r, k, p)) >= DeclarerBid(r, p))}
    BY <1>0, <1>2, <1>8, <2>5, Zenon
  <2>7. ContractOutcome(r, k, p, t) = a
    BY <2>2, <2>3, <2>4, <2>6 DEF ContractOutcome
  <2> QED BY <2>5, <2>7
<1>10. ASSUME NEW t \in Teams(r, k)
       PROVE  HandDelta(r, k, f, p, t)
              = IF t = D THEN IF b THEN v ELSE -v
                ELSE IF f.mirror THEN IF b THEN -v ELSE v ELSE 0
  <2>1. HandDelta(r, k, f, p, t) = DeclarerContract(r, k, f, p, t)
    BY DEF HandDelta
  <2>2. b = (Made(r, p, DeclarerTeam(r, k, p)) >= DeclarerBid(r, p))
    BY <1>0, <1>2, <1>8, Zenon
  <2>4. DeclarerContract(r, k, f, p, t)
        = CASE t = D -> IF b THEN v ELSE -v
            [] t # D /\ f.mirror -> IF b THEN -v ELSE v
            [] OTHER -> 0
    BY <1>2, <1>4, <1>6, <2>2, Zenon DEF DeclarerContract
  <2> QED BY <1>1, <2>1, <2>4
<1> QED BY <1>3, <1>7, <1>9, <1>10

\* What a result says of each side: what it was paid, whether it made it.
Pays(r, k, p, f, h) ==
  DOMAIN h = Teams(r, k) /\ \A t \in Teams(r, k) : h[t] = HandDelta(r, k, f, p, t)

Tells(r, k, p, o) == \A t \in Teams(r, k) : o[t] = ContractOutcome(r, k, p, t)

OneMadeIt(r, k, h, o) ==
  /\ \E t \in Teams(r, k) : o[t] = {TRUE}
  /\ \E t \in Teams(r, k) : o[t] = {FALSE}
  /\ \A t \in Teams(r, k) : o[t] = {TRUE} => h[t] >= 0

ContractKept(r, k, p, f, h, o) ==
  /\ f.mirror => SumFunction(h) = 0
  /\ Bidden(p) => OneMadeIt(r, k, h, o)

\* The first clause of ScoresAddUp: a mirrored contract is zero-sum, and one that
\* was bid has been made by one of two sides, not at a loss.
LEMMA ContractSum ==
  ASSUME NEW r, NEW k, Table(r, k), NEW p, Typed(r, k, p), Bids(r, k, p), p.phase # "BIDDING",
         NEW f \in ScoringFormula(r), f.kind = "declarer-contract",
         Cardinality(Teams(r, k)) = 2,
         NEW h, Pays(r, k, p, f, h), NEW o, Tells(r, k, p, o)
  PROVE  ContractKept(r, k, p, f, h, o)
<1>1. PICK D \in Teams(r, k), v \in Int, b \in BOOLEAN :
           /\ Bidden(p) =>
                v >= 0 /\ \A t \in Teams(r, k) : ContractOutcome(r, k, p, t) = {(t = D) = b}
           /\ \A t \in Teams(r, k) :
                HandDelta(r, k, f, p, t)
                = IF t = D THEN IF b THEN v ELSE -v
                  ELSE IF f.mirror THEN IF b THEN -v ELSE v ELSE 0
  BY ContractPays
<1>2. PICK u \in Teams(r, k) : u # D /\ Teams(r, k) = {D, u}
  BY TeamsHold, TwoSides
<1>3. /\ h[D] = IF b THEN v ELSE -v
      /\ h[u] = IF f.mirror THEN IF b THEN -v ELSE v ELSE 0
  BY <1>1, <1>2 DEF Pays
<1>7. f.mirror => SumFunction(h) = 0
  <2>1. h[D] \in Int /\ h[u] \in Int
    BY <1>1, <1>3
  <2>2. SumFunction(h) = h[D] + h[u]
    BY <1>2, <2>1, SumOfTwo DEF Pays
  <2> QED BY <1>1, <1>3, <2>2
<1> SUFFICES ASSUME Bidden(p) PROVE OneMadeIt(r, k, h, o)
  BY <1>7 DEF ContractKept
<1>4. o[D] = {b} /\ o[u] = {~b}
  <2>1. o[D] = {(D = D) = b} /\ o[u] = {(u = D) = b}
    BY <1>1, <1>2 DEF Tells
  <2>2. ((D = D) = b) = b /\ ((u = D) = b) = ~b
    BY <1>1, <1>2
  <2> QED BY <2>1, <2>2, Zenon
<1>8. CASE b
  <2>1. o[D] = {TRUE} /\ o[u] = {FALSE}
    <3>1. b = TRUE
      BY <1>1, <1>8
    <3> QED BY <1>4, <3>1
  <2>2. o[u] # {TRUE} /\ h[D] >= 0
    BY <1>1, <1>3, <1>8, <2>1
  <2> QED BY <1>2, <2>1, <2>2 DEF OneMadeIt
<1>9. CASE ~b
  <2>1. o[D] = {FALSE} /\ o[u] = {TRUE}
    <3>1. b = FALSE
      BY <1>1, <1>9
    <3> QED BY <1>4, <3>1
  <2>2. o[D] # {TRUE}
    BY <2>1
  <2>3. h[u] = v \/ h[u] = 0
    BY <1>3, <1>9
  <2>4. h[u] >= 0
    BY <1>1, <2>3
  <2> QED BY <1>2, <2>1, <2>2, <2>4 DEF OneMadeIt
<1> QED BY <1>8, <1>9

\* The fourth: where the bids may not add up to the tricks, a contract fails.
LEMMA HookFails ==
  ASSUME NEW r, NEW k, Table(r, k), NEW p, Ready(r, k, p), Counts(r, k, p), Bids(r, k, p),
         p.phase = "SCORING",
         NEW f \in ScoringFormula(r), f.kind = "exact-bid", r.basis # "points", r.nil = {},
         NEW b \in r.bidding, b.forbidExactTotal, ~b.namesTrump,
         HasChoice(b, HandSize(r, k, p.number)), \A s \in Seats(k) : p.bid[s] # Pass,
         NEW o, Tells(r, k, p, o)
  PROVE  \E t \in Teams(r, k) : o[t] = {FALSE}
<1> SUFFICES ASSUME \A t \in Teams(r, k) : o[t] # {FALSE} PROVE FALSE
  OBVIOUS
<1>1. Typed(r, k, p) /\ Len(p.completedTricks) = HandSize(r, k, p.number)
  BY DEF Ready, Course
<1>2. ~NamesTrump(r)
  BY RulesHold DEF Table, WellTyped, AtMostOne, NamesTrump
<1>3. \A s \in Seats(k) : p.bid[s] \in Int /\ p.bid[s] >= 0
  BY <1>1, <1>2 DEF Bids, Typed
<1>4. ASSUME NEW t \in Teams(r, k)
      PROVE  SumFunctionOnSet(p.won, t) = SumFunctionOnSet(p.bid, t)
  <2>1. t \subseteq Seats(k)
    BY TeamsHold
  <2>2. CASE t = {}
    BY <2>2, SumEmpty
  <2>3. CASE t # {}
    <3>1. Contractors(r, p, t) = t
      BY <1>3, <2>1 DEF Contractors, NilBidders
    <3>2. TeamBid(r, p, t) = {SumFunctionOnSet(p.bid, t)}
      BY <2>3, <3>1 DEF TeamBid
    <3>3. Made(r, p, t) = SumFunctionOnSet(p.won, t)
      BY DEF Made
    <3>4. ContractOutcome(r, k, p, t) = {Made(r, p, t) = c : c \in TeamBid(r, p, t)}
      <4>1. ScoringFormula(r) = {f}
        BY FormulaHolds DEF AtMostOne, Table
      <4>2. HasContract(ScoringFormula(r))
        BY DEF HasContract, ContractKinds
      <4>3. OrElse({x.kind : x \in ScoringFormula(r)}, "none") = "exact-bid"
        BY <4>1 DEF OrElse
      <4>4. PICK a : a = {Made(r, p, t) = c : c \in TeamBid(r, p, t)}
        OBVIOUS
      <4>5. ContractOutcome(r, k, p, t) = a
        BY <4>2, <4>3, <4>4 DEF ContractOutcome
      <4> QED BY <4>4, <4>5
    <3>5. PICK won, bid : won = SumFunctionOnSet(p.won, t) /\ bid = SumFunctionOnSet(p.bid, t)
      OBVIOUS
    <3>6. o[t] = {won = bid}
      BY <3>2, <3>3, <3>4, <3>5 DEF Tells
    <3>7. CASE won # bid
      <4>1. (won = bid) = FALSE
        BY <3>7
      <4>2. o[t] = {FALSE}
        BY <3>6, <4>1, Zenon
      <4> QED BY <4>2
    <3> QED BY <3>5, <3>7
  <2> QED BY <2>2, <2>3
<1>5. PICK h : h = [t \in Teams(r, k) |-> SumFunctionOnSet(p.won, t)]
  OBVIOUS
<1>6. SumFunction(h) = SumFunctionOnSet(p.won, Seats(k))
  <2>1. \A s \in Seats(k) : p.won[s] \in Int
    BY <1>1 DEF Typed
  <2> QED BY <1>5, <2>1, SidesSum
<1>7. SumFunction(h) = SumFunctionOnSet(p.bid, Seats(k))
  BY <1>3, <1>4, <1>5, SidesSum
<1>8. SumFunctionOnSet(p.bid, Seats(k)) = HandSize(r, k, p.number)
  BY <1>1, <1>6, <1>7, EveryTrickWon
<1>9. PICK q : q = [s \in Seats(k) |-> IF p.bid[s] > 0 THEN p.bid[s] ELSE 0]
  OBVIOUS
<1>10. SumFunctionOnSet(q, Seats(k)) = SumFunctionOnSet(p.bid, Seats(k))
  <2>1. Ints(p.bid, Seats(k))
    BY <1>3, SeatsHold DEF Ints
  <2>2. \A s \in Seats(k) : q[s] = p.bid[s]
    BY <1>3, <1>9
  <2> QED BY <2>1, <2>2, SumSame
<1>11. SumFunction(q) # HandSize(r, k, p.number)
  BY <1>9 DEF Bids
<1> QED BY <1>8, <1>9, <1>10, <1>11 DEF SumFunction

\* The clauses of ScoresAddUp, for one result under one formula.
AddsUp(r, k, p, x, f) ==
  LET sum  == SumFunction(x.delta)
      all  == Captured(r, k, p)
      size == HandSize(r, k, p.number)
  IN  /\ f.kind = "declarer-contract" /\ Cardinality(Teams(r, k)) = 2 =>
           /\ f.mirror => sum = 0
           /\ p.bid[OrElse(p.declarer, 0)] >= 0 =>
                /\ \E t \in Teams(r, k) : x.contract[t] = {TRUE}
                /\ \E t \in Teams(r, k) : x.contract[t] = {FALSE}
                /\ \A t \in Teams(r, k) : x.contract[t] = {TRUE} => x.delta[t] >= 0
      /\ f.kind = "bid-difference" =>
           sum = Points(size - SumFunction([s \in Seats(k) |-> SeatBid(p, s)]))
      /\ f.kind = "penalty-points" =>
           sum \in {Points(all), -Points(all), Points(all * (Cardinality(Teams(r, k)) - 1))}
      /\ /\ f.kind = "exact-bid" /\ r.basis # "points" /\ r.nil = {}
         /\ \A s \in Seats(k) : p.bid[s] # Pass
         /\ \E b \in r.bidding : b.forbidExactTotal /\ ~b.namesTrump /\ HasChoice(b, size)
         => \E t \in Teams(r, k) : x.contract[t] = {FALSE}
      /\ \A b \in r.bags : \A t \in Teams(r, k) : p.bags[t] \in 0..(b.per - 1)

\* Each clause of ScoresAddUp holds of a hand that has been scored.
LEMMA ScoredHandsHold ==
  ASSUME NEW r, NEW k, Table(r, k), NEW p, Ready(r, k, p), Counts(r, k, p), Bids(r, k, p),
         Reported(r, k, p), NEW x \in p.lastResult, NEW f \in ScoringFormula(r)
  PROVE  AddsUp(r, k, p, x, f)
<1>1. Typed(r, k, p) /\ p.phase = "SCORING" /\ p.phase # "BIDDING"
      /\ Len(p.completedTricks) = HandSize(r, k, p.number)
  BY DEF Ready, Course
<1>2. PICK h, o : h = x.delta /\ o = x.contract
  OBVIOUS
<1>3. Tells(r, k, p, o) /\ (f.kind # "bid-multiplier" => Pays(r, k, p, f, h))
  BY <1>2 DEF Reported, Tells, Pays
<1>4. ASSUME f.kind = "declarer-contract", Cardinality(Teams(r, k)) = 2
      PROVE  ContractKept(r, k, p, f, h, o)
  BY <1>1, <1>3, <1>4, ContractSum
<1>5. ASSUME f.kind = "bid-difference"
      PROVE  SumFunction(h) = Points(HandSize(r, k, p.number)
                                       - SumFunction([s \in Seats(k) |-> SeatBid(p, s)]))
  <2>1. \A t \in Teams(r, k) : h[t] = BidDifference(p, t)
    BY <1>3, <1>5 DEF HandDelta, Pays
  <2>2. SumFunction(h) = Points(Len(p.completedTricks)
                                       - SumFunction([s \in Seats(k) |-> SeatBid(p, s)]))
    BY <1>3, <1>5, <2>1, DifferenceSum DEF Pays
  <2> QED BY <1>1, <2>2
<1>6. ASSUME f.kind = "penalty-points"
      PROVE  SumFunction(h) \in
               {Points(Captured(r, k, p)), -Points(Captured(r, k, p)),
                Points(Captured(r, k, p) * (Cardinality(Teams(r, k)) - 1))}
  <2>1. \A t \in Teams(r, k) : h[t] = PenaltyPoints(r, k, p, t)
    BY <1>3, <1>6 DEF HandDelta, Pays
  <2> QED BY <1>3, <1>6, <2>1, PenaltySum DEF Pays
<1>7. ASSUME f.kind = "exact-bid", r.basis # "points", r.nil = {},
             \A s \in Seats(k) : p.bid[s] # Pass, NEW b \in r.bidding, b.forbidExactTotal, ~b.namesTrump,
             HasChoice(b, HandSize(r, k, p.number))
      PROVE  \E t \in Teams(r, k) : o[t] = {FALSE}
  BY <1>1, <1>3, <1>7, HookFails
<1>8. \A b \in r.bags : \A t \in Teams(r, k) : p.bags[t] \in 0..(b.per - 1)
  BY DEF Reported
<1> QED BY <1>2, <1>4, <1>5, <1>6, <1>7, <1>8, Zenon DEF AddsUp, ContractKept, OneMadeIt, Bidden

\* A result true to its hand adds up.
LEMMA ScoresHoldUp == Accounted => ScoresAddUp
<1> SUFFICES ASSUME Accounted PROVE ScoresAddUp
  OBVIOUS
<1>1. \A x \in g.lastResult : \A f \in ScoringFormula(rules) : AddsUp(rules, n, g, x, f)
  BY ScoredHandsHold DEF Accounted, Balanced, Progressing, Playing, Books, Settled
<1> QED BY <1>1, Zenon DEF AddsUp, ScoresAddUp, NobodyPassed

\* Scoring neither loses nor invents points, whoever declares and whether or not
\* anybody bid (handDeltas, computeScores, buildResult, and the exact-total hook of
\* the bidding).
THEOREM ScoresBalance == Spec => []ScoresAddUp
BY AlwaysAccounted, ScoresHoldUp, PTL

-----------------------------------------------------------------------------
(* What a view tells.                                                      *)

\* Two cards of a set change places.
Exchanged(A, c, d) == {IF x = c THEN d ELSE IF x = d THEN c ELSE x : x \in A}

\* Which keeps its size.
LEMMA ExchangeHolds ==
  ASSUME NEW A, NEW c, NEW d, IsFiniteSet(A)
  PROVE  Cardinality(Exchanged(A, c, d)) = Cardinality(A)
<1> DEFINE B == Exchanged(A, c, d)
           f == [x \in A |-> IF x = c THEN d ELSE IF x = d THEN c ELSE x]
<1>1. f \in [A -> B]
  BY DEF Exchanged
<1>2. \A x, y \in A : f[x] = f[y] => x = y
  OBVIOUS
<1>3. \A y \in B : \E x \in A : f[x] = y
  BY DEF Exchanged
<1> HIDE DEF f, B
<1>4. f \in Bijection(A, B)
  BY <1>1, <1>2, <1>3 DEF Bijection, Injection, Surjection, IsInjective
<1>5. ExistsBijection(A, B)
  BY <1>4 DEF ExistsBijection
<1>6. Cardinality(B) = Cardinality(A)
  BY <1>5, FS_Bijection
<1> QED BY <1>6 DEF B

\* And what it has in common with another.
LEMMA ExchangeMeets ==
  ASSUME NEW A, NEW B, NEW c, NEW d
  PROVE  Exchanged(A, c, d) \cap Exchanged(B, c, d) = Exchanged(A \cap B, c, d)
<1>1. \A x \in A, y \in B :
        (IF x = c THEN d ELSE IF x = d THEN c ELSE x)
          = (IF y = c THEN d ELSE IF y = d THEN c ELSE y) => x = y
  OBVIOUS
<1>2. ASSUME NEW z \in Exchanged(A, c, d), z \in Exchanged(B, c, d)
      PROVE  z \in Exchanged(A \cap B, c, d)
  <2>1. PICK x \in A : z = IF x = c THEN d ELSE IF x = d THEN c ELSE x
    BY DEF Exchanged
  <2>2. PICK y \in B : z = IF y = c THEN d ELSE IF y = d THEN c ELSE y
    BY <1>2 DEF Exchanged
  <2>3. x = y
    BY <1>1, <2>1, <2>2
  <2> QED BY <2>1, <2>3 DEF Exchanged
<1>3. ASSUME NEW z \in Exchanged(A \cap B, c, d)
      PROVE  z \in Exchanged(A, c, d) /\ z \in Exchanged(B, c, d)
  BY DEF Exchanged
<1> QED BY <1>2, <1>3

\* A set with neither of them stays as it is.
LEMMA ExchangeElsewhere ==
  ASSUME NEW A, NEW c, NEW d, c \notin A, d \notin A
  PROVE  Exchanged(A, c, d) = A
BY DEF Exchanged

\* What a view copies is the same in p and q.
CopiedSame(p, q) ==
  /\ q.phase = p.phase /\ q.dealer = p.dealer /\ q.turn = p.turn
  /\ q.declarer = p.declarer /\ q.revealed = p.revealed
  /\ q.won = p.won /\ q.bid = p.bid
  /\ q.trick = p.trick /\ q.lead = p.lead /\ q.completedTricks = p.completedTricks
  /\ q.scores = p.scores /\ q.points = p.points /\ q.bags = p.bags
  /\ q.number = p.number /\ q.lastResult = p.lastResult
  /\ q.pendingTrumpReveal = p.pendingTrumpReveal /\ q.broken = p.broken

\* What is masked looks the same to v.
MaskedSame(r, k, p, q, v) ==
  /\ MaskedTrump(q, v) = MaskedTrump(p, v)
  /\ \A s \in Seats(k) : MaskedHand(r, q, s, v) = MaskedHand(r, p, s, v)
  /\ Cardinality(q.kitty) = Cardinality(p.kitty)
  /\ v = p.turn => LegalMoves(r, q) = LegalMoves(r, p)

\* A view is what is copied and what is masked.
LEMMA ViewSame ==
  ASSUME NEW r, NEW k, NEW p, NEW q, NEW v, CopiedSame(p, q), MaskedSame(r, k, p, q, v)
  PROVE  View(r, k, q, v) = View(r, k, p, v)
<1>1. ViewerWon(r, k, q, v) = ViewerWon(r, k, p, v)
  BY DEF CopiedSame, ViewerWon
<1>2. [s \in Seats(k) |-> MaskedHand(r, q, s, v)] = [s \in Seats(k) |-> MaskedHand(r, p, s, v)]
  BY DEF MaskedSame
<1>3. (IF v = q.turn THEN LegalMoves(r, q) ELSE {}) = (IF v = p.turn THEN LegalMoves(r, p) ELSE {})
  BY DEF MaskedSame, CopiedSame
<1> QED BY <1>1, <1>2, <1>3 DEF View, MaskedSame, CopiedSame

\* Whoever holds the same cards in the same position is offered the same moves.
LEMMA SameMoves ==
  ASSUME NEW r, NEW p, NEW q, CopiedSame(p, q), q.trump = p.trump,
         p.phase = "PLAYING" => q.hands[p.turn] = p.hands[p.turn]
  PROVE  LegalMoves(r, q) = LegalMoves(r, p)
<1>1. TrumpMoves(r, q) = TrumpMoves(r, p)
  BY DEF CopiedSame, TrumpMoves
<1>2. ASSUME p.phase = "PLAYING"
      PROVE  PlayingMoves(r, q) = PlayingMoves(r, p)
  <2>1. q.hands[q.turn] = p.hands[p.turn]
    BY <1>2 DEF CopiedSame
  <2>2. VisibleTrump(q) = VisibleTrump(p)
    BY DEF CopiedSame, VisibleTrump
  <2>3. OwesTrump(r, q) = OwesTrump(r, p)
    BY DEF CopiedSame, OwesTrump
  <2>4. \A t, b : Options(r, q, t, b) = Options(r, p, t, b)
    BY <2>1 DEF CopiedSame, Options
  <2>5. MayReveal(r, q) = MayReveal(r, p)
    BY <2>3 DEF CopiedSame, MayReveal
  <2>6. \A x : Holds(q, x) = Holds(p, x)
    BY <2>1 DEF CopiedSame, Holds
  <2>7. \A x : Fires(r, q, x) = Fires(r, p, x)
    BY <2>6 DEF CopiedSame, Fires
  <2>8. \A x : CompoundMoves(r, q, x) = CompoundMoves(r, p, x)
    BY <2>4 DEF CompoundMoves
  <2> QED BY <2>2, <2>3, <2>4, <2>5, <2>7, <2>8 DEF PlayingMoves
<1> QED BY <1>1, <1>2 DEF LegalMoves, CopiedSame

\* Two cards that v does not see change places.
LEMMA CardsHidden ==
  ASSUME NEW r, NEW k, Table(r, k), NEW p, Typed(r, k, p),
         NEW v \in Seats(k) \cup {Spectator},
         NEW c \in Hidden(r, p, k, v), NEW d \in Hidden(r, p, k, v)
  PROVE  View(r, k, Swapped(p, k, c, d), v) = View(r, k, p, v)
<1> DEFINE q == Swapped(p, k, c, d)
<1>1. /\ CopiedSame(p, q) /\ q.trump = p.trump
      /\ q.hands = [s \in Seats(k) |-> Exchanged(p.hands[s], c, d)]
      /\ q.front = [s \in Seats(k) |-> Exchanged(p.front[s], c, d)]
      /\ q.kitty = Exchanged(p.kitty, c, d)
  BY DEF Typed, Shape, Fields, Swapped, Exchanged, CopiedSame
<1> HIDE DEF q
<1>2. \A s \in Seats(k) : IsFiniteSet(p.hands[s])
  <2>1. IsFiniteSet(Deck(r))
    BY DeckHolds DEF Table
  <2>2. \A s \in Seats(k) : p.hands[s] \in SUBSET Deck(r)
    BY DEF Typed
  <2> QED BY <2>1, <2>2, FS_Subset
<1>3. Cardinality(q.kitty) = Cardinality(p.kitty)
  <2>1. IsFiniteSet(p.kitty)
    BY DeckHolds, FS_Subset DEF Table, Typed
  <2> QED BY <1>1, <2>1, ExchangeHolds
<1>4. \A s \in Seats(k) : Shown(r, q, s) = Exchanged(Shown(r, p, s), c, d)
  <2>1. TAKE s \in Seats(k)
  <2>2. /\ q.hands[s] = Exchanged(p.hands[s], c, d) /\ q.front[s] = Exchanged(p.front[s], c, d)
        /\ q.phase = p.phase
    BY <1>1 DEF CopiedSame
  <2>3. q.hands[s] \cap q.front[s] = Exchanged(p.hands[s] \cap p.front[s], c, d)
    BY <2>2, ExchangeMeets
  <2> QED BY <2>2, <2>3 DEF Shown
<1>5. \A s \in Seats(k) : Cardinality(Shown(r, q, s)) = Cardinality(Shown(r, p, s))
  <2>1. TAKE s \in Seats(k)
  <2>2. IsFiniteSet(Shown(r, p, s))
    <3>1. Shown(r, p, s) \in SUBSET p.hands[s]
      BY DEF Shown
    <3> QED BY <1>2, <3>1, FS_Subset
  <2> QED BY <1>4, <2>2, ExchangeHolds
<1>6. v \in Seats(k) => Shown(r, q, v) = Shown(r, p, v)
  <2>1. SUFFICES ASSUME v \in Seats(k) PROVE Shown(r, q, v) = Shown(r, p, v)
    OBVIOUS
  <2>2. v # Spectator
    BY <2>1, SeatsHold DEF Spectator
  <2>3. c \notin Shown(r, p, v) /\ d \notin Shown(r, p, v)
    BY <2>2 DEF Hidden
  <2> QED BY <1>4, <2>1, <2>3, ExchangeElsewhere
<1>7. \A s \in Seats(k) : MaskedHand(r, q, s, v) = MaskedHand(r, p, s, v)
  BY <1>5, <1>6 DEF MaskedHand
<1>8. MaskedTrump(q, v) = MaskedTrump(p, v)
  BY <1>1 DEF MaskedTrump, CopiedSame
<1>9. v = p.turn => LegalMoves(r, q) = LegalMoves(r, p)
  <2>1. SUFFICES ASSUME v = p.turn PROVE LegalMoves(r, q) = LegalMoves(r, p)
    OBVIOUS
  <2>2. v \in Seats(k)
    BY <2>1 DEF Typed
  <2>3. p.phase = "PLAYING" => q.hands[v] = p.hands[v]
    BY <1>1, <1>6, <2>2 DEF Shown, StagedSize, CopiedSame
  <2> QED BY <1>1, <2>1, <2>3, SameMoves
<1>10. MaskedSame(r, k, p, q, v)
  BY <1>3, <1>7, <1>8, <1>9 DEF MaskedSame
<1> QED BY <1>1, <1>10, ViewSame DEF q

\* Trump is another suit than the one v is not told.
LEMMA TrumpHidden ==
  ASSUME NEW r, NEW k, Table(r, k), FusedForDeclarer(r), NEW p, Typed(r, k, p),
         NEW v \in Seats(k) \cup {Spectator}, MaskedTrump(p, v) # p.trump, NEW t
  PROVE  View(r, k, [p EXCEPT !.trump = {t}], v) = View(r, k, p, v)
<1> DEFINE q == [p EXCEPT !.trump = {t}]
<1>1. /\ CopiedSame(p, q) /\ q.trump = {t}
      /\ q.hands = p.hands /\ q.front = p.front /\ q.kitty = p.kitty
  BY DEF Typed, Shape, Fields, CopiedSame
<1> HIDE DEF q
<1>2. p.trump # {} /\ ~p.revealed /\ p.declarer # {v}
  BY DEF MaskedTrump
<1>3. MaskedTrump(q, v) = MaskedTrump(p, v)
  BY <1>1, <1>2 DEF MaskedTrump, CopiedSame
<1>4. \A s \in Seats(k) : MaskedHand(r, q, s, v) = MaskedHand(r, p, s, v)
  BY <1>1 DEF MaskedHand, Shown, CopiedSame
<1>5. v = p.turn => LegalMoves(r, q) = LegalMoves(r, p)
  <2>1. SUFFICES ASSUME v = p.turn PROVE LegalMoves(r, q) = LegalMoves(r, p)
    OBVIOUS
  <2>2. p.declarer # {p.turn} /\ q.turn = p.turn /\ q.declarer = p.declarer
    BY <1>1, <1>2, <2>1 DEF CopiedSame
  <2>3. TrumpMoves(r, q) = TrumpMoves(r, p)
    BY <2>2 DEF TrumpMoves
  <2>4. VisibleTrump(q) = VisibleTrump(p)
    BY <1>1, <1>2 DEF CopiedSame, VisibleTrump
  <2>5. OwesTrump(r, q) = OwesTrump(r, p)
    BY <1>1 DEF CopiedSame, OwesTrump
  <2>6. \A s, b : Options(r, q, s, b) = Options(r, p, s, b)
    BY <1>1 DEF CopiedSame, Options
  <2>7. MayReveal(r, q) = MayReveal(r, p)
    BY <1>1, <1>2, <2>5 DEF CopiedSame, MayReveal
  <2>8. \A x : Holds(q, x) = Holds(p, x)
    BY <1>1 DEF CopiedSame, Holds
  <2>9. \A x : Fires(r, q, x) = Fires(r, p, x)
    BY <1>1, <2>8 DEF CopiedSame, Fires
  <2>10. ASSUME NEW x \in r.compoundActions, Fires(r, p, x)
         PROVE  CompoundMoves(r, q, x) = CompoundMoves(r, p, x)
    <3>1. CASE ~x.atomic
      BY <3>1 DEF CompoundMoves
    <3>2. CASE x.atomic
      <4>1. ~r.mustTrumpIfVoid
        <5>1. "player-is-declarer" \notin x.conditions
          BY <2>2, <2>10 DEF Fires, Holds
        <5> QED BY <3>2, <5>1 DEF FusedForDeclarer
      <4>2. Options(r, p, q.trump, FALSE) = Options(r, p, p.trump, FALSE)
        BY <4>1 DEF Options, FollowOptions
      <4>3. Options(r, q, q.trump, FALSE) = Options(r, p, p.trump, FALSE)
        BY <2>6, <4>2
      <4> QED BY <4>3 DEF CompoundMoves
    <3> QED BY <3>1, <3>2
  <2>11. PlayingMoves(r, q) = PlayingMoves(r, p)
    <3>1. {x \in r.compoundActions : Fires(r, q, x)} = {x \in r.compoundActions : Fires(r, p, x)}
      BY <2>9
    <3>2. UNION {CompoundMoves(r, q, x) : x \in {y \in r.compoundActions : Fires(r, q, y)}}
          = UNION {CompoundMoves(r, p, x) : x \in {y \in r.compoundActions : Fires(r, p, y)}}
      BY <2>10, <3>1
    <3>3. {<<Play(c)>> : c \in Options(r, q, VisibleTrump(q), OwesTrump(r, q))}
          = {<<Play(c)>> : c \in Options(r, p, VisibleTrump(p), OwesTrump(r, p))}
      BY <2>4, <2>5, <2>6
    <3> QED BY <2>7, <3>2, <3>3 DEF PlayingMoves
  <2> QED BY <1>1, <2>3, <2>11 DEF LegalMoves, CopiedSame
<1>6. MaskedSame(r, k, p, q, v)
  BY <1>1, <1>3, <1>4, <1>5 DEF MaskedSame
<1> QED BY <1>1, <1>6, ViewSame DEF q

\* All that a viewer is not told comes down to these two changes.
LEMMA PlayingHides ==
  ASSUME \A r \in RuleSets : FusedForDeclarer(r)
  PROVE  Playing => FogHidesTheRest
<1>1. SUFFICES ASSUME Playing, NEW v \in Seats(n) \cup {Spectator},
                      NEW h \in LikePositions(rules, n, g, v)
               PROVE  View(rules, n, h, v) = View(rules, n, g, v)
  BY DEF FogHidesTheRest
<1>2. Table(rules, n) /\ Typed(rules, n, g) /\ FusedForDeclarer(rules)
  BY <1>1 DEF Playing, Ready, Table
<1>3. CASE \E c, d \in Hidden(rules, g, n, v) : h = Swapped(g, n, c, d)
  BY <1>2, <1>3, CardsHidden
<1>4. CASE MaskedTrump(g, v) # g.trump /\ \E t \in Suits(rules) : h = [g EXCEPT !.trump = {t}]
  BY <1>2, <1>4, TrumpHidden
<1> QED BY <1>1, <1>3, <1>4 DEF LikePositions

\* What maskGameState sends tells no viewer of a card it does not see, nor of a
\* trump not revealed to it, where a reveal fused with a trump that is owed
\* (generateCompoundMoves) is the declarer's alone.
THEOREM ViewsTellNothing ==
  ASSUME \A r \in RuleSets : FusedForDeclarer(r)
  PROVE  Spec => []FogHidesTheRest
BY PlayingHides, AlwaysPlaying, PTL

=============================================================================
