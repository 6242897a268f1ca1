---------------------------- MODULE RateLimiter ----------------------------
(***************************************************************************)
(* One key of the token buckets of core/ratelimit/rate-limiter.ts: the     *)
(* bucket in Redis all nodes share, and the one each node keeps in memory  *)
(* for the calls on which Redis fails.                                     *)
(*                                                                         *)
(* A tick is the time in which a bucket gains one unit; a call costs       *)
(* TokenTicks units.  The nodes' clocks agree.                             *)
(***************************************************************************)
EXTENDS Integers

CONSTANTS
  Keepers,      \* whoever keeps a bucket: Redis and the nodes
  Redis,
  Capacity,     \* tokens a full bucket holds
  TokenTicks,   \* ticks to gain one token
  SweepTicks    \* idle time after which a node forgets a bucket (300 s)

\* Any rule: one that refills within the idle time, and one like
\* PASSWORD_RESET_RULE, which takes 900 s.
ASSUME LimiterAssumption ==
  /\ Redis \in Keepers
  /\ Capacity \in Nat \ {0} /\ TokenTicks \in Nat \ {0}
  /\ SweepTicks \in Nat

VARIABLES
  bucket,   \* per keeper: units at the last call, and ticks since then
  ideal     \* history: what is left of each budget, counted on its own, with Gift

limits == <<bucket, ideal>>

Full == Capacity * TokenTicks

AtMost(limit, x) == IF x < limit THEN x ELSE limit

\* No bucket; it stands for a full one.
NoBucket == [units |-> Full, idle |-> 0, kept |-> FALSE]

Refilled(b) == AtMost(Full, b.units + b.idle)

\* Redis drops a key a second after it must be full.
KeepTicks(k) == IF k = Redis THEN Full + 1 ELSE SweepTicks

\* What a keeper gives away when it forgets a bucket that would still have had
\* to refill: nothing for Redis, or for a node and a rule that refills in time.
Gift(k) == IF KeepTicks(k) < Full THEN Full - (KeepTicks(k) + 1) ELSE 0

\* Mutant of Refused: a refusal does not move the time of the last update.
RefusedAgain(b) == [b EXCEPT !.units = Refilled(b), !.kept = TRUE]

Refused(b) == [units |-> Refilled(b), idle |-> 0, kept |-> TRUE]

\* consume, by Redis or, where that throws, by the node's own bucket.
Consume(k) ==
  \/ /\ Refilled(bucket[k]) >= TokenTicks
     /\ bucket' = [bucket EXCEPT ![k] = [units |-> Refilled(@) - TokenTicks,
                                         idle |-> 0, kept |-> TRUE]]
     /\ ideal' = [ideal EXCEPT ![k] = @ - TokenTicks]
  \/ /\ Refilled(bucket[k]) < TokenTicks
     /\ bucket' = [bucket EXCEPT ![k] = Refused(@)]
     /\ UNCHANGED ideal

\* A successful login forgets the node's bucket, and Redis's if it can.
Reset(n) ==
  /\ n # Redis
  /\ \E ks \in {{n}, {n, Redis}} :
       /\ bucket' = [k \in Keepers |-> IF k \in ks THEN NoBucket ELSE bucket[k]]
       /\ ideal' = [k \in Keepers |-> IF k \in ks THEN Full ELSE ideal[k]]

\* Idle buckets: a node sweeps its own once a minute, Redis expires the key.
Sweep(k) ==
  /\ bucket[k].kept /\ bucket[k].idle > KeepTicks(k)
  /\ bucket' = [bucket EXCEPT ![k] = NoBucket]
  /\ ideal' = [ideal EXCEPT ![k] = AtMost(Full, @ + Gift(k))]

\* The count of idle ticks stops where it makes no difference any more: past
\* the time to be forgotten and the time to be full.
LimiterTick ==
  /\ bucket' = [k \in Keepers |->
       IF bucket[k].kept
       THEN [bucket[k] EXCEPT !.idle = AtMost(KeepTicks(k) + Full + 1, @ + 1)]
       ELSE bucket[k]]
  /\ ideal' = [k \in Keepers |-> AtMost(Full, ideal[k] + 1)]

LimiterInit ==
  /\ bucket = [k \in Keepers |-> NoBucket]
  /\ ideal = [k \in Keepers |-> Full]

LimiterNext ==
  \/ LimiterTick
  \/ \E k \in Keepers : Consume(k) \/ Reset(k) \/ Sweep(k)
-----------------------------------------------------------------------------
\* No keeper ever admits more than its capacity, what has trickled in since,
\* and Gift for each time it forgot an idle bucket: refusals, calls that reach
\* Redis or miss it, and resets add nothing else to the budget, and Redis adds
\* nothing at all.  (consume, CONSUME_LUA, sweep)
WithinBudget == \A k \in Keepers : ideal[k] >= 0
=============================================================================
