----------------------------- MODULE MCServices -----------------------------
(* What the HTTP routes and the model providers serve, each on its own small *)
(* instance: two requests at a time on an account that signs in twice        *)
(* (signing in and out; changing the password); one author at work on a      *)
(* design from two places; two users of the catalogue; one key of the        *)
(* limiter; two callers of the model.  Only the part chosen at the start     *)
(* moves.                                                                    *)
EXTENDS AuthSessions, DesignSessions, RateLimiter, ModelCalls

CONSTANTS n1, n2, u1, u2, r1, r2, g1, g2, s1, t1, t2, k1

VARIABLE part

accounts == authVars
catalogue == vars

MCInit ==
  /\ AuthInit /\ Init /\ LimiterInit /\ CallInit
  /\ part \in {"sessions", "passwords", "design", "catalogue", "limits", "model"}
  /\ part # "passwords" => ~weak
  /\ part # "model" => provider = "none"

First == [sessions |-> {"logout all", "login"}, passwords |-> {"change", "forgot", "reset", "login"}]
Second == [sessions |-> {"me", "logout", "login"}, passwords |-> {"me"}]

AccountStep ==
  \/ \E r \in AuthRequests : Work(r)
  \/ Arrival(r1) /\ auth'[r1].op \in First[part]
  \/ Arrival(r2) /\ auth'[r2].op \in Second[part]
  \/ Tick

\* The author works through one node; beside one request of the designer there
\* is at most one more, an edit, a publication, or a deletion.
Beside == {"edit", "publish", "discard", "delete"}

DesignStep ==
  \E r \in Requests :
    \/ /\ DesignArrival(r) \/ (ChangeArrives(r) /\ UNCHANGED <<session, drafts>>)
       /\ req'[r].node = n1 /\ req'[r].user = u1
       /\ IF r = r1 THEN req'[r].op \notin {"update", "delete"} ELSE req'[r].op \in Beside
    \/ CatalogWork(r) /\ UNCHANGED <<session, drafts>>
    \/ DesignWork(r)

CatalogueStep ==
  \E r \in Requests : (CatalogArrival(r) \/ CatalogWork(r)) /\ UNCHANGED <<session, drafts>>

MCNext ==
  /\ \/ part \in {"sessions", "passwords"} /\ AccountStep /\ UNCHANGED <<catalogue, limits, calls>>
     \/ part = "design" /\ DesignStep /\ UNCHANGED <<accounts, limits, calls>>
     \/ part = "catalogue" /\ CatalogueStep /\ UNCHANGED <<accounts, limits, calls>>
     \/ part = "limits" /\ LimiterNext /\ UNCHANGED <<accounts, catalogue, calls>>
     \/ part = "model" /\ CallNext /\ UNCHANGED <<accounts, catalogue, limits>>
  /\ UNCHANGED part

MCSpec == MCInit /\ [][MCNext]_<<accounts, catalogue, limits, calls, part>> /\ AuthFairness
=============================================================================
