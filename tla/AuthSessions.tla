---------------------------- MODULE AuthSessions ----------------------------
(***************************************************************************)
(* The sessions of one account: core/auth/auth-service.ts over the user    *)
(* repository and the session cache, as http/auth-routes.ts calls it.      *)
(*                                                                         *)
(* Requests run beside each other and every await ends a step.  A password *)
(* is a number: 0 is the one the account began with, a change sets a new   *)
(* one.  Time passes in ticks of the cache's shortest lifetime; a session  *)
(* may be due for renewal whenever it is looked up, and does not expire    *)
(* by itself (30 days).  Calls to the cache may fail; the database's do    *)
(* not.                                                                    *)
(***************************************************************************)
EXTENDS Naturals, FiniteSets

CONSTANTS
  AuthRequests, \* requests in flight at a time
  Tokens,       \* session tokens; each is issued once
  Links,        \* reset links; each is issued once
  NoToken,
  GoodTicks,    \* lifetime of a cached user (60 s)
  BadTicks,     \* lifetime of a cached refusal (10 s)
  MaxPasswords  \* bound: password changes

ASSUME AuthAssumption ==
  /\ NoToken \notin Tokens \cup Links
  /\ GoodTicks \in Nat \ {0} /\ BadTicks \in Nat \ {0} /\ MaxPasswords \in Nat

VARIABLES
  row,       \* the session rows: not issued yet, live or deleted
  cache,     \* per token: what is cached, and for how many ticks
  link,      \* the reset links: not issued yet, live or deleted
  password,  \* what the stored hash verifies
  weak,      \* the hash was written under a weaker cost
  auth,      \* the requests in flight
  doomed     \* history: sessions that were there when a revocation that has
             \* been answered began

store == <<row, link, password, weak>>
authVars == <<store, cache, auth, doomed>>

Uncached == [user |-> "none", ticks |-> 0]
Cached(user) == [user |-> user, ticks |-> IF user = "good" THEN GoodTicks ELSE BadTicks]

\* What a request is doing, the step it is at, the token or link it presents,
\* the password it was sent, whether it keeps the caller's own session, what
\* its lookup found, the sessions it listed and those there when it began.
NoAuthRequest == [op |-> "none", at |-> "none", token |-> NoToken, link |-> NoToken,
                  pass |-> 0, keep |-> FALSE, user |-> "none", listed |-> {}, before |-> {}]

Live == {t \in Tokens : row[t] = "live"}
Issued == {t \in Tokens : row[t] # "new"}

Begin(r, new) ==
  /\ auth[r] = NoAuthRequest
  /\ auth' = [auth EXCEPT ![r] = new]
  /\ UNCHANGED <<store, cache, doomed>>

GotoStep(r, at) == auth' = [auth EXCEPT ![r].at = at]
Reply(r) == auth' = [auth EXCEPT ![r] = NoAuthRequest]

AtStep(r, at) == auth[r].at = at
Op(r, ops) == auth[r].op \in ops
-----------------------------------------------------------------------------
(* Requests arrive.                                                        *)

Present(r, t, op, keep, pass, before) ==
  Begin(r, [NoAuthRequest EXCEPT !.op = op, !.at = "get", !.token = t, !.keep = keep,
                             !.pass = pass, !.before = before])

\* /me, a socket's AUTHENTICATE, /sessions, /logout-all and /change-password,
\* all of which validate the token first, and /logout, which does not.
TokenArrives(r) ==
  \E t \in Issued :
    \/ Present(r, t, "me", FALSE, 0, {})
    \/ \E keep \in BOOLEAN : Present(r, t, "logout all", keep, 0, Live)
    \/ password < MaxPasswords /\ Present(r, t, "change", TRUE, password, Live)
    \/ Begin(r, [NoAuthRequest EXCEPT !.op = "logout", !.at = "evict", !.token = t])

LoginArrives(r) ==
  \E p \in 0..password :
    Begin(r, [NoAuthRequest EXCEPT !.op = "login", !.at = "verify", !.pass = p])

ForgotArrives(r) ==
  Begin(r, [NoAuthRequest EXCEPT !.op = "forgot", !.at = "clear links"])

ResetArrives(r) ==
  /\ password < MaxPasswords
  /\ \E k \in Links : link[k] # "new" /\
       Begin(r, [NoAuthRequest EXCEPT !.op = "reset", !.at = "find link", !.link = k,
                                  !.pass = password, !.before = Live])
-----------------------------------------------------------------------------
(* validateToken.                                                          *)

\* A request whose token was accepted goes on to what it is for.
Accepted(r) ==
  \/ Op(r, {"logout all"}) /\ auth' = [auth EXCEPT ![r].at = "list", ![r].user = "none"]
  \/ Op(r, {"change"}) /\ auth' = [auth EXCEPT ![r].at = "verify", ![r].user = "none"]
  \/ Op(r, {"me"}) /\ Reply(r)

\* Mutant of AfterHit: a hit extends the entry.
SlidingHit(t) == [cache EXCEPT ![t] = Cached(@.user)]

\* What a hit leaves in the cache.
AfterHit(t) == cache

CacheGet(r) ==
  LET t == auth[r].token IN
  /\ AtStep(r, "get")
  /\ \/ cache[t].user = "good" /\ Accepted(r) /\ cache' = AfterHit(t)
     \/ cache[t].user = "bad" /\ Reply(r) /\ cache' = AfterHit(t)
     \/ GotoStep(r, "find") /\ UNCHANGED cache  \* a miss; an error counts as one
  /\ UNCHANGED <<store, doomed>>

\* The row is there or not; a session near its expiry is renewed.
FindSession(r) ==
  LET t == auth[r].token IN
  /\ AtStep(r, "find")
  /\ \/ /\ row[t] = "live"
        /\ \E next \in {"renew", "set"} :
             auth' = [auth EXCEPT ![r].user = "good", ![r].at = next]
     \/ /\ row[t] # "live"
        /\ auth' = [auth EXCEPT ![r].user = "bad", ![r].at = "set"]
  /\ UNCHANGED <<store, cache, doomed>>

\* Mutant of Renewed: renewal writes the session it has in hand.
RenewedUpsert(t) == [row EXCEPT ![t] = "live"]

\* renewSession changes the row if there is one.
Renewed(t) == row

RenewSession(r) ==
  LET t == auth[r].token IN
  /\ AtStep(r, "renew")
  /\ row' = Renewed(t)
  /\ GotoStep(r, "set")
  /\ UNCHANGED <<link, password, weak, cache, doomed>>

CacheSet(r) ==
  LET t == auth[r].token IN
  /\ AtStep(r, "set")
  /\ \/ cache' = [cache EXCEPT ![t] = Cached(auth[r].user)]
     \/ UNCHANGED cache
  /\ IF auth[r].user = "good" THEN Accepted(r) ELSE Reply(r)
  /\ UNCHANGED <<store, doomed>>
-----------------------------------------------------------------------------
(* logout, and the revocation of an account's sessions.                    *)

\* The cache answers, or it is down.
Evicted(ts) ==
  \/ cache' = [t \in Tokens |-> IF t \in ts THEN Uncached ELSE cache[t]]
  \/ UNCHANGED cache

\* Evicts before and after it deletes.
Logout(r) ==
  LET t == auth[r].token IN
  /\ Op(r, {"logout"})
  /\ \/ AtStep(r, "evict") /\ GotoStep(r, "delete") /\ Evicted({t}) /\ UNCHANGED row
     \/ AtStep(r, "delete") /\ GotoStep(r, "evict again") /\ UNCHANGED cache
        /\ row' = [row EXCEPT ![t] = "deleted"]
     \/ AtStep(r, "evict again") /\ Reply(r) /\ Evicted({t}) /\ UNCHANGED row
  /\ UNCHANGED <<link, password, weak, doomed>>

ListSessions(r) ==
  /\ AtStep(r, "list")
  /\ auth' = [auth EXCEPT ![r].at = "delete all", ![r].listed = Live]
  /\ UNCHANGED <<store, cache, doomed>>

Kept(r) == IF auth[r].keep THEN {auth[r].token} ELSE {}

DeleteSessions(r) ==
  /\ AtStep(r, "delete all")
  /\ row' = [t \in Tokens |-> IF t \in Live \ Kept(r) THEN "deleted" ELSE row[t]]
  /\ GotoStep(r, "evict all")
  /\ UNCHANGED <<link, password, weak, cache, doomed>>

EvictSessions(r) ==
  /\ AtStep(r, "evict all")
  /\ Evicted(auth[r].listed \ Kept(r))
  /\ doomed' = doomed \cup (auth[r].before \ Kept(r))
  /\ IF Op(r, {"reset"}) THEN GotoStep(r, "issue") ELSE Reply(r)
  /\ UNCHANGED store
-----------------------------------------------------------------------------
(* Passwords.                                                              *)

\* login and changePassword read the stored hash and verify what they were
\* sent; both then hash, the login only to replace a weak hash.
Verify(r) ==
  /\ AtStep(r, "verify")
  /\ \/ auth[r].pass # password /\ Reply(r)
     \/ /\ auth[r].pass = password
        /\ \/ Op(r, {"change"}) /\ GotoStep(r, "update")
           \/ Op(r, {"login"}) /\ GotoStep(r, IF weak THEN "rehash" ELSE "issue")
  /\ UNCHANGED <<store, cache, doomed>>

\* The rehash of a login stores the password that was verified.
Rehash(r) ==
  /\ AtStep(r, "rehash")
  /\ \/ password' = auth[r].pass /\ weak' = FALSE
     \/ UNCHANGED <<password, weak>>
  /\ GotoStep(r, "issue")
  /\ UNCHANGED <<row, link, cache, doomed>>

FindLink(r) ==
  /\ AtStep(r, "find link")
  /\ IF link[auth[r].link] = "live" THEN GotoStep(r, "update") ELSE Reply(r)
  /\ UNCHANGED <<store, cache, doomed>>

UpdatePassword(r) ==
  /\ AtStep(r, "update")
  /\ password' = auth[r].pass + 1 /\ weak' = FALSE
  /\ GotoStep(r, "clear links")
  /\ UNCHANGED <<row, link, cache, doomed>>

DeleteLinks(r) ==
  /\ AtStep(r, "clear links")
  /\ link' = [k \in Links |-> IF link[k] = "live" THEN "deleted" ELSE link[k]]
  /\ GotoStep(r, IF Op(r, {"forgot"}) THEN "create link" ELSE "list")
  /\ UNCHANGED <<row, password, weak, cache, doomed>>

CreateLink(r) ==
  /\ AtStep(r, "create link")
  /\ \E k \in Links : link[k] = "new" /\ link' = [link EXCEPT ![k] = "live"]
  /\ Reply(r)
  /\ UNCHANGED <<row, password, weak, cache, doomed>>

IssueSession(r) ==
  /\ AtStep(r, "issue")
  /\ \E t \in Tokens : row[t] = "new" /\ row' = [row EXCEPT ![t] = "live"]
  /\ Reply(r)
  /\ UNCHANGED <<link, password, weak, cache, doomed>>
-----------------------------------------------------------------------------
\* The cached entries that have run out are gone.
Tick ==
  /\ \E t \in Tokens : cache[t].ticks > 0
  /\ cache' = [t \in Tokens |->
       IF cache[t].ticks <= 1 THEN Uncached ELSE [cache[t] EXCEPT !.ticks = @ - 1]]
  /\ UNCHANGED <<store, auth, doomed>>

AuthInit ==
  /\ row = [t \in Tokens |-> "new"]
  /\ cache = [t \in Tokens |-> Uncached]
  /\ link = [k \in Links |-> "new"]
  /\ password = 0 /\ weak \in BOOLEAN
  /\ auth = [r \in AuthRequests |-> NoAuthRequest]
  /\ doomed = {}

Arrival(r) == TokenArrives(r) \/ LoginArrives(r) \/ ForgotArrives(r) \/ ResetArrives(r)

Work(r) ==
  \/ CacheGet(r) \/ FindSession(r) \/ RenewSession(r) \/ CacheSet(r)
  \/ Logout(r) \/ ListSessions(r) \/ DeleteSessions(r) \/ EvictSessions(r)
  \/ Verify(r) \/ Rehash(r) \/ FindLink(r) \/ UpdatePassword(r)
  \/ DeleteLinks(r) \/ CreateLink(r) \/ IssueSession(r)

AuthNext ==
  \/ \E r \in AuthRequests : Arrival(r) \/ Work(r)
  \/ Tick

\* Time passes and every request is worked on.
AuthFairness == WF_authVars(Tick) /\ \A r \in AuthRequests : WF_authVars(Work(r))

AuthSpec == AuthInit /\ [][AuthNext]_authVars /\ AuthFairness
-----------------------------------------------------------------------------
\* Once a "sign out everywhere", a password change or a reset is answered, no
\* session that was there when it began is live, but the caller's own where it
\* keeps it: no validation or renewal under way brings one back ("Every
\* existing session dies", auth-service.ts 288; 204-212, 222-242).
RevokesWhatWasThere == \A t \in doomed : row[t] = "deleted"

\* A deleted session is refused for good within a cache lifetime, though a
\* validation that read the row before may cache it after the eviction, and
\* evictions fail (logout 171-179, session-cache.ts 93-100).
RevocationTakesHold ==
  \A t \in Tokens : row[t] = "deleted" ~> [](cache[t].user # "good")
=============================================================================
