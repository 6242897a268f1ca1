------------------------- MODULE AuthSessionsProofs -------------------------
(***************************************************************************)
(* What a revocation achieves, for any number of requests under way, of    *)
(* tokens, of links and of password changes, with a cache that may fail at *)
(* any time.                                                               *)
(***************************************************************************)
EXTENDS AuthSessions, TLAPS

Status == {"new", "live", "deleted"}

Operations == {"none", "me", "logout all", "change", "logout", "login", "forgot", "reset"}

Steps ==
  {"none", "get", "find", "renew", "set", "list", "delete all", "evict all",
   "verify", "update", "rehash", "issue", "find link", "clear links",
   "create link", "evict", "delete", "evict again"}

Request ==
  [op : Operations, at : Steps, token : Tokens \cup {NoToken},
   link : Links \cup {NoToken}, pass : Nat, keep : BOOLEAN,
   user : {"none", "good", "bad"}, listed : SUBSET Tokens,
   before : SUBSET Tokens]

TypeOK ==
  /\ row \in [Tokens -> Status]
  /\ password \in Nat
  /\ auth \in [AuthRequests -> Request]
  /\ doomed \subseteq Tokens

\* A session that was there when a request began has been issued, and a request
\* that has deleted the sessions has deleted all of those but the caller's.
BeforeOK ==
  \A r \in AuthRequests :
    /\ auth[r].before \subseteq Issued
    /\ auth[r].at = "evict all" =>
         \A t \in auth[r].before \ Kept(r) : row[t] = "deleted"

IInv == TypeOK /\ BeforeOK /\ RevokesWhatWasThere
-----------------------------------------------------------------------------
\* A session is issued once and deleted for good.
RowsAdvance ==
  /\ row' \in [Tokens -> Status]
  /\ \A t \in Tokens : /\ row[t] # "new" => row'[t] # "new"
                       /\ row[t] = "deleted" => row'[t] = "deleted"

\* A request goes on, or is answered, without coming to its last eviction.
GoesOn(r) ==
  \E new \in Request :
    /\ auth' = [auth EXCEPT ![r] = new]
    /\ new.before \subseteq Issued
    /\ new.at # "evict all"

LEMMA NoRequestOK == NoAuthRequest \in Request /\ NoAuthRequest.before = {} /\ NoAuthRequest.at = "none"
BY DEF NoAuthRequest, Request, Operations, Steps

LEMMA InitOK == AuthInit => IInv
<1> SUFFICES ASSUME AuthInit PROVE IInv
  OBVIOUS
<1>1. \A r \in AuthRequests : auth[r] = NoAuthRequest
  BY DEF AuthInit
<1>2. TypeOK
  BY NoRequestOK DEF AuthInit, TypeOK, Status
<1>3. BeforeOK
  BY <1>1, NoRequestOK DEF BeforeOK
<1> QED BY <1>2, <1>3 DEF AuthInit, IInv, RevokesWhatWasThere

LEMMA BeforeAdvances ==
  ASSUME IInv, RowsAdvance, NEW r \in AuthRequests, GoesOn(r) \/ UNCHANGED auth
  PROVE  BeforeOK'
<1>1. Issued \subseteq Issued'
  BY DEF RowsAdvance, Issued
<1>2. CASE UNCHANGED auth
  BY <1>1, <1>2 DEF IInv, TypeOK, BeforeOK, RowsAdvance, Kept, Request
<1>3. ASSUME NEW new \in Request, auth' = [auth EXCEPT ![r] = new],
             new.before \subseteq Issued, new.at # "evict all",
             NEW q \in AuthRequests
      PROVE  /\ auth'[q].before \subseteq Issued'
             /\ auth'[q].at = "evict all" =>
                  \A t \in auth'[q].before \ Kept(q)' : row'[t] = "deleted"
  <2>1. CASE q = r
    BY <1>1, <1>3, <2>1 DEF IInv, TypeOK
  <2>2. CASE q # r
    <3>1. auth'[q] = auth[q] /\ Kept(q)' = Kept(q)
      BY <1>3, <2>2 DEF IInv, TypeOK, Kept
    <3>2. auth[q].before \subseteq Tokens
      BY DEF IInv, TypeOK, Request
    <3> QED BY <1>1, <3>1, <3>2 DEF IInv, BeforeOK, RowsAdvance
  <2> QED BY <2>1, <2>2
<1> QED BY <1>2, <1>3 DEF GoesOn, BeforeOK

LEMMA AdvanceOK ==
  ASSUME IInv, RowsAdvance, NEW r \in AuthRequests, GoesOn(r) \/ UNCHANGED auth,
         password' \in Nat, UNCHANGED doomed
  PROVE  IInv'
<1>1. TypeOK'
  BY DEF IInv, TypeOK, RowsAdvance, GoesOn
<1>2. BeforeOK'
  BY BeforeAdvances
<1>3. RevokesWhatWasThere'
  BY DEF IInv, TypeOK, RevokesWhatWasThere, RowsAdvance
<1> QED BY <1>1, <1>2, <1>3 DEF IInv

\* The helpers of the actions, as steps of a request.
LEMMA HelpersOK ==
  ASSUME IInv, NEW r \in AuthRequests
  PROVE  /\ Reply(r) => GoesOn(r)
         /\ \A at \in Steps \ {"evict all"} : GotoStep(r, at) => GoesOn(r)
         /\ \A new \in Request :
              Begin(r, new) /\ new.before \subseteq Issued /\ new.at # "evict all"
                => GoesOn(r) /\ UNCHANGED <<store, cache, doomed>>
         /\ Accepted(r) => GoesOn(r)
<1>1. auth[r] \in Request /\ auth[r].before \subseteq Issued
  BY DEF IInv, TypeOK, BeforeOK
<1>2. Reply(r) => GoesOn(r)
  BY NoRequestOK DEF Reply, GoesOn
<1>3. ASSUME NEW at \in Steps \ {"evict all"}, GotoStep(r, at) PROVE GoesOn(r)
  <2> DEFINE new == [auth[r] EXCEPT !.at = at]
  <2>1. new \in Request /\ new.before = auth[r].before /\ new.at = at
    BY <1>1 DEF Request, Steps
  <2>2. auth' = [auth EXCEPT ![r] = new]
    BY <1>3 DEF GotoStep
  <2> HIDE DEF new
  <2> QED BY <1>1, <2>1, <2>2 DEF GoesOn
<1>4. ASSUME NEW new \in Request, Begin(r, new), new.before \subseteq Issued,
             new.at # "evict all"
      PROVE  GoesOn(r) /\ UNCHANGED <<store, cache, doomed>>
  BY <1>4 DEF Begin, GoesOn
<1>5. ASSUME NEW at \in {"list", "verify"},
             auth' = [auth EXCEPT ![r].at = at, ![r].user = "none"]
      PROVE  GoesOn(r)
  <2> DEFINE new == [[auth[r] EXCEPT !.at = at] EXCEPT !.user = "none"]
  <2>1. new \in Request /\ new.before = auth[r].before /\ new.at = at
    BY <1>1 DEF Request, Steps
  <2>2. auth' = [auth EXCEPT ![r] = new]
    BY <1>5 DEF IInv, TypeOK
  <2> HIDE DEF new
  <2> QED BY <1>1, <2>1, <2>2 DEF GoesOn
<1>6. Accepted(r) => GoesOn(r)
  BY <1>2, <1>5 DEF Accepted, Op
<1> QED BY <1>2, <1>3, <1>4, <1>6
-----------------------------------------------------------------------------
\* Each kind of step keeps IInv; only EvictSessions adds to `doomed`.
LEMMA ArrivalOK ==
  ASSUME IInv, NEW r \in AuthRequests, Arrival(r)
  PROVE  IInv'
<1>1. password \in Nat /\ row \in [Tokens -> Status]
  BY DEF IInv, TypeOK
<1>2. /\ GoesOn(r)
      /\ UNCHANGED <<store, cache, doomed>>
  <2>1. Live \subseteq Issued /\ Live \subseteq Tokens /\ {} \subseteq Issued
    BY DEF Live, Issued
  <2>2. ASSUME NEW new \in Request, Begin(r, new), new.before \in {{}, Live},
               new.at # "evict all"
        PROVE  GoesOn(r) /\ UNCHANGED <<store, cache, doomed>>
    BY <2>1, <2>2, HelpersOK
  <2>3. CASE TokenArrives(r)
    <3>1. PICK t \in Tokens :
            \/ Present(r, t, "me", FALSE, 0, {})
            \/ \E keep \in BOOLEAN : Present(r, t, "logout all", keep, 0, Live)
            \/ Present(r, t, "change", TRUE, password, Live)
            \/ Begin(r, [NoAuthRequest EXCEPT !.op = "logout", !.at = "evict", !.token = t])
      BY <2>3 DEF TokenArrives, Issued
    <3>2. ASSUME NEW op \in Operations, NEW keep \in BOOLEAN, NEW pass \in Nat,
                 NEW before \in {{}, Live}, Present(r, t, op, keep, pass, before)
          PROVE  GoesOn(r) /\ UNCHANGED <<store, cache, doomed>>
      BY <2>1, <2>2, <3>2 DEF Present, NoAuthRequest, Request, Operations, Steps
    <3>3. CASE Begin(r, [NoAuthRequest EXCEPT !.op = "logout", !.at = "evict", !.token = t])
      BY <2>1, <2>2, <3>3 DEF NoAuthRequest, Request, Operations, Steps
    <3> QED BY <1>1, <3>1, <3>2, <3>3 DEF Operations
  <2>4. CASE LoginArrives(r)
    <3>1. PICK p \in 0..password :
            Begin(r, [NoAuthRequest EXCEPT !.op = "login", !.at = "verify", !.pass = p])
      BY <2>4 DEF LoginArrives
    <3>2. p \in Nat
      BY <1>1
    <3>3. [NoAuthRequest EXCEPT !.op = "login", !.at = "verify", !.pass = p] \in Request
      BY <3>2 DEF NoAuthRequest, Request, Operations, Steps
    <3> QED BY <2>2, <3>1, <3>3 DEF NoAuthRequest
  <2>5. CASE ForgotArrives(r)
    BY <2>1, <2>2, <2>5 DEF ForgotArrives, NoAuthRequest, Request, Operations, Steps
  <2>6. CASE ResetArrives(r)
    BY <1>1, <2>1, <2>2, <2>6
       DEF ResetArrives, NoAuthRequest, Request, Operations, Steps
  <2> QED BY <2>3, <2>4, <2>5, <2>6 DEF Arrival
<1> QED BY <1>1, <1>2, AdvanceOK DEF store, RowsAdvance

\* validateToken and logout.
LEMMA ValidationOK ==
  ASSUME IInv, NEW r \in AuthRequests,
         \/ CacheGet(r) \/ FindSession(r) \/ RenewSession(r) \/ CacheSet(r)
         \/ Logout(r)
  PROVE  IInv'
<1>1. auth[r] \in Request /\ auth[r].before \subseteq Issued
      /\ password \in Nat /\ row \in [Tokens -> Status]
  BY DEF IInv, TypeOK, BeforeOK
<1>2. UNCHANGED doomed /\ UNCHANGED password
  BY DEF CacheGet, FindSession, RenewSession, CacheSet, Logout, store
<1>3. RowsAdvance
  BY <1>1 DEF CacheGet, FindSession, RenewSession, Renewed, CacheSet, Logout,
     store, RowsAdvance, Status
<1>4. GoesOn(r)
  <2>1. ASSUME NEW user \in {"good", "bad"}, NEW at \in {"renew", "set"},
               auth' = [auth EXCEPT ![r].user = user, ![r].at = at]
        PROVE  GoesOn(r)
    <3> DEFINE new == [[auth[r] EXCEPT !.user = user] EXCEPT !.at = at]
    <3>1. new \in Request /\ new.before = auth[r].before /\ new.at = at
      BY <1>1 DEF Request, Steps
    <3>2. auth' = [auth EXCEPT ![r] = new]
      BY <2>1 DEF IInv, TypeOK
    <3> HIDE DEF new
    <3> QED BY <1>1, <3>1, <3>2 DEF GoesOn
  <2>2. CASE FindSession(r)
    BY <2>1, <2>2 DEF FindSession
  <2>3. CASE CacheGet(r)
    BY <2>3, HelpersOK DEF CacheGet, Steps
  <2>4. CASE RenewSession(r)
    BY <2>4, HelpersOK DEF RenewSession, Steps
  <2>5. CASE CacheSet(r)
    BY <2>5, HelpersOK DEF CacheSet
  <2>6. CASE Logout(r)
    BY <2>6, HelpersOK DEF Logout, Steps
  <2> QED BY <2>2, <2>3, <2>4, <2>5, <2>6
<1> QED BY <1>1, <1>2, <1>3, <1>4, AdvanceOK

\* Passwords, links, and the issue of a session.
LEMMA PasswordsOK ==
  ASSUME IInv, NEW r \in AuthRequests,
         \/ Verify(r) \/ Rehash(r) \/ FindLink(r) \/ UpdatePassword(r)
         \/ DeleteLinks(r) \/ CreateLink(r) \/ IssueSession(r)
  PROVE  IInv'
<1>1. /\ auth[r].pass \in Nat /\ password \in Nat
      /\ row \in [Tokens -> Status]
  BY DEF IInv, TypeOK, Request
<1>2. UNCHANGED doomed
  BY DEF Verify, Rehash, FindLink, UpdatePassword, DeleteLinks, CreateLink,
     IssueSession
<1>3. password' \in Nat
  <2>1. CASE UpdatePassword(r)
    <3>1. ASSUME NEW p \in Nat PROVE p + 1 \in Nat
      OBVIOUS
    <3> QED BY <1>1, <2>1, <3>1 DEF UpdatePassword
  <2>2. CASE Rehash(r)
    BY <1>1, <2>2 DEF Rehash
  <2>3. CASE UNCHANGED password
    BY <1>1, <2>3
  <2> QED
    BY <2>1, <2>2, <2>3 DEF Verify, FindLink, DeleteLinks, CreateLink,
       IssueSession, store
<1>4. RowsAdvance
  BY <1>1 DEF Verify, Rehash, FindLink, UpdatePassword, DeleteLinks,
     CreateLink, IssueSession, store, RowsAdvance, Status
<1>5. GoesOn(r)
  BY HelpersOK DEF Verify, Rehash, FindLink, UpdatePassword, DeleteLinks,
     CreateLink, IssueSession, Steps
<1> QED BY <1>2, <1>3, <1>4, <1>5, AdvanceOK

LEMMA RevocationOK ==
  ASSUME IInv, NEW r \in AuthRequests,
         ListSessions(r) \/ DeleteSessions(r) \/ EvictSessions(r)
  PROVE  IInv'
<1>1. auth[r] \in Request /\ auth[r].before \subseteq Issued
      /\ password \in Nat /\ row \in [Tokens -> Status]
  BY DEF IInv, TypeOK, BeforeOK
<1>2. CASE ListSessions(r)
  <2> DEFINE new == [[auth[r] EXCEPT !.at = "delete all"] EXCEPT !.listed = Live]
  <2>1. new \in Request /\ new.before = auth[r].before /\ new.at = "delete all"
    BY <1>1 DEF Request, Steps, Live
  <2>2. auth' = [auth EXCEPT ![r] = new]
    BY <1>2 DEF ListSessions, IInv, TypeOK
  <2> HIDE DEF new
  <2>3. GoesOn(r)
    BY <1>1, <2>1, <2>2 DEF GoesOn
  <2> QED
    BY <1>1, <1>2, <2>3, AdvanceOK DEF ListSessions, store, RowsAdvance
<1>3. CASE DeleteSessions(r)
  <2>1. RowsAdvance /\ UNCHANGED <<password, doomed>>
    BY <1>1, <1>3 DEF DeleteSessions, RowsAdvance, Status, Live
  <2>2. auth' = [auth EXCEPT ![r].at = "evict all"]
    BY <1>3 DEF DeleteSessions, GotoStep
  <2>3. TypeOK'
    BY <1>1, <2>1, <2>2 DEF IInv, TypeOK, RowsAdvance, Request, Steps
  <2>4. \A t \in auth[r].before \ Kept(r) : row'[t] = "deleted"
    BY <1>1, <1>3 DEF DeleteSessions, Issued, Live, Status
  <2>5. \A q \in AuthRequests : auth'[q].before = auth[q].before /\ Kept(q)' = Kept(q)
    BY <1>1, <2>2 DEF IInv, TypeOK, Kept, Request
  <2>6. BeforeOK'
    BY <2>1, <2>2, <2>4, <2>5 DEF IInv, TypeOK, BeforeOK, RowsAdvance, Issued
  <2>7. RevokesWhatWasThere'
    BY <2>1 DEF IInv, TypeOK, RevokesWhatWasThere, RowsAdvance
  <2> QED BY <2>3, <2>6, <2>7 DEF IInv
<1>4. CASE EvictSessions(r)
  <2>1. GoesOn(r)
    BY <1>4, HelpersOK DEF EvictSessions, Steps
  <2>2. RowsAdvance /\ password' \in Nat
    BY <1>1, <1>4 DEF EvictSessions, store, RowsAdvance
  <2>3. TypeOK'
    BY <1>1, <1>4, <2>1, <2>2
       DEF EvictSessions, GoesOn, IInv, TypeOK, RowsAdvance, Issued
  <2>4. BeforeOK'
    BY <2>1, <2>2, BeforeAdvances
  <2>5. RevokesWhatWasThere'
    BY <1>1, <1>4 DEF EvictSessions, AtStep, store, IInv, BeforeOK, RevokesWhatWasThere
  <2> QED BY <2>3, <2>4, <2>5 DEF IInv
<1> QED BY <1>2, <1>3, <1>4

LEMMA StepOK == IInv /\ [AuthNext]_authVars => IInv'
<1> SUFFICES ASSUME IInv, [AuthNext]_authVars PROVE IInv'
  OBVIOUS
<1>1. CASE UNCHANGED <<store, auth, doomed>>
  BY <1>1 DEF store, IInv, TypeOK, BeforeOK, RevokesWhatWasThere, Issued, Kept
<1>2. ASSUME NEW r \in AuthRequests, Arrival(r) \/ Work(r) PROVE IInv'
  BY <1>2, ArrivalOK, ValidationOK, PasswordsOK, RevocationOK DEF Work
<1> QED BY <1>1, <1>2 DEF AuthNext, Tick, authVars

LEMMA Invariance == AuthSpec => []IInv
BY InitOK, StepOK, PTL DEF AuthSpec

\* Once a revocation is answered, no session that was there when it began is
\* live but the one the caller keeps.  (logoutAll, changePassword,
\* resetPassword, deleteSessionsByUserId)
THEOREM RevocationIsComplete == AuthSpec => []RevokesWhatWasThere
BY Invariance, PTL DEF IInv
=============================================================================
