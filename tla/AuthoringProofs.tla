-------------------------- MODULE AuthoringProofs --------------------------
(***************************************************************************)
(* What authoring rests on: the catalogue and the design sessions, the     *)
(* token buckets that limit them, and the calls to the models.             *)
(***************************************************************************)
EXTENDS DesignSessions, RateLimiter, ModelCalls, TLAPS

-----------------------------------------------------------------------------
(* Who is shown an imported game and what stays deleted, for any number of *)
(* nodes, users, sessions and requests at work on them.                    *)

\* A request is a record, whatever its steps have written into it.
Shape(q) ==
  q = [op |-> q.op, at |-> q.at, node |-> q.node, user |-> q.user, game |-> q.game,
       found |-> q.found, listed |-> q.listed, session |-> q.session, doc |-> q.doc,
       draft |-> q.draft, tries |-> q.tries]

\* A session was published as a game that the repository minted.
DocOK(d) ==
  /\ d = [owner |-> d.owner, revisions |-> d.revisions, published |-> d.published]
  /\ d.published \in Games \cup {None}

\* The steps at which a request works on a session that it has loaded.
HoldsSession(q) ==
  \/ q.at \in {"loaded", "published"}
  \/ q.at = "drafting" /\ q.op # "create"
  \/ q.at = "checked" /\ q.op = "publish"

NamesGame(q) == q.at \in {"fetched", "checked", "saved", "deleted", "published"}

RequestOK(q) ==
  /\ Shape(q)
  /\ q.listed \subseteq Games
  /\ q.at # "none" => q.user \in Users /\ q.node \in Nodes
  /\ NamesGame(q) => q.game \in Games
  /\ HoldsSession(q) => DocOK(q.doc)

CatalogOK ==
  /\ owner \in [Games -> Users \cup {None}]
  /\ stored \subseteq Games
  /\ loaded \in [Nodes -> SUBSET Games]
  /\ shown \subseteq Users \X Games

SessionOK(s) == session[s] \in {None, Gone} \/ DocOK(session[s])

SessionsOK ==
  /\ session = [s \in Sessions |-> session[s]]
  /\ \A s \in Sessions : SessionOK(s)

RequestsOK ==
  /\ req = [r \in Requests |-> req[r]]
  /\ \A r \in Requests : RequestOK(req[r])

IInv == CatalogOK /\ SessionsOK /\ RequestsOK /\ PrivateStaysPrivate
-----------------------------------------------------------------------------
(* The requests.                                                           *)

LEMMA NoRequestOK == RequestOK(NoRequest)
BY DEF NoRequest, RequestOK, Shape, NamesGame, HoldsSession

LEMMA CatalogRequestOK ==
  ASSUME NEW op, NEW at, NEW n, NEW u, NEW g,
         NEW q, q = CatalogRequest(op, at, n, u, g)
  PROVE  /\ Shape(q) /\ q.listed = {} /\ q.op = op /\ q.at = at /\ q.user = u /\ q.node = n
         /\ q.game = g
BY DEF CatalogRequest, NoRequest, Shape

LEMMA DesignRequestOK ==
  ASSUME NEW op, NEW at, NEW n, NEW u, NEW s,
         NEW q, q = DesignRequest(op, at, n, u, s)
  PROVE  /\ Shape(q) /\ q.listed = {} /\ q.op = op /\ q.at = at /\ q.user = u /\ q.node = n
         /\ s # None => q.doc = session[s]
BY DEF DesignRequest, NoRequest, Shape

\* One request goes on, the others stay as they are.
LEMMA OneRequest ==
  ASSUME RequestsOK, NEW r \in Requests, NEW new, RequestOK(new),
         req' = [req EXCEPT ![r] = new]
  PROVE  RequestsOK'
<1>1. req' = [x \in Requests |-> IF x = r THEN new ELSE req[x]]
  BY DEF RequestsOK
<1>2. \A x \in Requests : RequestOK(req'[x])
  BY <1>1 DEF RequestsOK
<1>3. req' = [x \in Requests |-> req'[x]]
  BY <1>1
<1> QED BY <1>2, <1>3 DEF RequestsOK, RequestOK, Shape, NamesGame, HoldsSession, DocOK

LEMMA AnswerOK ==
  ASSUME RequestsOK, NEW r \in Requests, Answer(r)
  PROVE  RequestsOK'
BY NoRequestOK, OneRequest DEF Answer

\* A request that has reached another step.
LEMMA MovedOK ==
  ASSUME NEW q, Shape(q), NEW at, NEW new, new = [q EXCEPT !.at = at]
  PROVE  /\ Shape(new) /\ new.at = at /\ new.op = q.op /\ new.user = q.user /\ new.node = q.node
         /\ new.game = q.game /\ new.listed = q.listed /\ new.doc = q.doc
BY DEF Shape

\* A request that has been given a game, or a listing.
LEMMA NamedOK ==
  ASSUME NEW q, Shape(q), NEW g, NEW new, new = [q EXCEPT !.game = g]
  PROVE  /\ Shape(new) /\ new.at = q.at /\ new.op = q.op /\ new.user = q.user
         /\ new.node = q.node /\ new.game = g /\ new.listed = q.listed /\ new.doc = q.doc
BY DEF Shape

LEMMA ListingOK ==
  ASSUME NEW q, Shape(q), NEW gs, NEW new, new = [q EXCEPT !.listed = gs]
  PROVE  /\ Shape(new) /\ new.at = q.at /\ new.op = q.op /\ new.user = q.user
         /\ new.node = q.node /\ new.game = q.game /\ new.listed = gs /\ new.doc = q.doc
BY DEF Shape
-----------------------------------------------------------------------------
(* The catalogue's steps.                                                  *)

CatalogueOK == CatalogOK /\ RequestsOK /\ PrivateStaysPrivate

LEMMA LoadOK ==
  ASSUME CatalogOK, NEW n, NEW gs, gs \subseteq Games, Load(n, gs)
  PROVE  loaded' \in [Nodes -> SUBSET Games]
BY DEF CatalogOK, Load

\* What is shown to a user is the user's.
LEMMA ShowOK ==
  ASSUME CatalogOK, PrivateStaysPrivate, NEW u \in Users, NEW gs, gs \subseteq Games,
         \A g \in gs : owner[g] = u, Show(u, gs), UNCHANGED owner
  PROVE  shown' \subseteq Users \X Games /\ PrivateStaysPrivate'
BY DEF CatalogOK, PrivateStaysPrivate, Show

\* A game that is minted was nobody's, and so was shown to nobody.
LEMMA MintOK ==
  ASSUME CatalogueOK, NEW r \in Requests, NEW q, Shape(q), NEW at,
         q.user \in Users, q.node \in Nodes, q.listed \subseteq Games, at \in {"saved", "published"},
         at = "published" => DocOK(q.doc), Mint(r, q, at)
  PROVE  CatalogueOK'
<1>1. PICK g \in Games \ Minted :
        /\ owner' = [owner EXCEPT ![g] = q.user]
        /\ stored' = stored \cup {g}
        /\ req' = [req EXCEPT ![r] = [q EXCEPT !.game = g, !.at = at]]
        /\ UNCHANGED <<loaded, shown>>
  BY DEF Mint
<1>2. owner[g] = None
  BY DEF Minted
<1>3. CatalogOK'
  BY <1>1 DEF CatalogueOK, CatalogOK
<1>4. PrivateStaysPrivate'
  <2> SUFFICES ASSUME NEW p \in shown PROVE owner'[p[2]] = p[1]
    BY <1>1 DEF PrivateStaysPrivate
  <2>1. p[1] \in Users /\ p[2] \in Games /\ owner[p[2]] = p[1]
    BY DEF CatalogueOK, CatalogOK, PrivateStaysPrivate
  <2>2. p[2] # g
    BY <2>1, <1>2, CatalogAssumption
  <2> QED BY <2>1, <2>2, <1>1 DEF CatalogueOK, CatalogOK
<1>5. RequestsOK'
  <2> DEFINE named == [q EXCEPT !.game = g]
             new == [named EXCEPT !.at = at]
  <2>0. /\ Shape(named) /\ named.user = q.user /\ named.node = q.node /\ named.game = g
        /\ named.listed = q.listed /\ named.doc = q.doc /\ named.op = q.op
    BY NamedOK
  <2> HIDE DEF named
  <2>1. /\ Shape(new) /\ new.at = at /\ new.user = q.user /\ new.node = q.node /\ new.game = g
        /\ new.listed = q.listed /\ new.doc = q.doc /\ new.op = q.op
    BY <2>0, MovedOK
  <2>2. RequestOK(new)
    BY <2>1 DEF RequestOK, NamesGame, HoldsSession
  <2> HIDE DEF new
  <2>3. req' = [req EXCEPT ![r] = new]
    BY <1>1 DEF new, named
  <2> QED BY <2>2, <2>3, OneRequest DEF CatalogueOK
<1> QED BY <1>3, <1>4, <1>5 DEF CatalogueOK

\* A request that goes on to a step at which it names the same game and holds
\* no session it did not hold.
LEMMA GotoOK ==
  ASSUME RequestsOK, NEW r \in Requests, NEW at, Goto(r, at), ~At(r, "none"),
         NamesGame(req[r]), at \in {"saved", "deleted", "published"},
         at = "published" => DocOK(req[r].doc)
  PROVE  RequestsOK'
<1> DEFINE q == req[r]
           new == [q EXCEPT !.at = at]
<1>1. RequestOK(q)
  BY DEF RequestsOK
<1>2. /\ Shape(new) /\ new.at = at /\ new.user = q.user /\ new.node = q.node /\ new.game = q.game
      /\ new.listed = q.listed /\ new.doc = q.doc /\ new.op = q.op
  BY <1>1, MovedOK DEF RequestOK
<1>3. RequestOK(new)
  BY <1>1, <1>2 DEF RequestOK, NamesGame, HoldsSession, At
<1>4. req' = [req EXCEPT ![r] = new]
  BY DEF Goto
<1> HIDE DEF new
<1> QED BY <1>3, <1>4, OneRequest

LEMMA CatalogArrivalOK ==
  ASSUME CatalogueOK, NEW r \in Requests, CatalogArrival(r)
  PROVE  CatalogueOK'
<1> USE DEF CatalogueOK
<1>1. CASE GetArrives(r)
  <2>1. PICK n \in Nodes, u \in Users, g \in Minted :
          /\ req[r] = NoRequest
          /\ \/ ShownFromMemory(n, u, g) /\ Show(u, {g}) /\ UNCHANGED req
             \/ g \notin loaded[n] /\ UNCHANGED shown
                /\ Arrives(r, [CatalogRequest("get", "fetched", n, u, g)
                                 EXCEPT !.found = g \in stored])
          /\ UNCHANGED <<owner, stored, loaded>>
    BY <1>1 DEF GetArrives
  <2>2. g \in Games
    BY DEF Minted
  <2>3. CASE ShownFromMemory(n, u, g) /\ Show(u, {g}) /\ UNCHANGED req
    <3>1. shown' \subseteq Users \X Games /\ PrivateStaysPrivate'
      BY <2>1, <2>2, <2>3, ShowOK DEF ShownFromMemory
    <3>2. RequestsOK'
      BY <2>3 DEF RequestsOK, RequestOK, Shape, NamesGame, HoldsSession, DocOK
    <3> QED BY <2>1, <3>1, <3>2 DEF CatalogOK
  <2>4. CASE /\ UNCHANGED shown
             /\ Arrives(r, [CatalogRequest("get", "fetched", n, u, g)
                              EXCEPT !.found = g \in stored])
    <3> DEFINE q == CatalogRequest("get", "fetched", n, u, g)
               new == [q EXCEPT !.found = g \in stored]
    <3>1. /\ Shape(q) /\ q.listed = {} /\ q.op = "get" /\ q.at = "fetched"
          /\ q.user = u /\ q.node = n /\ q.game = g
      BY <2>2, CatalogRequestOK
    <3> HIDE DEF q
    <3>2. /\ Shape(new) /\ new.listed = {} /\ new.op = "get" /\ new.at = "fetched"
          /\ new.user = u /\ new.node = n /\ new.game = g
      BY <3>1 DEF Shape
    <3>3. RequestOK(new)
      BY <3>2, <2>2 DEF RequestOK, NamesGame, HoldsSession
    <3>4. req' = [req EXCEPT ![r] = new]
      BY <2>4 DEF Arrives, q
    <3> HIDE DEF new
    <3>5. RequestsOK'
      BY <3>3, <3>4, OneRequest
    <3> QED BY <2>1, <2>4, <3>5 DEF CatalogOK, PrivateStaysPrivate
  <2> QED BY <2>1, <2>3, <2>4
<1>2. CASE ListArrives(r)
  <2>1. PICK n \in Nodes, u \in Users :
          /\ Arrives(r, [CatalogRequest("list", "listed", n, u, None)
                           EXCEPT !.listed = OwnedBy(u)])
          /\ UNCHANGED catalog
    BY <1>2 DEF ListArrives
  <2> DEFINE q == CatalogRequest("list", "listed", n, u, None)
             new == [q EXCEPT !.listed = OwnedBy(u)]
  <2>2. Shape(q) /\ q.op = "list" /\ q.at = "listed" /\ q.user = u /\ q.node = n
    BY CatalogRequestOK
  <2> HIDE DEF q
  <2>3. /\ Shape(new) /\ new.op = "list" /\ new.at = "listed" /\ new.user = u /\ new.node = n
        /\ new.listed = OwnedBy(u)
    BY <2>2 DEF Shape
  <2>4. RequestOK(new)
    BY <2>3 DEF RequestOK, NamesGame, HoldsSession, OwnedBy, CatalogOK
  <2>5. req' = [req EXCEPT ![r] = new]
    BY <2>1 DEF Arrives, q
  <2> HIDE DEF new
  <2>6. RequestsOK'
    BY <2>4, <2>5, OneRequest
  <2> QED BY <2>1, <2>6 DEF catalog, CatalogOK, PrivateStaysPrivate
<1>3. CASE ImportArrives(r)
  <2>1. PICK n \in Nodes, u \in Users :
          Mint(r, CatalogRequest("import", "none", n, u, None), "saved")
    BY <1>3 DEF ImportArrives
  <2> DEFINE q == CatalogRequest("import", "none", n, u, None)
  <2>2. Shape(q) /\ q.listed = {} /\ q.user = u /\ q.node = n
    BY CatalogRequestOK
  <2>3. Mint(r, q, "saved")
    BY <2>1
  <2> HIDE DEF q
  <2> QED BY <2>2, <2>3, MintOK
<1>4. CASE ChangeArrives(r)
  <2>1. PICK n \in Nodes, u \in Users, g \in Minted, op \in {"update", "delete"} :
          /\ Arrives(r, [CatalogRequest(op, "checked", n, u, g)
                           EXCEPT !.found = g \in stored])
          /\ UNCHANGED catalog
    BY <1>4 DEF ChangeArrives
  <2> DEFINE q == CatalogRequest(op, "checked", n, u, g)
             new == [q EXCEPT !.found = g \in stored]
  <2>2. g \in Games
    BY DEF Minted
  <2>3. /\ Shape(q) /\ q.listed = {} /\ q.op = op /\ q.at = "checked"
        /\ q.user = u /\ q.node = n /\ q.game = g
    BY <2>2, CatalogRequestOK
  <2> HIDE DEF q
  <2>4. /\ Shape(new) /\ new.listed = {} /\ new.op = op /\ new.at = "checked"
        /\ new.user = u /\ new.node = n /\ new.game = g
    BY <2>3 DEF Shape
  <2>5. RequestOK(new)
    BY <2>4, <2>2 DEF RequestOK, NamesGame, HoldsSession
  <2>6. req' = [req EXCEPT ![r] = new]
    BY <2>1 DEF Arrives, q
  <2> HIDE DEF new
  <2>7. RequestsOK'
    BY <2>5, <2>6, OneRequest
  <2> QED BY <2>1, <2>7 DEF catalog, CatalogOK, PrivateStaysPrivate
<1> QED BY <1>1, <1>2, <1>3, <1>4, CatalogArrival(r) DEF CatalogArrival

LEMMA CatalogWorkOK ==
  ASSUME CatalogueOK, NEW r \in Requests, CatalogWork(r)
  PROVE  CatalogueOK'
<1> USE DEF CatalogueOK
<1>0. RequestOK(req[r])
  BY DEF RequestsOK
<1>1. CASE Fetched(r)
  <2>1. RequestsOK'
    BY <1>1, AnswerOK DEF Fetched
  <2>2. req[r].user \in Users /\ req[r].game \in Games
    BY <1>0, <1>1 DEF Fetched, At, RequestOK, NamesGame
  <2>3. CASE req[r].found /\ owner[req[r].game] = req[r].user
    <3>1. /\ Load(req[r].node, {req[r].game}) /\ Show(req[r].user, {req[r].game})
          /\ UNCHANGED <<owner, stored>>
      BY <1>1, <2>3 DEF Fetched
    <3>2. loaded' \in [Nodes -> SUBSET Games]
      BY <3>1, <2>2, LoadOK
    <3>3. shown' \subseteq Users \X Games /\ PrivateStaysPrivate'
      BY <3>1, <2>2, <2>3, ShowOK
    <3> QED BY <2>1, <3>1, <3>2, <3>3 DEF CatalogOK
  <2>4. CASE ~(req[r].found /\ owner[req[r].game] = req[r].user)
    BY <1>1, <2>1, <2>4 DEF Fetched, CatalogOK, PrivateStaysPrivate
  <2> QED BY <2>3, <2>4
<1>2. CASE Listed(r)
  <2>1. RequestsOK'
    BY <1>2, AnswerOK DEF Listed
  <2>2. req[r].user \in Users /\ req[r].node \in Nodes /\ req[r].listed \subseteq Games
    BY <1>0, <1>2 DEF Listed, At, RequestOK
  <2> DEFINE mine == {g \in loaded'[req[r].node] : owner[g] = req[r].user}
  <2>3. /\ Load(req[r].node, req[r].listed) /\ Show(req[r].user, mine)
        /\ UNCHANGED <<owner, stored>>
    BY <1>2 DEF Listed
  <2>4. loaded' \in [Nodes -> SUBSET Games]
    BY <2>2, <2>3, LoadOK
  <2>5. mine \subseteq Games /\ \A g \in mine : owner[g] = req[r].user
    BY <2>2, <2>4
  <2> HIDE DEF mine
  <2>6. shown' \subseteq Users \X Games /\ PrivateStaysPrivate'
    BY <2>2, <2>3, <2>5, ShowOK
  <2> QED BY <2>1, <2>3, <2>4, <2>6 DEF CatalogOK
<1>3. CASE Checked(r)
  <2>1. CASE Answer(r) /\ UNCHANGED catalog
    BY <2>1, AnswerOK DEF catalog, CatalogOK, PrivateStaysPrivate
  <2>2. CASE At(r, "checked") /\ Write(r, "saved")
    <3>1. RequestsOK'
      BY <2>2, GotoOK DEF Write, At, NamesGame
    <3> QED BY <2>2, <3>1 DEF Write, Written, CatalogOK, PrivateStaysPrivate
  <2>3. CASE /\ At(r, "checked")
             /\ stored' = stored \ {req[r].game}
             /\ Goto(r, "deleted")
             /\ UNCHANGED <<owner, loaded, shown>>
    <3>1. RequestsOK'
      BY <2>3, GotoOK DEF At, NamesGame
    <3> QED BY <2>3, <3>1 DEF CatalogOK, PrivateStaysPrivate
  <2> QED BY <1>3, <2>1, <2>2, <2>3 DEF Checked
<1>4. CASE Saved(r)
  <2> DEFINE q == req[r]
             mine == OwnedBy(q.user)
             moved == [q EXCEPT !.at = "listed"]
             new == [moved EXCEPT !.listed = mine]
  <2>0. /\ Shape(moved) /\ moved.at = "listed" /\ moved.op = q.op
        /\ moved.user = q.user /\ moved.node = q.node
    BY <1>0, MovedOK DEF RequestOK
  <2> HIDE DEF moved, mine
  <2>1. /\ Shape(new) /\ new.at = "listed" /\ new.user = q.user /\ new.node = q.node
        /\ new.listed = mine /\ new.op = q.op
    BY <2>0, ListingOK
  <2>2. q.user \in Users /\ q.node \in Nodes /\ q.game \in Games
    BY <1>0, <1>4 DEF Saved, At, RequestOK, NamesGame
  <2>3. RequestOK(new)
    BY <2>1, <2>2 DEF mine, RequestOK, NamesGame, HoldsSession, OwnedBy, CatalogOK
  <2>4. req' = [req EXCEPT ![r] = new]
    BY <1>4 DEF Saved, moved, mine
  <2> HIDE DEF new
  <2>5. RequestsOK'
    BY <2>3, <2>4, OneRequest
  <2>6. loaded' \in [Nodes -> SUBSET Games]
    BY <1>4, <2>2, LoadOK DEF Saved
  <2> QED BY <1>4, <2>5, <2>6 DEF Saved, CatalogOK, PrivateStaysPrivate
<1>5. CASE Deleted(r)
  <2>1. RequestsOK'
    BY <1>5, AnswerOK DEF Deleted
  <2> QED BY <1>5, <2>1 DEF Deleted, CatalogOK, PrivateStaysPrivate
<1> QED BY <1>1, <1>2, <1>3, <1>4, <1>5, CatalogWork(r) DEF CatalogWork
-----------------------------------------------------------------------------
(* The designer's steps.                                                   *)

LEMMA DraftedOK ==
  ASSUME NEW q, RequestOK(q), NEW d, NEW new, new = [q EXCEPT !.draft = d]
  PROVE  RequestOK(new)
<1>1. /\ Shape(new) /\ new.at = q.at /\ new.op = q.op /\ new.user = q.user
      /\ new.node = q.node /\ new.game = q.game /\ new.listed = q.listed /\ new.doc = q.doc
  BY DEF Shape, RequestOK
<1> QED BY <1>1 DEF RequestOK, NamesGame, HoldsSession

\* Somebody's session, as it is when the request arrives.
LEMMA LoadedOK ==
  ASSUME SessionsOK, NEW n \in Nodes, NEW u \in Users, NEW s \in Documents, NEW op,
         NEW at \in {"drafting", "loaded"}, NEW q, q = DesignRequest(op, at, n, u, s)
  PROVE  RequestOK(q)
<1>1. /\ Shape(q) /\ q.listed = {} /\ q.op = op /\ q.at = at /\ q.user = u /\ q.node = n
      /\ s # None => q.doc = session[s]
  BY DesignRequestOK
<1>2. s # None /\ DocOK(session[s])
  BY DesignAssumption DEF SessionsOK, SessionOK, Documents
<1> QED BY <1>1, <1>2 DEF RequestOK, NamesGame, HoldsSession

LEMMA ArrivesOK ==
  ASSUME RequestsOK, NEW r \in Requests, NEW new, RequestOK(new), Arrives(r, new)
  PROVE  RequestsOK'
BY OneRequest DEF Arrives

\* A change of a session arrives with its draft.
LEMMA ChangeArrivesOK ==
  ASSUME SessionsOK, RequestsOK, NEW r \in Requests, NEW n \in Nodes, NEW u \in Users,
         NEW s \in Documents, NEW op, NEW at \in {"drafting", "loaded"}, NEW d,
         Arrives(r, [DesignRequest(op, at, n, u, s) EXCEPT !.draft = d])
  PROVE  RequestsOK'
<1> DEFINE q == DesignRequest(op, at, n, u, s)
           new == [q EXCEPT !.draft = d]
<1>1. RequestOK(q)
  BY LoadedOK
<1>2. Arrives(r, new)
  OBVIOUS
<1> HIDE DEF q
<1>3. RequestOK(new)
  BY <1>1, DraftedOK
<1> HIDE DEF new
<1> QED BY <1>2, <1>3, ArrivesOK

LEMMA DesignArrivalOK ==
  ASSUME IInv, NEW r \in Requests, DesignArrival(r)
  PROVE  RequestsOK' /\ UNCHANGED <<catalog, session>>
<1> USE DEF IInv
<1>1. CASE CreateArrives(r)
  <2>1. PICK n \in Nodes, u \in Users :
          Arrives(r, [DesignRequest("create", "drafting", n, u, None)
                        EXCEPT !.draft = drafts + 1])
    BY <1>1 DEF CreateArrives
  <2> DEFINE q == DesignRequest("create", "drafting", n, u, None)
             new == [q EXCEPT !.draft = drafts + 1]
  <2>2. /\ Shape(q) /\ q.listed = {} /\ q.op = "create" /\ q.at = "drafting"
        /\ q.user = u /\ q.node = n
    BY DesignRequestOK
  <2>3. Arrives(r, new)
    BY <2>1
  <2> HIDE DEF q
  <2>4. RequestOK(q)
    BY <2>2 DEF RequestOK, NamesGame, HoldsSession
  <2>5. RequestOK(new)
    BY <2>4, DraftedOK
  <2> HIDE DEF new
  <2> QED BY <1>1, <2>3, <2>5, ArrivesOK DEF CreateArrives
<1>2. CASE ChangeSessionArrives(r)
  <2>1. PICK n \in Nodes, u \in Users, s \in Documents :
          /\ \/ \E op \in {"refine", "edit"} :
                  Arrives(r, [DesignRequest(op, IF op = "refine" THEN "drafting" ELSE "loaded",
                                            n, u, s) EXCEPT !.draft = drafts + 1])
             \/ \E k \in DOMAIN session[s].revisions :
                  Arrives(r, [DesignRequest("revert", "loaded", n, u, s)
                                EXCEPT !.draft = session[s].revisions[k]])
          /\ UNCHANGED <<catalog, session>>
    BY <1>2 DEF ChangeSessionArrives
  <2>2. CASE \E op \in {"refine", "edit"} :
               Arrives(r, [DesignRequest(op, IF op = "refine" THEN "drafting" ELSE "loaded",
                                         n, u, s) EXCEPT !.draft = drafts + 1])
    <3>1. CASE Arrives(r, [DesignRequest("refine", "drafting", n, u, s)
                             EXCEPT !.draft = drafts + 1])
      BY <3>1, <2>1, ChangeArrivesOK
    <3>2. CASE Arrives(r, [DesignRequest("edit", "loaded", n, u, s)
                             EXCEPT !.draft = drafts + 1])
      BY <3>2, <2>1, ChangeArrivesOK
    <3> QED BY <2>2, <3>1, <3>2
  <2>3. CASE \E k \in DOMAIN session[s].revisions :
               Arrives(r, [DesignRequest("revert", "loaded", n, u, s)
                             EXCEPT !.draft = session[s].revisions[k]])
    BY <2>3, <2>1, ChangeArrivesOK
  <2> QED BY <2>1, <2>2, <2>3
<1>3. CASE PublishArrives(r) \/ DiscardArrives(r)
  <2>1. PICK n \in Nodes, u \in Users, s \in Documents, op \in {"publish", "discard"} :
          /\ Arrives(r, DesignRequest(op, "loaded", n, u, s))
          /\ UNCHANGED <<catalog, session>>
    BY <1>3 DEF PublishArrives, DiscardArrives
  <2>2. RequestOK(DesignRequest(op, "loaded", n, u, s))
    BY LoadedOK
  <2> QED BY <2>1, <2>2, ArrivesOK
<1> QED BY <1>1, <1>2, <1>3, DesignArrival(r) DEF DesignArrival

\* Whatever a request writes back, it writes a session, and only to one that is there.
LEMMA UpdatedOK ==
  ASSUME SessionsOK, NEW s, NEW doc, DocOK(doc), session' = Updated(s, doc)
  PROVE  SessionsOK'
<1>1. CASE s \in Documents
  <2>1. session' = [x \in Sessions |-> IF x = s THEN doc ELSE session[x]]
    BY <1>1 DEF Updated, SessionsOK
  <2>2. \A x \in Sessions : session'[x] \in {None, Gone} \/ DocOK(session'[x])
    BY <2>1 DEF SessionsOK, SessionOK
  <2>3. session' = [x \in Sessions |-> session'[x]]
    BY <2>1
  <2> QED BY <2>2, <2>3 DEF SessionsOK, SessionOK, DocOK
<1>2. CASE s \notin Documents
  BY <1>2 DEF Updated, SessionsOK, SessionOK, DocOK
<1> QED BY <1>1, <1>2

LEMMA CommitOK ==
  ASSUME SessionsOK, RequestsOK, NEW r \in Requests, NEW draft,
         HoldsSession(req[r]), Commit(r, draft)
  PROVE  SessionsOK' /\ RequestsOK'
<1> DEFINE d == req[r].doc
           doc == [d EXCEPT !.revisions = Appended(@, draft)]
<1>1. DocOK(d)
  BY DEF RequestsOK, RequestOK
<1>2. session' = Updated(req[r].session, doc) /\ Answer(r)
  BY DEF Commit
<1> HIDE DEF d
<1>3. DocOK(doc)
  BY <1>1 DEF DocOK
<1> HIDE DEF doc
<1>4. SessionsOK'
  BY <1>2, <1>3, UpdatedOK
<1> QED BY <1>2, <1>4, AnswerOK

LEMMA CatalogUnchanged ==
  ASSUME CatalogOK, PrivateStaysPrivate, UNCHANGED catalog
  PROVE  CatalogOK' /\ PrivateStaysPrivate'
BY DEF CatalogOK, PrivateStaysPrivate, catalog

LEMMA SessionUnchanged ==
  ASSUME SessionsOK, UNCHANGED session
  PROVE  SessionsOK'
BY DEF SessionsOK, SessionOK, DocOK

\* A request that has been asked for another draft.
LEMMA RepairedOK ==
  ASSUME NEW q, RequestOK(q), NEW k, NEW new, new = [q EXCEPT !.tries = k]
  PROVE  RequestOK(new)
<1>1. /\ Shape(new) /\ new.at = q.at /\ new.op = q.op /\ new.user = q.user
      /\ new.node = q.node /\ new.game = q.game /\ new.listed = q.listed /\ new.doc = q.doc
  BY DEF Shape, RequestOK
<1> QED BY <1>1 DEF RequestOK, NamesGame, HoldsSession

\* The game that a session was published as is looked up.
LEMMA LookedUpOK ==
  ASSUME NEW q, RequestOK(q), HoldsSession(q), q.at = "loaded", NEW g \in Games, NEW b, NEW new,
         new = [q EXCEPT !.at = "checked", !.game = g, !.found = b]
  PROVE  RequestOK(new)
<1> DEFINE moved == [q EXCEPT !.at = "checked"]
           named == [moved EXCEPT !.game = g]
<1>1. /\ Shape(moved) /\ moved.at = "checked" /\ moved.op = q.op /\ moved.user = q.user
      /\ moved.node = q.node /\ moved.listed = q.listed /\ moved.doc = q.doc
  BY MovedOK DEF RequestOK
<1>2. new = [named EXCEPT !.found = b]
  OBVIOUS
<1> HIDE DEF moved
<1>3. /\ Shape(named) /\ named.at = "checked" /\ named.op = q.op /\ named.user = q.user
      /\ named.node = q.node /\ named.game = g /\ named.listed = q.listed
      /\ named.doc = q.doc
  BY <1>1, NamedOK
<1> HIDE DEF named
<1>4. /\ Shape(new) /\ new.at = "checked" /\ new.op = q.op /\ new.user = q.user
      /\ new.node = q.node /\ new.game = g /\ new.listed = q.listed /\ new.doc = q.doc
  BY <1>2, <1>3 DEF Shape
<1> QED BY <1>4 DEF RequestOK, NamesGame, HoldsSession

LEMMA DesignWorkOK ==
  ASSUME IInv, NEW r \in Requests, DesignWork(r)
  PROVE  IInv'
<1> USE DEF IInv
<1> DEFINE q == req[r]
<1>0. RequestOK(q)
  BY DEF RequestsOK
<1>1. CASE DraftingFails(r)
  BY <1>1, AnswerOK, CatalogUnchanged, SessionUnchanged DEF DraftingFails
<1>2. CASE AskForRepair(r)
  <2> DEFINE new == [q EXCEPT !.tries = @ + 1]
  <2>1. RequestOK(new)
    BY <1>0, RepairedOK
  <2>2. req' = [req EXCEPT ![r] = new]
    BY <1>2 DEF AskForRepair
  <2> HIDE DEF new
  <2>3. RequestsOK'
    BY <2>1, <2>2, OneRequest
  <2> QED BY <1>2, <2>3, CatalogUnchanged, SessionUnchanged DEF AskForRepair
<1>3. CASE DraftDone(r)
  <2>1. PICK v \in Verdict :
          /\ At(r, "drafting")
          /\ IF q.op = "create"
             THEN /\ \E s \in Sessions :
                       /\ session[s] = None
                       /\ session' = [session EXCEPT ![s] =
                            [owner |-> q.user, revisions |-> <<Draft(q.draft, v)>>,
                             published |-> None]]
                  /\ Answer(r)
             ELSE Commit(r, Draft(q.draft, v))
          /\ UNCHANGED catalog
    BY <1>3 DEF DraftDone
  <2>2. CASE q.op = "create"
    <3>1. PICK s \in Sessions :
            session' = [session EXCEPT ![s] =
              [owner |-> q.user, revisions |-> <<Draft(q.draft, v)>>, published |-> None]]
      BY <2>1, <2>2
    <3> DEFINE doc == [owner |-> q.user, revisions |-> <<Draft(q.draft, v)>>,
                       published |-> None]
    <3>2. DocOK(doc)
      BY DEF DocOK
    <3>3. session' = [session EXCEPT ![s] = doc]
      BY <3>1
    <3> HIDE DEF doc
    <3>4. session' = [x \in Sessions |-> IF x = s THEN doc ELSE session[x]]
      BY <3>3 DEF SessionsOK
    <3>5. \A x \in Sessions : session'[x] \in {None, Gone} \/ DocOK(session'[x])
      BY <3>2, <3>4 DEF SessionsOK, SessionOK
    <3>6. session' = [x \in Sessions |-> session'[x]]
      BY <3>4
    <3>7. SessionsOK'
      BY <3>5, <3>6 DEF SessionsOK, SessionOK, DocOK
    <3> QED BY <2>1, <2>2, <3>7, AnswerOK, CatalogUnchanged
  <2>3. CASE q.op # "create"
    BY <2>1, <2>3, CommitOK, CatalogUnchanged DEF HoldsSession, At
  <2> QED BY <2>2, <2>3
<1>4. CASE CommitEdit(r)
  <2>1. PICK v \in Verdict : Commit(r, Draft(q.draft, v))
    BY <1>4 DEF CommitEdit
  <2>2. HoldsSession(req[r])
    BY <1>4 DEF CommitEdit, HoldsSession, At
  <2> QED BY <1>4, <2>1, <2>2, CommitOK, CatalogUnchanged DEF CommitEdit
<1>5. CASE CommitRevert(r)
  <2>1. HoldsSession(req[r])
    BY <1>5 DEF CommitRevert, HoldsSession, At
  <2> QED BY <1>5, <2>1, CommitOK, CatalogUnchanged DEF CommitRevert
<1>6. CASE Discard(r)
  <2>1. session' = [x \in Sessions |-> IF x = q.session THEN Gone ELSE session[x]]
    BY <1>6 DEF Discard, SessionsOK
  <2>2. \A x \in Sessions : session'[x] \in {None, Gone} \/ DocOK(session'[x])
    BY <2>1 DEF SessionsOK, SessionOK
  <2>3. session' = [x \in Sessions |-> session'[x]]
    BY <2>1
  <2>4. SessionsOK'
    BY <2>2, <2>3 DEF SessionsOK, SessionOK, DocOK
  <2> QED BY <1>6, <2>4, AnswerOK, CatalogUnchanged DEF Discard
<1>7. CASE Publish(r)
  <2> DEFINE g == q.doc.published
  <2>1. /\ DocOK(q.doc) /\ HoldsSession(q) /\ q.at = "loaded" /\ q.user \in Users
        /\ q.node \in Nodes /\ q.listed \subseteq Games /\ Shape(q)
    BY <1>0, <1>7 DEF Publish, At, RequestOK, HoldsSession
  <2>2. SessionsOK'
    BY <1>7, SessionUnchanged DEF Publish
  <2>3. CASE Answer(r) /\ UNCHANGED catalog
    BY <2>2, <2>3, AnswerOK, CatalogUnchanged
  <2>4. CASE Mint(r, q, "published")
    <3>1. CatalogueOK'
      BY <2>1, <2>4, MintOK DEF CatalogueOK
    <3> QED BY <2>2, <3>1 DEF CatalogueOK
  <2>5. CASE /\ g # None
             /\ req' = [req EXCEPT ![r].at = "checked", ![r].game = g, ![r].found = g \in stored]
             /\ UNCHANGED catalog
    <3> DEFINE new == [q EXCEPT !.at = "checked", !.game = g, !.found = g \in stored]
    <3>1. g \in Games
      BY <2>1, <2>5 DEF DocOK
    <3>2. RequestOK(new)
      BY <1>0, <2>1, <3>1, LookedUpOK
    <3>3. req' = [req EXCEPT ![r] = new]
      BY <2>5
    <3> HIDE DEF new
    <3>4. RequestsOK'
      BY <3>2, <3>3, OneRequest
    <3> QED BY <2>2, <2>5, <3>4, CatalogUnchanged
  <2> QED BY <1>7, <2>3, <2>4, <2>5 DEF Publish
<1>8. CASE Republish(r)
  <2>1. /\ DocOK(q.doc) /\ q.user \in Users /\ q.node \in Nodes /\ q.listed \subseteq Games
        /\ Shape(q) /\ NamesGame(q)
    BY <1>0, <1>8 DEF Republish, At, RequestOK, HoldsSession, NamesGame
  <2>2. SessionsOK'
    BY <1>8, SessionUnchanged DEF Republish
  <2>3. CASE Write(r, "published")
    <3>1. RequestsOK'
      BY <1>8, <2>1, <2>3, GotoOK DEF Write, Republish, At
    <3> QED BY <2>2, <2>3, <3>1 DEF Write, Written, CatalogOK, PrivateStaysPrivate
  <2>4. CASE Mint(r, q, "published")
    <3>1. CatalogueOK'
      BY <2>1, <2>4, MintOK DEF CatalogueOK
    <3> QED BY <2>2, <3>1 DEF CatalogueOK
  <2> QED BY <1>8, <2>3, <2>4 DEF Republish
<1>9. CASE NotePublished(r)
  <2> DEFINE d == q.doc
             doc == [d EXCEPT !.published = q.game]
  <2>1. DocOK(d) /\ q.game \in Games
    BY <1>0, <1>9 DEF NotePublished, At, RequestOK, HoldsSession, NamesGame
  <2>2. session' = Updated(q.session, doc)
    BY <1>9 DEF NotePublished
  <2> HIDE DEF d
  <2>3. DocOK(doc)
    BY <2>1 DEF DocOK
  <2> HIDE DEF doc
  <2>4. SessionsOK'
    BY <2>2, <2>3, UpdatedOK
  <2>5. RequestsOK'
    BY <1>9, AnswerOK DEF NotePublished
  <2>6. loaded' \in [Nodes -> SUBSET Games]
    BY <1>9, <2>1, LoadOK DEF NotePublished
  <2> QED BY <1>9, <2>4, <2>5, <2>6 DEF NotePublished, CatalogOK, PrivateStaysPrivate
<1> QED BY <1>1, <1>2, <1>3, <1>4, <1>5, <1>6, <1>7, <1>8, <1>9, DesignWork(r) DEF DesignWork
-----------------------------------------------------------------------------
LEMMA InitOK == Init => IInv
<1> SUFFICES ASSUME Init PROVE IInv
  OBVIOUS
<1>1. CatalogOK /\ PrivateStaysPrivate
  BY DEF Init, CatalogInit, CatalogOK, PrivateStaysPrivate
<1>2. RequestsOK
  BY NoRequestOK DEF Init, CatalogInit, RequestsOK
<1>3. SessionsOK
  BY DEF Init, SessionsOK, SessionOK
<1> QED BY <1>1, <1>2, <1>3 DEF IInv

LEMMA StepOK == IInv /\ [Next]_vars => IInv'
<1> SUFFICES ASSUME IInv, [Next]_vars PROVE IInv'
  OBVIOUS
<1>1. CASE UNCHANGED vars
  <2>1. RequestsOK'
    BY <1>1 DEF vars, IInv, RequestsOK, RequestOK, Shape, NamesGame, HoldsSession, DocOK
  <2> QED BY <1>1, <2>1, CatalogUnchanged, SessionUnchanged DEF vars, IInv, catalog
<1>2. ASSUME NEW r \in Requests, CatalogArrival(r) \/ CatalogWork(r), UNCHANGED session
      PROVE  IInv'
  <2>1. CatalogueOK'
    BY <1>2, CatalogArrivalOK, CatalogWorkOK DEF IInv, CatalogueOK
  <2>2. SessionsOK'
    BY <1>2, SessionUnchanged DEF IInv
  <2> QED BY <2>1, <2>2 DEF IInv, CatalogueOK
<1>3. ASSUME NEW r \in Requests, DesignArrival(r)
      PROVE  IInv'
  <2>1. RequestsOK' /\ UNCHANGED <<catalog, session>>
    BY <1>3, DesignArrivalOK
  <2> QED BY <2>1, CatalogUnchanged, SessionUnchanged DEF IInv
<1>4. ASSUME NEW r \in Requests, DesignWork(r)
      PROVE  IInv'
  BY <1>4, DesignWorkOK
<1> QED BY <1>1, <1>2, <1>3, <1>4 DEF Next

LEMMA Invariance == Spec => []IInv
<1> QED BY InitOK, StepOK, PTL DEF Spec

\* An imported game is handed to nobody but its importer, from whichever node's
\* memory (getVisible and summaries of plugin-manager.ts).
THEOREM OnlyItsImporter == Spec => []PrivateStaysPrivate
<1>1. IInv => PrivateStaysPrivate
  BY DEF IInv
<1> QED BY <1>1, Invariance, PTL

\* What is gone stays gone: an update only changes what is there, and an id is
\* minted once.
LEMMA NothingReturns ==
  ASSUME SessionsOK, [Next]_vars
  PROVE  /\ \A s \in Sessions : session[s] = Gone => session'[s] = Gone
         /\ \A g \in Minted \ stored : g \notin stored'
<1>1. CASE UNCHANGED vars
  BY <1>1 DEF vars, catalog
<1>2. ASSUME NEW r, NEW q, NEW at, Mint(r, q, at)
      PROVE  \A g \in Minted \ stored : g \notin stored'
  BY <1>2 DEF Mint
<1>3. ASSUME NEW s, NEW doc, session' = Updated(s, doc)
      PROVE  \A x \in Sessions : session[x] = Gone => session'[x] = Gone
  BY <1>3 DEF Updated, Documents, SessionsOK
<1>4. ASSUME NEW r \in Requests, CatalogArrival(r) \/ CatalogWork(r), UNCHANGED session
      PROVE  \A g \in Minted \ stored : g \notin stored'
  BY <1>2, <1>4 DEF CatalogArrival, CatalogWork, GetArrives, ListArrives, ImportArrives,
     ChangeArrives, Fetched, Listed, Checked, Saved, Deleted, Write, Written, catalog
<1>5. ASSUME NEW r \in Requests, DesignArrival(r)
      PROVE  UNCHANGED <<stored, session>>
  BY <1>5 DEF DesignArrival, CreateArrives, ChangeSessionArrives, PublishArrives,
     DiscardArrives, catalog
<1>6. ASSUME NEW r \in Requests, DesignWork(r)
      PROVE  \A s \in Sessions : session[s] = Gone => session'[s] = Gone
  <2>1. CASE DraftDone(r) /\ req[r].op = "create"
    BY <2>1, DesignAssumption DEF DraftDone, SessionsOK
  <2>2. CASE DraftDone(r) /\ req[r].op # "create"
    BY <2>2, <1>3 DEF DraftDone, Commit
  <2>3. CASE CommitEdit(r) \/ CommitRevert(r)
    BY <2>3, <1>3 DEF CommitEdit, CommitRevert, Commit
  <2>4. CASE Discard(r)
    BY <2>4 DEF Discard, SessionsOK
  <2>5. CASE NotePublished(r)
    BY <2>5, <1>3 DEF NotePublished
  <2>6. CASE DraftingFails(r) \/ AskForRepair(r) \/ Publish(r) \/ Republish(r)
    BY <2>6 DEF DraftingFails, AskForRepair, Publish, Republish
  <2> QED BY <1>6, <2>1, <2>2, <2>3, <2>4, <2>5, <2>6 DEF DesignWork
<1>7. ASSUME NEW r \in Requests, DesignWork(r)
      PROVE  \A g \in Minted \ stored : g \notin stored'
  <2>1. CASE Publish(r)
    BY <2>1, <1>2 DEF Publish, catalog
  <2>2. CASE Republish(r)
    BY <2>2, <1>2 DEF Republish, Write, Written
  <2>3. CASE NotePublished(r)
    BY <2>3 DEF NotePublished
  <2>4. CASE DraftingFails(r) \/ AskForRepair(r) \/ DraftDone(r) \/ CommitEdit(r)
             \/ CommitRevert(r) \/ Discard(r)
    BY <2>4 DEF DraftingFails, AskForRepair, DraftDone, CommitEdit, CommitRevert, Discard,
       catalog
  <2> QED BY <1>7, <2>1, <2>2, <2>3, <2>4 DEF DesignWork
<1> QED BY <1>1, <1>4, <1>5, <1>6, <1>7 DEF Next

\* No document of a deleted session or game is written again, whatever requests
\* that loaded it earlier go on to write (the repositories' update).  Of the
\* nodes' memories it says nothing.
THEOREM DeletionIsFinal == Spec => DocumentsStayDeleted
<1>1. IInv /\ [Next]_vars =>
        [/\ \A s \in Sessions : session[s] = Gone => session'[s] = Gone
         /\ \A g \in Minted \ stored : g \notin stored']_vars
  BY NothingReturns DEF IInv
<1> QED BY <1>1, Invariance, PTL DEF Spec, DocumentsStayDeleted

-----------------------------------------------------------------------------
(* The token bucket keeps its promise for any capacity, any rate, any      *)
(* number of keepers and any sweep, up to what the sweep gives away.       *)

LimiterSpec == LimiterInit /\ [][LimiterNext]_limits

Buckets == [units : 0..Full, idle : Nat, kept : BOOLEAN]

\* A bucket never shows more than what is left of the budget.
Covered(b, left) ==
  /\ Refilled(b) <= left
  /\ ~b.kept => b = NoBucket

LimiterInv ==
  /\ bucket \in [Keepers -> Buckets]
  /\ ideal \in [Keepers -> 0..Full]
  /\ \A k \in Keepers : Covered(bucket[k], ideal[k])
-----------------------------------------------------------------------------
LEMMA Sizes ==
  Full \in Nat /\ TokenTicks \in Nat /\ SweepTicks \in Nat
BY LimiterAssumption DEF Full

LEMMA LimiterInitOK == LimiterInit => LimiterInv
BY Sizes DEF LimiterInit, LimiterInv, Covered, Buckets, NoBucket, Refilled, AtMost

\* A refill neither overflows the bucket nor takes anything from it.
LEMMA RefillOK ==
  ASSUME NEW b \in Buckets
  PROVE  Refilled(b) \in 0..Full /\ b.units <= Refilled(b)
BY Sizes DEF Buckets, Refilled, AtMost

LEMMA ConsumeOK ==
  ASSUME LimiterInv, NEW k \in Keepers, Consume(k)
  PROVE  LimiterInv'
<1>1. /\ bucket[k] \in Buckets /\ ideal[k] \in 0..Full
      /\ Refilled(bucket[k]) \in 0..Full /\ Refilled(bucket[k]) <= ideal[k]
  BY RefillOK DEF LimiterInv, Covered
<1>2. CASE /\ Refilled(bucket[k]) >= TokenTicks
           /\ bucket' = [bucket EXCEPT ![k] = [units |-> Refilled(@) - TokenTicks,
                                               idle |-> 0, kept |-> TRUE]]
           /\ ideal' = [ideal EXCEPT ![k] = @ - TokenTicks]
  <2> DEFINE new == [units |-> Refilled(bucket[k]) - TokenTicks,
                     idle |-> 0, kept |-> TRUE]
  <2>1. new \in Buckets /\ ideal[k] - TokenTicks \in 0..Full
        /\ Covered(new, ideal[k] - TokenTicks)
    BY <1>1, <1>2, Sizes DEF Buckets, Covered, Refilled, AtMost
  <2>2. bucket' = [bucket EXCEPT ![k] = new]
    BY <1>2
  <2> HIDE DEF new
  <2> QED BY <1>2, <2>1, <2>2 DEF LimiterInv
<1>3. CASE /\ Refilled(bucket[k]) < TokenTicks
           /\ bucket' = [bucket EXCEPT ![k] = Refused(@)]
           /\ UNCHANGED ideal
  <2>1. Refused(bucket[k]) \in Buckets /\ Covered(Refused(bucket[k]), ideal[k])
    BY <1>1, Sizes DEF Buckets, Covered, Refused, Refilled, AtMost
  <2> QED BY <1>3, <2>1 DEF LimiterInv
<1> QED BY <1>2, <1>3 DEF Consume

LEMMA ResetOK ==
  ASSUME LimiterInv, NEW k \in Keepers, Reset(k)
  PROVE  LimiterInv'
<1>1. NoBucket \in Buckets /\ Full \in 0..Full /\ Covered(NoBucket, Full)
  BY Sizes DEF NoBucket, Buckets, Covered, Refilled, AtMost
<1> QED BY <1>1 DEF Reset, LimiterInv

\* What is left of the budget and the gift fill the bucket that is forgotten.
LEMMA LimiterSweepOK ==
  ASSUME LimiterInv, NEW k \in Keepers, Sweep(k)
  PROVE  LimiterInv'
<1>1. /\ bucket[k] \in Buckets /\ ideal[k] \in 0..Full
      /\ Refilled(bucket[k]) <= ideal[k] /\ bucket[k].idle > KeepTicks(k)
  BY DEF LimiterInv, Covered, Sweep
<1>2. KeepTicks(k) \in Nat
  BY Sizes DEF KeepTicks
<1>3. AtMost(Full, ideal[k] + Gift(k)) = Full
  BY <1>1, <1>2, Sizes DEF Gift, Buckets, Refilled, AtMost
<1>4. NoBucket \in Buckets /\ Full \in 0..Full /\ Covered(NoBucket, Full)
  BY Sizes DEF NoBucket, Buckets, Covered, Refilled, AtMost
<1>5. /\ bucket' = [bucket EXCEPT ![k] = NoBucket]
      /\ ideal' = [ideal EXCEPT ![k] = Full]
  BY <1>3 DEF Sweep
<1> QED BY <1>4, <1>5 DEF LimiterInv

LEMMA LimiterTickOK == LimiterInv /\ LimiterTick => LimiterInv'
<1> SUFFICES ASSUME LimiterInv, LimiterTick PROVE LimiterInv'
  OBVIOUS
<1>1. ASSUME NEW k \in Keepers
      PROVE  /\ bucket'[k] \in Buckets /\ ideal'[k] \in 0..Full
             /\ Covered(bucket'[k], ideal'[k])
  <2>1. /\ bucket[k] \in Buckets /\ ideal[k] \in 0..Full
        /\ Covered(bucket[k], ideal[k])
        /\ KeepTicks(k) \in Nat /\ KeepTicks(k) >= 0
    BY Sizes DEF LimiterInv, KeepTicks
  <2>2. ideal'[k] = AtMost(Full, ideal[k] + 1)
    BY DEF LimiterTick
  <2>3. CASE ~bucket[k].kept
    BY <2>1, <2>2, <2>3, Sizes
       DEF LimiterTick, Covered, NoBucket, Buckets, Refilled, AtMost
  <2>4. CASE bucket[k].kept
    <3> DEFINE new == [bucket[k] EXCEPT !.idle = AtMost(KeepTicks(k) + Full + 1, @ + 1)]
    <3>1. bucket'[k] = new
      BY <2>4 DEF LimiterTick
    <3>2. new \in Buckets /\ new.kept
      BY <2>1, <2>4, Sizes DEF Buckets, AtMost
    <3>3. Refilled(new) <= AtMost(Full, ideal[k] + 1)
      BY <2>1, Sizes DEF Buckets, Covered, Refilled, AtMost
    <3>4. AtMost(Full, ideal[k] + 1) \in 0..Full
      BY <2>1, Sizes DEF AtMost
    <3> QED BY <2>2, <3>1, <3>2, <3>3, <3>4 DEF Covered
  <2> QED BY <2>3, <2>4
<1> QED BY <1>1 DEF LimiterInv, LimiterTick

LEMMA LimiterInvariance == LimiterSpec => []LimiterInv
<1>1. LimiterInv /\ [LimiterNext]_limits => LimiterInv'
  <2> SUFFICES ASSUME LimiterInv, [LimiterNext]_limits PROVE LimiterInv'
    OBVIOUS
  <2>1. CASE UNCHANGED limits
    BY <2>1 DEF limits, LimiterInv
  <2> QED BY <2>1, LimiterTickOK, ConsumeOK, ResetOK, LimiterSweepOK DEF LimiterNext
<1> QED BY <1>1, LimiterInitOK, PTL DEF LimiterSpec

\* For every rule, nothing adds to a keeper's budget but time, a reset and the
\* gift of a sweep.  (consume, CONSUME_LUA, sweep)
THEOREM BudgetKept == LimiterSpec => []WithinBudget
<1>1. LimiterInv => WithinBudget
  <2> SUFFICES ASSUME LimiterInv, NEW k \in Keepers PROVE ideal[k] >= 0
    BY DEF WithinBudget
  <2>1. ideal[k] \in 0..Full
    BY DEF LimiterInv
  <2> QED BY <2>1, Sizes
<1> QED BY <1>1, LimiterInvariance, PTL

-----------------------------------------------------------------------------
(* The pool of keys, for any number of keys and of callers that share its  *)
(* cursor.                                                                 *)

CallSpec == CallInit /\ [][CallNext]_calls

\* A call has gone round from the key it started at, and not past the last one.
AskedInTurn(k) ==
  /\ k.start \in 0..(keys - 1)
  /\ k.asked \in Seq(Nat)
  /\ Len(k.asked) \in 1..keys
  /\ \A i \in 1..Len(k.asked) : k.asked[i] = KeyOf(k.start, i - 1)

CallOK(c) ==
  /\ call[c].at = "asking" => keys \in Nat \ {0} /\ AskedInTurn(call[c])
  /\ call[c].because = "no key left" =>
       keys \in Nat \ {0} /\ AskedInTurn(call[c]) /\ Len(call[c].asked) = keys

CallRequest ==
  [at : {"idle", "asking"}, offered : Nat, start : Nat, asked : Seq(Nat),
   aborted : BOOLEAN, decision : Nat,
   because : {"none", "forced", "unconfigured", "answer", "bad answer", "clock",
              "failed", "no key left"}]

CallInv ==
  /\ provider \in {"groq", "gemini", "none"}
  /\ keys \in Nat
  /\ provider # "none" => keys > 0
  /\ cursor \in Nat
  /\ keys > 0 => cursor < keys
  /\ call \in [Callers -> CallRequest]
  /\ \A c \in Callers : CallOK(c)
-----------------------------------------------------------------------------
\* Once round, and every key has been asked.
LEMMA Wrap ==
  ASSUME NEW k \in Nat \ {0}, NEW a \in 0..(k - 1), NEW i \in 0..(k - 1)
  PROVE  (a + i) % k = IF a + i < k THEN a + i ELSE a + i - k
<1>1. ASSUME NEW x \in 0..(k - 1) PROVE x % k = x
  BY SMTT(30)
<1>2. ASSUME NEW x \in 0..(k - 1) PROVE (x + k) % k = x
  BY SMTT(30)
<1> QED BY <1>1, <1>2

LEMMA RoundIsComplete ==
  ASSUME NEW n \in Nat \ {0}, NEW a \in 0..(n - 1),
         NEW s \in Seq(Nat), Len(s) = n,
         \A i \in 1..n : s[i] = (a + (i - 1)) % n
  PROVE  ToSet(s) = 0..(n - 1)
<1>1. ASSUME NEW i \in 1..n
      PROVE  s[i] = IF a + (i - 1) < n THEN a + (i - 1) ELSE a + (i - 1) - n
  <2>1. i - 1 \in 0..(n - 1)
    OBVIOUS
  <2> QED BY <2>1, Wrap
<1>2. ASSUME NEW x \in 0..(n - 1) PROVE \E i \in 1..n : s[i] = x
  <2>1. CASE x >= a
    <3>1. x - a + 1 \in 1..n /\ a + ((x - a + 1) - 1) = x
      BY <2>1
    <3>2. s[x - a + 1] = x
      BY <1>1, <3>1
    <3> QED BY <3>1, <3>2
  <2>2. CASE x < a
    <3>1. x - a + n + 1 \in 1..n /\ a + ((x - a + n + 1) - 1) = x + n
      BY <2>2
    <3>2. s[x - a + n + 1] = x
      BY <1>1, <3>1
    <3> QED BY <3>1, <3>2
  <2> QED BY <2>1, <2>2
<1>3. ASSUME NEW i \in 1..n PROVE s[i] \in 0..(n - 1)
  <2>1. i - 1 \in 0..(n - 1) /\ s[i] = IF a + (i - 1) < n THEN a + (i - 1)
                                        ELSE a + (i - 1) - n
    BY <1>1
  <2> QED BY <2>1
<1>4. ToSet(s) = {s[i] : i \in 1..n}
  <2>1. DOMAIN s = 1..n
    OBVIOUS
  <2> QED BY <2>1, Zenon DEF ToSet
<1>5. {s[i] : i \in 1..n} \subseteq 0..(n - 1)
  BY <1>3, Zenon
<1>6. 0..(n - 1) \subseteq {s[i] : i \in 1..n}
  BY <1>2, Zenon
<1> QED BY <1>4, <1>5, <1>6, Zenon
-----------------------------------------------------------------------------
LEMMA NoCallOK ==
  NoCall \in CallRequest /\ NoCall.at = "idle" /\ NoCall.because = "none"
<1>1. <<>> \in Seq(Nat)
  OBVIOUS
<1> QED BY <1>1 DEF NoCall, CallRequest

LEMMA CallInitOK == CallInit => CallInv
<1> SUFFICES ASSUME CallInit PROVE CallInv
  OBVIOUS
<1>1. \A c \in Callers : CallOK(c)
  BY NoCallOK DEF CallInit, CallOK
<1>2. call \in [Callers -> CallRequest]
  BY NoCallOK DEF CallInit
<1>3. /\ provider \in {"groq", "gemini", "none"} /\ keys \in Nat
      /\ provider # "none" => keys > 0
  BY CallAssumption DEF CallInit
<1> QED BY <1>1, <1>2, <1>3 DEF CallInit, CallInv

\* A call that ends or stays out of the pool says nothing of the keys.
LEMMA OthersOK ==
  ASSUME CallInv, NEW c \in Callers, NEW new \in CallRequest,
         call' = [call EXCEPT ![c] = new],
         UNCHANGED <<provider, serves, keys>>,
         cursor' \in Nat, keys > 0 => cursor' < keys,
         new.at = "asking" => keys \in Nat \ {0} /\ AskedInTurn(new),
         new.because = "no key left" =>
           keys \in Nat \ {0} /\ AskedInTurn(new) /\ Len(new.asked) = keys
  PROVE  CallInv'
BY DEF CallInv, CallOK, AskedInTurn, KeyOf

LEMMA EndOK ==
  ASSUME CallInv, NEW c \in Callers, NEW decision \in Nat,
         NEW because \in {"answer", "bad answer", "clock", "failed", "no key left"},
         End(c, decision, because), UNCHANGED <<provider, serves, keys, cursor>>,
         call[c].at = "asking",
         because = "no key left" => Len(call[c].asked) = keys
  PROVE  CallInv'
<1> DEFINE new == [[[call[c] EXCEPT !.at = "idle"] EXCEPT !.decision = decision]
                     EXCEPT !.because = because]
<1>1. call[c] \in CallRequest /\ keys \in Nat \ {0} /\ AskedInTurn(call[c])
  BY DEF CallInv, CallOK
<1>2. /\ new \in CallRequest /\ new.at = "idle" /\ new.because = because
      /\ new.asked = call[c].asked /\ new.start = call[c].start
  BY <1>1 DEF CallRequest
<1>3. call' = [call EXCEPT ![c] = new]
  BY DEF End, CallInv
<1> HIDE DEF new
<1>4. cursor \in Nat /\ (keys > 0 => cursor < keys)
  BY DEF CallInv
<1> QED BY <1>1, <1>2, <1>3, <1>4, OthersOK DEF AskedInTurn

LEMMA AskOK ==
  ASSUME CallInv, NEW c \in Callers, Ask(c)
  PROVE  CallInv'
<1>1. PICK n \in Offers :
        LET new == [NoCall EXCEPT !.offered = n] IN
        \/ /\ \E because \in {"forced", "unconfigured"} :
                call' = [call EXCEPT ![c] =
                  [new EXCEPT !.decision = 1, !.because = because]]
           /\ UNCHANGED cursor
        \/ /\ provider # "none"
           /\ call' = [call EXCEPT ![c] = [new EXCEPT !.at = "asking", !.start = cursor,
                                                      !.asked = <<KeyOf(cursor, 0)>>]]
           /\ cursor' = (cursor + 1) % keys
  BY DEF Ask, CallInv
<1>2. n \in Nat
  BY CallAssumption DEF Offers
<1>3. keys \in Nat /\ cursor \in Nat /\ (keys > 0 => cursor < keys)
      /\ UNCHANGED <<provider, serves, keys>>
  BY DEF CallInv, Ask
<1>4. ASSUME NEW because \in {"forced", "unconfigured"}, UNCHANGED cursor,
             call' = [call EXCEPT ![c] =
               [NoCall EXCEPT !.offered = n, !.decision = 1, !.because = because]]
      PROVE  CallInv'
  <2> DEFINE new == [NoCall EXCEPT !.offered = n, !.decision = 1, !.because = because]
  <2>1. new \in CallRequest /\ new.at = "idle" /\ new.because # "no key left"
    BY <1>2, NoCallOK DEF CallRequest
  <2> HIDE DEF new
  <2> QED BY <1>3, <1>4, <2>1, OthersOK DEF new
<1>5. CASE /\ provider # "none"
           /\ call' = [call EXCEPT ![c] =
                [NoCall EXCEPT !.offered = n, !.at = "asking", !.start = cursor,
                               !.asked = <<KeyOf(cursor, 0)>>]]
           /\ cursor' = (cursor + 1) % keys
  <2> DEFINE new == [NoCall EXCEPT !.offered = n, !.at = "asking", !.start = cursor,
                                   !.asked = <<KeyOf(cursor, 0)>>]
  <2>1. keys \in Nat \ {0} /\ cursor \in 0..(keys - 1)
    BY <1>3, <1>5 DEF CallInv
  <2>2. KeyOf(cursor, 0) \in Nat /\ cursor' \in Nat /\ cursor' < keys
    BY <1>5, <2>1 DEF KeyOf
  <2>3. /\ new \in CallRequest /\ new.because = "none" /\ new.start = cursor
        /\ new.asked = <<KeyOf(cursor, 0)>>
    <3>1. <<KeyOf(cursor, 0)>> \in Seq(Nat)
      BY <2>2
    <3>2. cursor \in Nat
      BY <2>1
    <3> QED BY <1>2, <3>1, <3>2, NoCallOK DEF CallRequest
  <2> HIDE DEF new
  <2>4. AskedInTurn(new)
    BY <2>1, <2>2, <2>3 DEF AskedInTurn
  <2>5. call' = [call EXCEPT ![c] = new]
    BY <1>5 DEF new
  <2>6. UNCHANGED <<provider, serves, keys>> /\ keys \in Nat \ {0}
    BY <1>3, <2>1
  <2> QED BY <2>2, <2>3, <2>4, <2>5, <2>6, OthersOK
<1> QED BY <1>1, <1>4, <1>5

\* The next key continues the round.
LEMMA CallFailsOK ==
  ASSUME CallInv, NEW c \in Callers, CallFails(c)
  PROVE  CallInv'
<1>1. /\ call[c] \in CallRequest /\ keys \in Nat \ {0} /\ AskedInTurn(call[c])
      /\ call[c].at = "asking" /\ Fallback(c) \in Nat
      /\ UNCHANGED <<provider, serves, keys, cursor>>
      /\ cursor \in Nat /\ cursor < keys
  <2>1. call[c].at = "asking" /\ UNCHANGED <<provider, serves, keys, cursor>>
    BY DEF CallFails
  <2>2. CallOK(c) /\ call[c] \in CallRequest
    BY DEF CallInv
  <2>3. keys \in Nat /\ cursor \in Nat /\ (keys > 0 => cursor < keys)
    BY DEF CallInv
  <2>4. keys \in Nat \ {0} /\ AskedInTurn(call[c])
    BY <2>1, <2>2 DEF CallOK
  <2>5. Fallback(c) \in Nat
    BY DEF Fallback
  <2>6. cursor < keys
    BY <2>3, <2>4
  <2> QED BY <2>1, <2>2, <2>3, <2>4, <2>5, <2>6
<1>2. PICK failure \in Failures :
        IF /\ IsWorthRetryingOnAnotherKey(failure)
           /\ ~call[c].aborted
           /\ Len(call[c].asked) < keys
        THEN call' = [call EXCEPT ![c].asked = Append(@, KeyOf(call[c].start, Len(@)))]
        ELSE End(c, Fallback(c), IF call[c].aborted THEN "clock"
                                 ELSE IF IsWorthRetryingOnAnotherKey(failure)
                                 THEN "no key left" ELSE "failed")
  BY DEF CallFails
<1>3. CASE Len(call[c].asked) < keys /\
           call' = [call EXCEPT ![c].asked = Append(@, KeyOf(call[c].start, Len(@)))]
  <2> DEFINE old == call[c].asked
             next == KeyOf(call[c].start, Len(old))
             new == [call[c] EXCEPT !.asked = Append(old, next)]
  <2>1. old \in Seq(Nat) /\ Len(old) \in 1..(keys - 1) /\ call[c].start \in Nat
    BY <1>1, <1>3 DEF AskedInTurn
  <2>2. next \in Nat
    BY <1>1, <2>1 DEF KeyOf
  <2>3. /\ Append(old, next) \in Seq(Nat) /\ Len(Append(old, next)) = Len(old) + 1
        /\ \A i \in 1..Len(old) : Append(old, next)[i] = old[i]
        /\ Append(old, next)[Len(old) + 1] = next
    BY <2>1, <2>2
  <2>4. new \in CallRequest /\ new.start = call[c].start /\ new.asked = Append(old, next)
        /\ new.at = "asking" /\ new.because = call[c].because
    BY <1>1, <2>3 DEF CallRequest
  <2>5. ASSUME NEW i \in 1..(Len(old) + 1)
        PROVE  Append(old, next)[i] = KeyOf(call[c].start, i - 1)
    <3>1. \A j \in 1..Len(old) : old[j] = KeyOf(call[c].start, j - 1)
      BY <1>1 DEF AskedInTurn
    <3>2. CASE i \in 1..Len(old)
      BY <2>3, <3>1, <3>2
    <3>3. CASE i = Len(old) + 1
      <4>1. i - 1 = Len(old)
        BY <2>1, <3>3
      <4> QED BY <2>3, <3>3, <4>1
    <3>4. i \in 1..Len(old) \/ i = Len(old) + 1
      BY <2>1
    <3> QED BY <3>2, <3>3, <3>4
  <2>6. AskedInTurn(new)
    <3> DEFINE s == Append(old, next)
    <3>1. /\ s \in Seq(Nat) /\ Len(s) \in 1..keys /\ Len(s) = Len(old) + 1
          /\ call[c].start \in 0..(keys - 1)
      BY <1>1, <2>1, <2>3 DEF AskedInTurn
    <3> HIDE DEF s, new
    <3>2. \A i \in 1..Len(s) : s[i] = KeyOf(call[c].start, i - 1)
      BY <2>5, <3>1 DEF s
    <3> QED BY <2>4, <3>1, <3>2 DEF AskedInTurn, s
  <2>7. call[c].because # "no key left"
    <3>1. CallOK(c)
      BY DEF CallInv
    <3>2. Len(call[c].asked) # keys
      BY <1>1, <2>1
    <3> QED BY <3>1, <3>2 DEF CallOK
  <2>8. call' = [call EXCEPT ![c] = new]
    BY <1>3 DEF CallInv
  <2> HIDE DEF new
  <2>9. cursor' \in Nat /\ (keys > 0 => cursor' < keys)
        /\ UNCHANGED <<provider, serves, keys>>
    BY <1>1
  <2> QED BY <1>1, <2>4, <2>6, <2>7, <2>8, <2>9, OthersOK
<1>4. CASE /\ ~(IsWorthRetryingOnAnotherKey(failure) /\ ~call[c].aborted
                  /\ Len(call[c].asked) < keys)
           /\ End(c, Fallback(c), IF call[c].aborted THEN "clock"
                                  ELSE IF IsWorthRetryingOnAnotherKey(failure)
                                  THEN "no key left" ELSE "failed")
  <2>1. Len(call[c].asked) \in 1..keys
    BY <1>1 DEF AskedInTurn
  <2>2. ASSUME ~call[c].aborted, IsWorthRetryingOnAnotherKey(failure)
        PROVE  Len(call[c].asked) = keys
    <3>1. ~(Len(call[c].asked) < keys)
      BY <1>4, <2>2
    <3> QED BY <1>1, <2>1, <3>1
  <2> QED BY <1>1, <1>4, <2>2, EndOK
<1> QED BY <1>2, <1>3, <1>4

LEMMA OtherCallsOK ==
  ASSUME CallInv, NEW c \in Callers, Answered(c) \/ OnlyKeyFails(c) \/ ClockRunsOut(c)
  PROVE  CallInv'
<1>1. call[c] \in CallRequest /\ call[c].at = "asking" /\ Fallback(c) \in Nat
  BY DEF Answered, OnlyKeyFails, ClockRunsOut, CallInv, Fallback
<1>2. CASE Answered(c)
  <2>0. call[c].offered \in Nat
    BY <1>1 DEF CallRequest
  <2>1. \A m \in 1..call[c].offered : m \in Nat
    BY <2>0
  <2> QED BY <1>1, <1>2, <2>1, EndOK DEF Answered
<1>3. CASE OnlyKeyFails(c)
  BY <1>1, <1>3, EndOK DEF OnlyKeyFails
<1>4. CASE ClockRunsOut(c)
  <2> DEFINE new == [call[c] EXCEPT !.aborted = TRUE]
  <2>1. /\ new \in CallRequest /\ new.at = call[c].at /\ new.because = call[c].because
        /\ new.asked = call[c].asked /\ new.start = call[c].start
    BY <1>1 DEF CallRequest
  <2>2. call' = [call EXCEPT ![c] = new]
    BY <1>4 DEF ClockRunsOut
  <2> HIDE DEF new
  <2>3. CallOK(c) /\ cursor \in Nat /\ (keys > 0 => cursor < keys)
    BY DEF CallInv
  <2>4. AskedInTurn(call[c]) => AskedInTurn(new)
    BY <2>1 DEF AskedInTurn
  <2>5. /\ new.at = "asking" => keys \in Nat \ {0} /\ AskedInTurn(new)
        /\ new.because = "no key left" =>
             keys \in Nat \ {0} /\ AskedInTurn(new) /\ Len(new.asked) = keys
    BY <2>1, <2>3, <2>4 DEF CallOK
  <2>6. UNCHANGED <<provider, serves, keys>> /\ UNCHANGED cursor
    BY <1>4 DEF ClockRunsOut
  <2> QED
    BY <2>1, <2>2, <2>3, <2>5, <2>6, OthersOK
<1> QED BY <1>2, <1>3, <1>4

LEMMA CallStepOK == CallInv /\ [CallNext]_calls => CallInv'
<1> SUFFICES ASSUME CallInv, [CallNext]_calls PROVE CallInv'
  OBVIOUS
<1>1. CASE UNCHANGED calls
  BY <1>1 DEF calls, CallInv, CallOK, AskedInTurn, KeyOf
<1> QED BY <1>1, AskOK, CallFailsOK, OtherCallsOK DEF CallNext

LEMMA CallInvariance == CallSpec => []CallInv
BY CallInitOK, CallStepOK, PTL DEF CallSpec

\* A call that gives up for want of keys has asked each key of the pool once.
\* (GroqProvider.chat)
THEOREM NoKeySkipped == CallSpec => []EveryKeyIsTried
<1>1. CallInv => EveryKeyIsTried
  <2> SUFFICES ASSUME CallInv, NEW c \in Callers, call[c].because = "no key left"
               PROVE  /\ Len(call[c].asked) = keys
                      /\ ToSet(call[c].asked) = 0..(keys - 1)
    BY DEF EveryKeyIsTried
  <2>0. CallOK(c) /\ keys \in Nat
    BY DEF CallInv
  <2>1. keys \in Nat \ {0} /\ AskedInTurn(call[c]) /\ Len(call[c].asked) = keys
    BY <2>0 DEF CallOK
  <2> QED BY <2>1, RoundIsComplete DEF AskedInTurn, KeyOf
<1> QED BY <1>1, CallInvariance, PTL
=============================================================================
