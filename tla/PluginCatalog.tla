--------------------------- MODULE PluginCatalog ---------------------------
(***************************************************************************)
(* The imported games: core/plugin/plugin-manager.ts over the plugin       *)
(* repository, as http/plugin-routes.ts and the designer call it.  Each    *)
(* node keeps what it has loaded and never drops it unless it deletes the  *)
(* game itself.  Built-in games, which nobody may change, are left out.    *)
(*                                                                         *)
(* An action is a stretch of a request's handler together with the call of *)
(* the store it then waits for, whose answer the request carries along.    *)
(***************************************************************************)
EXTENDS Naturals, FiniteSets, Sequences

CONSTANTS
  Nodes,      \* backend processes
  Users,
  Requests,   \* requests in flight at a time
  Games,      \* ids the repository mints, each once
  None

ASSUME CatalogAssumption == None \notin Users \cup Games

VARIABLES
  owner,      \* history: who imported a game, None while its id is not minted
  stored,     \* the games in the repository
  loaded,     \* per node: the games in its memory
  req,        \* the requests in flight
  shown       \* history: what was handed to whom, pairs of a user and a game

catalog == <<owner, stored, loaded, shown>>

\* The step a request has reached, the node it runs on, its user, the game it
\* names, whether the store has it, and the games a listing found.  The rest
\* belongs to the designer.
NoRequest ==
  [op |-> "none", at |-> "none", node |-> None, user |-> None, game |-> None,
   found |-> FALSE, listed |-> {}, session |-> None, doc |-> None, draft |-> None,
   tries |-> 0]

At(r, at) == req[r].at = at
Answer(r) == req' = [req EXCEPT ![r] = NoRequest]
Goto(r, at) == req' = [req EXCEPT ![r].at = at]

Minted == {g \in Games : owner[g] # None}
OwnedBy(u) == {g \in stored : owner[g] = u}

Load(n, gs) == loaded' = [loaded EXCEPT ![n] = @ \cup gs]
Show(u, gs) == shown' = shown \cup ({u} \X gs)

Arrives(r, new) == req[r] = NoRequest /\ req' = [req EXCEPT ![r] = new]

CatalogRequest(op, at, n, u, g) ==
  [NoRequest EXCEPT !.op = op, !.at = at, !.node = n, !.user = u, !.game = g]
-----------------------------------------------------------------------------
(* Reading.                                                                *)

\* Mutant of ShownFromMemory: a game in memory is anybody's.
ShownFromMemoryToAll(n, u, g) == g \in loaded[n]

\* getVisible finds a game in memory, if it is this user's.
ShownFromMemory(n, u, g) == g \in loaded[n] /\ owner[g] = u

\* getVisible, for the editor or to open a room.
GetArrives(r) ==
  \E n \in Nodes, u \in Users, g \in Minted :
    /\ req[r] = NoRequest
    /\ \/ ShownFromMemory(n, u, g) /\ Show(u, {g}) /\ UNCHANGED req
       \/ g \notin loaded[n] /\ UNCHANGED shown
          /\ Arrives(r, [CatalogRequest("get", "fetched", n, u, g)
                           EXCEPT !.found = g \in stored])
    /\ UNCHANGED <<owner, stored, loaded>>

Fetched(r) ==
  LET q == req[r] IN
  /\ At(r, "fetched")
  /\ IF q.found /\ owner[q.game] = q.user
     THEN Load(q.node, {q.game}) /\ Show(q.user, {q.game})
     ELSE UNCHANGED <<loaded, shown>>
  /\ Answer(r)
  /\ UNCHANGED <<owner, stored>>

\* summaries: LIST_GAMES, and the answer to an import or an update.
ListArrives(r) ==
  \E n \in Nodes, u \in Users :
    /\ Arrives(r, [CatalogRequest("list", "listed", n, u, None) EXCEPT !.listed = OwnedBy(u)])
    /\ UNCHANGED catalog

Listed(r) ==
  LET q == req[r] IN
  /\ At(r, "listed")
  /\ Load(q.node, q.listed)
  /\ Show(q.user, {g \in loaded'[q.node] : owner[g] = q.user})
  /\ Answer(r)
  /\ UNCHANGED <<owner, stored>>
-----------------------------------------------------------------------------
(* Writing.                                                                *)

\* importPlugin of a well-formed document: the repository mints an id.  The
\* games of a finished write are loaded in the step that follows.
Mint(r, q, at) ==
  \E g \in Games \ Minted :
    /\ owner' = [owner EXCEPT ![g] = q.user]
    /\ stored' = stored \cup {g}
    /\ req' = [req EXCEPT ![r] = [q EXCEPT !.game = g, !.at = at]]
    /\ UNCHANGED <<loaded, shown>>

ImportArrives(r) ==
  \E n \in Nodes, u \in Users :
    req[r] = NoRequest /\ Mint(r, CatalogRequest("import", "none", n, u, None), "saved")

\* updatePlugin and deletePlugin first ask the store whose game it is.
ChangeArrives(r) ==
  \E n \in Nodes, u \in Users, g \in Minted, op \in {"update", "delete"} :
    /\ Arrives(r, [CatalogRequest(op, "checked", n, u, g) EXCEPT !.found = g \in stored])
    /\ UNCHANGED catalog

MayChange(q) == q.found /\ owner[q.game] = q.user

\* The repository's update changes the document if there is one.
Written(g) == stored

Write(r, at) ==
  /\ stored' = Written(req[r].game)
  /\ Goto(r, at)
  /\ UNCHANGED <<owner, loaded, shown>>

Checked(r) ==
  /\ At(r, "checked")
  /\ \/ /\ req[r].op \in {"update", "delete"} /\ ~MayChange(req[r])
        /\ Answer(r) /\ UNCHANGED catalog
     \/ /\ req[r].op = "update" /\ MayChange(req[r])
        /\ Write(r, "saved")
     \/ /\ req[r].op = "delete" /\ MayChange(req[r])
        /\ stored' = stored \ {req[r].game}
        /\ Goto(r, "deleted")
        /\ UNCHANGED <<owner, loaded, shown>>

\* The game is loaded, and the answer looks it up among its owner's.
Saved(r) ==
  /\ At(r, "saved")
  /\ Load(req[r].node, {req[r].game})
  /\ req' = [req EXCEPT ![r].at = "listed", ![r].listed = OwnedBy(req[r].user)]
  /\ UNCHANGED <<owner, stored, shown>>

Deleted(r) ==
  /\ At(r, "deleted")
  /\ loaded' = [loaded EXCEPT ![req[r].node] = @ \ {req[r].game}]
  /\ Answer(r)
  /\ UNCHANGED <<owner, stored, shown>>

CatalogInit ==
  /\ owner = [g \in Games |-> None]
  /\ stored = {}
  /\ loaded = [n \in Nodes |-> {}]
  /\ req = [r \in Requests |-> NoRequest]
  /\ shown = {}

CatalogArrival(r) ==
  GetArrives(r) \/ ListArrives(r) \/ ImportArrives(r) \/ ChangeArrives(r)

CatalogWork(r) ==
  Fetched(r) \/ Listed(r) \/ Checked(r) \/ Saved(r) \/ Deleted(r)
-----------------------------------------------------------------------------
\* An imported game is handed to its importer only, whichever node keeps it in
\* memory and whoever else asks for it there.  ("A private plugin is only ever
\* returned to its owner", getVisible 226-247; summaries 258-278)
PrivateStaysPrivate == \A p \in shown : owner[p[2]] = p[1]

\* Once every request is answered, no node has a deleted game to open a match
\* of ("it only prevents *new* matches of it", deletePlugin 352-354).  getVisible
\* serves what is in the node's memory, which a deletion on another node leaves
\* alone, and in which a write or a listing in flight puts the game back.
DeletedIsNotServed ==
  (\A r \in Requests : req[r] = NoRequest) => \A n \in Nodes : loaded[n] \subseteq stored
=============================================================================
