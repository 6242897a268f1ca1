--------------------------- MODULE DesignSessions ---------------------------
(***************************************************************************)
(* The game designer: core/authoring/design-service.ts over the session    *)
(* repository, the model's drafting loop (game-designer.ts), the gate      *)
(* drafts pass (draft-validator.ts) and the plugin catalogue.              *)
(*                                                                         *)
(* Every change loads the whole session, waits (for the model, or for the  *)
(* catalogue) and writes the whole session back.  A revision is its draft, *)
(* an identity and the verdict of validateDraft; numbers are left out.     *)
(* That http/design-routes.ts may refuse a draft for want of budget        *)
(* (RateLimiter) changes nothing here.                                     *)
(***************************************************************************)
EXTENDS PluginCatalog, SequencesExt

CONSTANTS
  Sessions,      \* ids the session repository mints, each once
  MaxSessions,   \* MAX_SESSIONS_PER_USER (50)
  MaxRevisions,  \* MAX_REVISIONS_PER_SESSION (40)
  MaxRepairs,    \* DEFAULT_MAX_REPAIR_ATTEMPTS (2)
  Gone,          \* a session that has been deleted
  MaxDrafts      \* bound: drafts that are asked for or written

ASSUME DesignAssumption == None # Gone /\ None \notin Sessions

VARIABLES
  session,   \* the session documents; None before an id is minted
  drafts     \* drafts asked for or written so far

vars == <<catalog, req, session, drafts>>

Verdict == {"flawed", "valid"}

Documents == {s \in Sessions : session[s] \notin {None, Gone}}

\* load: somebody else's session is as unknown as one that is not there.
CanLoad(s, u) == s \in Documents /\ session[s].owner = u

\* appendRevision keeps the latest.
Appended(revisions, draft) ==
  LET all == Append(revisions, draft) IN
  IF Len(all) > MaxRevisions THEN Tail(all) ELSE all

\* Mutant of Updated: the repository's update writes a session that is no longer there.
UpdatedAnew(s, doc) == [session EXCEPT ![s] = doc]

Updated(s, doc) == IF s \in Documents THEN [session EXCEPT ![s] = doc] ELSE session

\* commit: append to the session that was loaded, and write it back.
Commit(r, draft) ==
  LET q == req[r] IN
  /\ session' = Updated(q.session, [q.doc EXCEPT !.revisions = Appended(@, draft)])
  /\ Answer(r)

DesignRequest(op, at, n, u, s) ==
  [NoRequest EXCEPT !.op = op, !.at = at, !.node = n, !.user = u, !.session = s,
                    !.doc = IF s = None THEN None ELSE session[s]]

\* A new draft has an identity of its own.
Draft(id, verdict) == [id |-> id, verdict |-> verdict]
-----------------------------------------------------------------------------
(* Requests arrive; the session is loaded.                                 *)

\* createSession counts the user's sessions before the model is asked.
CreateArrives(r) ==
  \E n \in Nodes, u \in Users :
    /\ drafts < MaxDrafts
    /\ Cardinality({s \in Documents : session[s].owner = u}) < MaxSessions
    /\ Arrives(r, [DesignRequest("create", "drafting", n, u, None) EXCEPT !.draft = drafts + 1])
    /\ drafts' = drafts + 1
    /\ UNCHANGED <<catalog, session>>

\* refine, applyManualEdit and revert of a session that can be loaded.  An edit
\* needs no model: its draft is there and has only to be judged.
ChangeSessionArrives(r) ==
  \E n \in Nodes, u \in Users, s \in Documents :
    /\ CanLoad(s, u)
    /\ \/ /\ drafts < MaxDrafts
          /\ \E op \in {"refine", "edit"} :
               Arrives(r, [DesignRequest(op, IF op = "refine" THEN "drafting" ELSE "loaded",
                                         n, u, s) EXCEPT !.draft = drafts + 1])
          /\ drafts' = drafts + 1
       \/ /\ \E k \in DOMAIN session[s].revisions :
               Arrives(r, [DesignRequest("revert", "loaded", n, u, s)
                             EXCEPT !.draft = session[s].revisions[k]])
          /\ UNCHANGED drafts
    /\ UNCHANGED <<catalog, session>>

PublishArrives(r) ==
  \E n \in Nodes, u \in Users, s \in Documents :
    /\ CanLoad(s, u)
    /\ Arrives(r, DesignRequest("publish", "loaded", n, u, s))
    /\ UNCHANGED <<catalog, session, drafts>>

DiscardArrives(r) ==
  \E n \in Nodes, u \in Users, s \in Documents :
    /\ CanLoad(s, u)
    /\ Arrives(r, DesignRequest("discard", "loaded", n, u, s))
    /\ UNCHANGED <<catalog, session, drafts>>
-----------------------------------------------------------------------------
(* The drafting loop of GameDesigner.design.                               *)

\* A call that fails or times out, or an answer that is no envelope with rules
\* in it, ends the request.
DraftingFails(r) ==
  /\ At(r, "drafting")
  /\ Answer(r)
  /\ UNCHANGED <<catalog, session, drafts>>

\* A draft with errors goes back to the model, a bounded number of times.
AskForRepair(r) ==
  /\ At(r, "drafting") /\ req[r].tries < MaxRepairs
  /\ req' = [req EXCEPT ![r].tries = @ + 1]
  /\ UNCHANGED <<catalog, session, drafts>>

\* The first valid draft, or the last one there is patience for.
DraftDone(r) ==
  \E v \in Verdict :
    LET draft == Draft(req[r].draft, v) IN
    /\ At(r, "drafting")
    /\ v # "valid" => req[r].tries = MaxRepairs
    /\ IF req[r].op = "create"
       THEN /\ \E s \in Sessions :
                 /\ session[s] = None
                 /\ session' = [session EXCEPT ![s] =
                      [owner |-> req[r].user, revisions |-> <<draft>>,
                       published |-> None]]
            /\ Answer(r)
       ELSE Commit(r, draft)
    /\ UNCHANGED <<catalog, drafts>>

CommitEdit(r) ==
  /\ At(r, "loaded") /\ req[r].op = "edit"
  /\ \E v \in Verdict : Commit(r, Draft(req[r].draft, v))
  /\ UNCHANGED <<catalog, drafts>>

CommitRevert(r) ==
  /\ At(r, "loaded") /\ req[r].op = "revert"
  /\ Commit(r, req[r].draft)
  /\ UNCHANGED <<catalog, drafts>>

Discard(r) ==
  /\ At(r, "loaded") /\ req[r].op = "discard"
  /\ session' = [session EXCEPT ![req[r].session] = Gone]
  /\ Answer(r)
  /\ UNCHANGED <<catalog, drafts>>
-----------------------------------------------------------------------------
(* publish.                                                                *)

\* The latest draft is judged again; then importOrUpdate, for the game this
\* session was published as, or a new one.
Publish(r) ==
  LET q == req[r]
      g == q.doc.published IN
  /\ At(r, "loaded") /\ q.op = "publish"
  /\ IF Last(q.doc.revisions).verdict # "valid" THEN Answer(r) /\ UNCHANGED catalog
     ELSE IF g = None THEN Mint(r, q, "published")
     ELSE /\ req' = [req EXCEPT ![r].at = "checked", ![r].game = g, ![r].found = g \in stored]
          /\ UNCHANGED catalog
  /\ UNCHANGED <<session, drafts>>

\* A game that has since been deleted is imported afresh.
Republish(r) ==
  /\ At(r, "checked") /\ req[r].op = "publish"
  /\ IF req[r].found THEN Write(r, "published") ELSE Mint(r, req[r], "published")
  /\ UNCHANGED <<session, drafts>>

\* The session that was loaded is written back with the game it became.
NotePublished(r) ==
  LET q == req[r] IN
  /\ At(r, "published")
  /\ Load(q.node, {q.game})
  /\ session' = Updated(q.session, [q.doc EXCEPT !.published = q.game])
  /\ Answer(r)
  /\ UNCHANGED <<owner, stored, shown, drafts>>

Init ==
  /\ CatalogInit
  /\ session = [s \in Sessions |-> None]
  /\ drafts = 0

DesignArrival(r) ==
  CreateArrives(r) \/ ChangeSessionArrives(r) \/ PublishArrives(r) \/ DiscardArrives(r)

DesignWork(r) ==
  \/ DraftingFails(r) \/ AskForRepair(r) \/ DraftDone(r) \/ CommitEdit(r)
  \/ CommitRevert(r) \/ Discard(r) \/ Publish(r) \/ Republish(r) \/ NotePublished(r)

Next ==
  \E r \in Requests :
    \/ (CatalogArrival(r) \/ CatalogWork(r)) /\ UNCHANGED <<session, drafts>>
    \/ DesignArrival(r) \/ DesignWork(r)

Spec == Init /\ [][Next]_vars
-----------------------------------------------------------------------------
\* No document of a deleted session or game is written again, though requests
\* that loaded it before are still at work on it.  A node's memory may still
\* serve a deleted game: see DeletedIsNotServed.  (the repositories' update,
\* "No-op if the id is unknown"; DesignService.delete 233-240, deletePlugin
\* 355-366)
DocumentsStayDeleted ==
  [][/\ \A s \in Sessions : session[s] = Gone => session'[s] = Gone
     /\ \A g \in Minted \ stored : g \notin stored']_vars

\* No revision is lost but by the cap.  ("nothing an author produced disappears
\* from under them", design-service.ts:18-19)
DraftIds(doc) == {doc.revisions[k].id : k \in DOMAIN doc.revisions}

NothingDisappears ==
  [][\A s \in Documents :
       session'[s] # Gone =>
         \/ DraftIds(session[s]) \subseteq DraftIds(session'[s])
         \/ Len(session[s].revisions) = MaxRevisions]_vars
=============================================================================
