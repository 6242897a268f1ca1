------------------------------ MODULE EventBus ------------------------------
(***************************************************************************)
(* Request and reply over the bus between nodes: core/cluster/event-bus.ts *)
(* as one node's bus sees it.  The asker keeps a table of pending requests *)
(* and one inbox for all replies; the node that serves them answers        *)
(* whatever its handler did.                                               *)
(*                                                                         *)
(* Redis hands a message to whoever is subscribed at that moment, or to    *)
(* nobody; any command to it may fail, the message delivered or not.       *)
(***************************************************************************)
EXTENDS FiniteSets, Naturals

CONSTANT Asks   \* requests, each made at most once

VARIABLES
  inbox,     \* replyReady: "none", "asked", "ready" or "failed", which is kept
  pending,   \* the table: requests whose timer runs
  ask,       \* per request: where the caller of request() is
  result,    \* per request: what its promise holds
  serving,   \* per request: the far end's side
  replies    \* replies on their way: <<request, kind>>

bus == <<inbox, pending, ask, result, serving, replies>>

\* `settled` promises: request() returns once its PUBLISH is over as well.
Returned(as, rs) ==
  [r \in Asks |-> IF as[r] = "waiting" /\ rs[r] # "open" THEN "done" ELSE as[r]]

Settle(rs) == result' = rs /\ ask' = Returned(ask, rs)

\* The timer and the table's entry come first, the PUBLISH after.
Registered(as, rs) ==
  /\ pending' = pending \cup rs
  /\ ask' = [r \in Asks |-> IF r \in rs THEN "publishing" ELSE as[r]]
-----------------------------------------------------------------------------
Request(r) ==
  /\ ask[r] = "idle"
  /\ \/ inbox = "ready" /\ Registered(ask, {r}) /\ UNCHANGED inbox
     \/ /\ inbox \in {"none", "asked"}
        /\ inbox' = "asked" /\ ask' = [ask EXCEPT ![r] = "inbox"]
        /\ UNCHANGED pending
     \/ inbox = "failed" /\ ask' = [ask EXCEPT ![r] = "failed"] /\ UNCHANGED <<inbox, pending>>
  /\ UNCHANGED <<result, serving, replies>>

AtInbox == {r \in Asks : ask[r] = "inbox"}

InboxSubscribed ==
  /\ inbox = "asked"
  /\ inbox' = "ready" /\ Registered(ask, AtInbox)
  /\ UNCHANGED <<result, serving, replies>>

SubscribeFails ==
  /\ inbox = "asked"
  /\ inbox' = "failed"
  /\ ask' = [r \in Asks |-> IF r \in AtInbox THEN "failed" ELSE ask[r]]
  /\ UNCHANGED <<pending, result, serving, replies>>

\* A SUBSCRIBE that was under way when the bus closed: its callers go on, but
\* the handler is in no table any more.
OldSubscribed(r) ==
  /\ ask[r] = "old inbox"
  /\ \/ Registered(ask, {r})
     \/ ask' = [ask EXCEPT ![r] = "failed"] /\ UNCHANGED pending
  /\ UNCHANGED <<inbox, result, serving, replies>>

Published(r) ==
  /\ ask[r] = "publishing"
  /\ ask' = Returned([ask EXCEPT ![r] = "waiting"], result)
  /\ serving' \in {serving, [serving EXCEPT ![r] = "asked"]}
  /\ UNCHANGED <<inbox, pending, result, replies>>

\* request() throws at once; the entry waits for its timer.
PublishFails(r) ==
  /\ ask[r] = "publishing"
  /\ ask' = [ask EXCEPT ![r] = "failed"]
  /\ serving' \in {serving, [serving EXCEPT ![r] = "asked"]}
  /\ UNCHANGED <<inbox, pending, result, replies>>

TimerFires(r) ==
  /\ r \in pending
  /\ pending' = pending \ {r}
  /\ Settle([result EXCEPT ![r] = "timeout"])
  /\ UNCHANGED <<inbox, serving, replies>>

\* An answer that comes too late, or to a closed inbox, is dropped.  Of two
\* answers to one request the first published comes first.
ReplyArrives(r, kind) ==
  /\ <<r, kind>> \in replies
  /\ kind = "error" => <<r, "ok">> \notin replies
  /\ replies' = replies \ {<<r, kind>>}
  /\ IF inbox # "ready" \/ r \notin pending
     THEN UNCHANGED <<pending, ask, result>>
     ELSE pending' = pending \ {r} /\ Settle([result EXCEPT ![r] = kind])
  /\ UNCHANGED <<inbox, serving>>

\* The far end's handler has run.  The reply is published; when that fails, an
\* error is published in its place.
Handled(r) ==
  /\ serving[r] = "asked"
  /\ \E kind \in {"ok", "error"} :
       /\ serving' = [serving EXCEPT ![r] = kind]
       /\ \E out \in SUBSET {kind, "error"} : replies' = replies \cup ({r} \X out)
  /\ UNCHANGED <<inbox, pending, ask, result>>

\* Mutant of AfterClose: the table is emptied, and nobody told.
AfterSilentClose(rs) == rs

AfterClose(rs) == [r \in Asks |-> IF r \in pending THEN "closed" ELSE rs[r]]

Close ==
  /\ inbox' = "none" /\ pending' = {}
  /\ result' = AfterClose(result)
  /\ ask' = Returned([r \in Asks |-> IF r \in AtInbox THEN "old inbox" ELSE ask[r]], AfterClose(result))
  /\ UNCHANGED <<serving, replies>>

BusInit ==
  /\ inbox = "none" /\ pending = {} /\ replies = {}
  /\ ask = [r \in Asks |-> "idle"]
  /\ result = [r \in Asks |-> "open"]
  /\ serving = [r \in Asks |-> "none"]

BusNext ==
  \/ InboxSubscribed \/ SubscribeFails \/ Close
  \/ \E r \in Asks :
       \/ Request(r) \/ OldSubscribed(r)
       \/ Published(r) \/ PublishFails(r) \/ TimerFires(r) \/ Handled(r)
       \/ \E kind \in {"ok", "error"} : ReplyArrives(r, kind)

\* Redis answers SUBSCRIBE once it is back, PUBLISH within its command timeout;
\* timers fire.  Nothing is assumed of the far end, nor of a reply's delivery.
BusFairness ==
  /\ WF_bus(InboxSubscribed \/ SubscribeFails)
  /\ \A r \in Asks :
       /\ WF_bus(OldSubscribed(r)) /\ WF_bus(Published(r) \/ PublishFails(r))
       /\ WF_bus(TimerFires(r))
-----------------------------------------------------------------------------
\* A request ends, with an answer or an error, whatever is lost, fails or comes
\* late and however often the bus is closed meanwhile.  ("resolves with its
\* reply. Rejects on timeout, and rejects with the remote error if the handler
\* threw", event-bus.ts:28-33; request 112-128, close 150-159)
EveryRequestSettles ==
  \A r \in Asks : (ask[r] # "idle") ~> (ask[r] \in {"done", "failed"})
=============================================================================
