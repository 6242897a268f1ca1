---------------------------- MODULE MatchCluster ----------------------------
(***************************************************************************)
(* One match among the nodes of a cluster: core/cluster/match-gateway.ts   *)
(* over core/cluster/ownership-registry.ts and the match document of       *)
(* core/persistence.                                                       *)
(*                                                                         *)
(* The registry holds a lease on the match.  A command for the match runs  *)
(* on the node that owns it (route); when nobody does, the node that was   *)
(* asked rebuilds the match from its document (recover).  Owners renew     *)
(* (renewLeases), terminate what everybody left (releaseAbandoned), drop   *)
(* what is finished after a grace period (scheduleRetirement) and hand     *)
(* everything back when the process is shut down (close).                  *)
(*                                                                         *)
(* Every await is a point where other handlers and other nodes run: an     *)
(* action is one stretch of a handler together with the registry or store  *)
(* operation it then waits for.  A node identity is fresh for each boot,   *)
(* so a node that exits does not come back.                                *)
(*                                                                         *)
(* The match itself is reduced to its phase; MatchManager models what      *)
(* happens inside.                                                         *)
(***************************************************************************)
EXTENDS Naturals, FiniteSets

CONSTANTS
  Nodes,        \* backend processes
  NoNode,       \* no lease
  Knows,        \* the nodes that have the match's game loaded: all of them for
                \* a built-in, those asked for it before if it was imported
  Slow,         \* bound: the nodes between whose calls of one round of renewals
                \* other steps are taken
  MaxFaults,    \* bound: failing registry or store calls and late renewals
  MaxStops      \* bound: crashes and shutdowns

ASSUME ClusterAssumption ==
  /\ NoNode \notin Nodes
  /\ Knows \subseteq Nodes
  /\ Slow \subseteq Nodes
  /\ MaxFaults \in Nat
  /\ MaxStops \in Nat

VARIABLES
  up,        \* processes running
  closing,   \* those of them whose gateway has begun to close
  lease,     \* the holder of an unexpired lease
  owned,     \* nodes that have the match in `owned`
  mem,       \* per node: what its MatchManager holds of the match
  retiring,  \* nodes with a retirement timer running
  call,      \* per node: the routed command it is working on
  renewal,   \* per node: where its round of renewals is with the match
  store,     \* the match document
  writes,    \* snapshot writes in flight
  deleting,  \* a deletion of the document is in flight
  releases,  \* nodes whose release of the lease is in flight
  watching,  \* nodes with sockets in this match (localPresence)
  faults, stops,
  late       \* history: nodes whose lease expired under them, or that were
             \* told by a failing registry call that they own the match, or
             \* that released it themselves in the middle of recovering it

local  == <<owned, mem, retiring, call, renewal>>
disk   == <<store, writes, deleting>>
budget == <<faults, stops>>
vars == <<up, closing, lease, local, disk, releases, watching, budget, late>>

\* What a node's MatchManager holds: nothing, an open room, a running match,
\* one flagged as abandoned, one whose last hand is scored.
Phase == {"none", "room", "live", "left", "over"}

\* The documents of a match; a room is not persisted.
Doc == {"none", "live", "over"}

\* A routed command that needs a recovery: the step it is at (the claim, its
\* success, or the lookup after its failure) and the document it has read.  It
\* is a presence tick if the node has sockets in the match, a JOIN otherwise.
Call == [at: {"idle", "claim", "won", "ask"}, doc: Doc]

Idle == [at |-> "idle", doc |-> "none"]

\* Where a round of renewals is with the match: nowhere; still to come to it,
\* though it has left the node; its renewal refused; its owner found to be nobody.
Renewal == {"idle", "due", "refused", "free"}

Running == up \ closing

\* A node's registry calls go over one connection and take effect in the order
\* they were made: none overtakes its release.
InOrder(n) == n \notin releases

Faulty(n) == faults < MaxFaults /\ faults' = faults + 1

\* A round of renewals works off the list of what was owned when it began: it
\* may have the match on it when the node gives the match away.
MayBeListed(n) ==
  \/ UNCHANGED renewal
  \/ /\ n \in Slow \cap owned /\ renewal[n] = "idle"
     /\ renewal' = [renewal EXCEPT ![n] = "due"]

\* owned.delete and manager.evict, which always go together.
Forget(n) ==
  /\ owned' = owned \ {n}
  /\ mem' = [mem EXCEPT ![n] = "none"]
-----------------------------------------------------------------------------
(* The registry.                                                           *)

\* Mutant of Claimed: the lease goes to whoever asked last.
ClaimedByForce(n) == lease' = n

\* CLAIM_LUA: SET NX, then GET.
Claimed(n) == lease' = IF lease = NoNode THEN n ELSE lease

\* RENEW_LUA: compare, then PEXPIRE.
Renewed(n) == lease = n /\ UNCHANGED lease

\* Mutant of Released: DEL without the comparison.
ReleasedBlindly(n) == lease' = NoNode

\* RELEASE_LUA: compare, then DEL.
Released(n) == lease' = IF lease = n THEN NoNode ELSE lease

\* Mutant of LeaseExpires: the lease of a dead node is kept for it.
LeaseWaitsForItsNode ==
  /\ lease \in Running
  /\ lease' = NoNode
  /\ IF lease \in owned THEN Faulty(lease) ELSE UNCHANGED faults
  /\ late' = late \cup {lease}
  /\ UNCHANGED <<up, closing, local, disk, releases, watching, stops>>

\* The TTL runs out.  Under a node that is renewing this takes a stall or an
\* outage of several renewal periods; otherwise it is a matter of time.
LeaseExpires ==
  /\ lease # NoNode
  /\ lease' = NoNode
  /\ IF lease \in Running /\ lease \in owned
     THEN Faulty(lease)
     ELSE UNCHANGED faults
  /\ late' = IF lease \in up THEN late \cup {lease} ELSE late
  /\ UNCHANGED <<up, closing, local, disk, releases, watching, stops>>

\* `void registry.release(...)`: lands later, or fails and is forgotten.
ReleaseLands(n) ==
  /\ n \in releases
  /\ releases' = releases \ {n}
  /\ Released(n)
  /\ UNCHANGED <<up, closing, local, disk, watching, budget, late>>

ReleaseFails(n) ==
  /\ n \in releases
  /\ Faulty(n)
  /\ releases' = releases \ {n}
  /\ UNCHANGED <<up, closing, lease, local, disk, watching, stops, late>>
-----------------------------------------------------------------------------
(* The document.                                                           *)

\* A write that fails is one that never lands.
Newer(d) == store = "none" \/ (store = "live" /\ d = "over")

WriteLands(d) ==
  /\ d \in writes
  /\ writes' = writes \ {d}
  /\ store' = IF Newer(d) THEN d ELSE store
  /\ UNCHANGED <<up, closing, lease, local, deleting, releases, watching,
                 budget, late>>

DeleteLands ==
  /\ deleting
  /\ deleting' = FALSE
  /\ store' = "none"
  /\ UNCHANGED <<up, closing, lease, local, writes, releases, watching,
                 budget, late>>
-----------------------------------------------------------------------------
(* The match on its owner.                                                 *)

\* The host starts the game; the first snapshot is scheduled.
StartMatch(n) ==
  /\ n \in up /\ mem[n] = "room"
  /\ mem' = [mem EXCEPT ![n] = "live"]
  /\ writes' = writes \cup {"live"}
  /\ UNCHANGED <<up, closing, lease, owned, retiring, call, renewal, store,
                 deleting, releases, watching, budget, late>>

\* The last hand is scored.  publishFanout then schedules the retirement,
\* unless the node has let go of the match or publishing fails.
FinishMatch(n) ==
  /\ n \in up /\ mem[n] = "live"
  /\ mem' = [mem EXCEPT ![n] = "over"]
  /\ writes' = writes \cup {"over"}
  /\ \/ /\ retiring' = IF n \in owned /\ n \notin closing
                       THEN retiring \cup {n} ELSE retiring
        /\ UNCHANGED faults
     \/ Faulty(n) /\ UNCHANGED retiring
  /\ UNCHANGED <<up, closing, lease, owned, call, renewal, store, deleting,
                 releases, watching, stops, late>>

\* The retirement timer: the match leaves memory, its document stays.  A timer
\* that outlived the loss of the match may fire while this node is recovering
\* it, and then gives away the lease the recovery has just claimed.
Retire(n) ==
  /\ n \in retiring
  /\ retiring' = retiring \ {n}
  /\ Forget(n) /\ MayBeListed(n)
  /\ releases' = releases \cup {n}
  /\ late' = IF call[n].at = "won" THEN late \cup {n} ELSE late
  /\ UNCHANGED <<up, closing, lease, call, disk, watching, budget>>

\* The nodes whose presence tick reaches n: a node that owns the match asks
\* itself, every other node the holder of the lease.
Hears(n) ==
  {w \in watching \cap Running : IF w \in owned THEN w = n ELSE lease = n}

ReleaseAbandoned(n) ==
  /\ Forget(n) /\ MayBeListed(n)
  /\ deleting' = TRUE
  /\ releases' = releases \cup {n}

\* abandonIfStillEmpty flags the match; the fan-out of that change releases
\* it, unless publishing fails.
AbandonMatch(n) ==
  /\ n \in Running /\ mem[n] = "live"
  /\ Hears(n) = {}
  /\ \/ /\ n \in owned
        /\ ReleaseAbandoned(n)
        /\ UNCHANGED faults
     \/ /\ Faulty(n)
        /\ mem' = [mem EXCEPT ![n] = "left"]
        /\ UNCHANGED <<owned, deleting, releases, renewal>>
  /\ UNCHANGED <<up, closing, lease, retiring, call, store, writes,
                 watching, stops, late>>
-----------------------------------------------------------------------------
(* Commands: route, recover, execute.                                      *)

\* What executing node n's command on node o does, o being n itself or the
\* owner reached over the bus.  A JOIN finds the match or reports it missing;
\* SYNC_PRESENCE ignores a match that is not there.  A node that has stopped
\* listening lets the request time out.
Execute(n, o) ==
  watching' = IF mem[o] # "none" /\ o \in Running THEN watching \cup {n}
              ELSE watching

\* registry.owner answers; an error reads as "nobody".
Lookup(n, o) ==
  \/ o = lease /\ UNCHANGED faults
  \/ o = NoNode /\ lease # NoNode /\ Faulty(n)

\* The lookup names an owner, possibly this node: the command runs there.
UseOwner(n, o) ==
  /\ o # NoNode
  /\ owned' = IF o = n THEN owned \cup {n} ELSE owned
  /\ Execute(n, o)

\* recover, up to its claim: read the document.  A store that cannot be read
\* counts as one without it.  (A match the node holds without owning it would
\* be claimed as it is; RunsOnlyWhatItRenews says that there is none.)
BeginRecovery(n) ==
  \E d \in {store, "none"} :
    /\ call' = [call EXCEPT ![n] = [at |-> IF d = "none" THEN "ask" ELSE "claim",
                                   doc |-> d]]
    /\ d # store => faults < MaxFaults
    /\ d = store => Lookup(n, NoNode)
    /\ d # store => lease = NoNode /\ Faulty(n)

\* A player's JOIN, or a tick of pushPresence for the node's sockets.  An owner
\* runs it without a look at its lease; any other node asks the registry.
StartCommand(n) ==
  /\ n \in Running /\ call[n] = Idle /\ InOrder(n)
  /\ \/ /\ n \in owned
        /\ Execute(n, n)
        /\ UNCHANGED <<owned, call, faults>>
     \/ /\ n \notin owned
        /\ \E o \in Nodes : Lookup(n, o) /\ UseOwner(n, o)
        /\ UNCHANGED call
     \/ /\ n \notin owned
        /\ BeginRecovery(n)
        /\ UNCHANGED <<owned, watching>>
  /\ UNCHANGED <<up, closing, lease, mem, retiring, renewal, disk, releases,
                 stops, late>>

\* After a recovery that failed the owner is looked up once more; if there is
\* still none the match is reported missing (MatchNotFoundError), and the
\* presence tick forgets the match's sockets.
AskAgain(n) ==
  /\ call[n].at = "ask" /\ InOrder(n)
  /\ call' = [call EXCEPT ![n] = Idle]
  /\ \E o \in Nodes \cup {NoNode} :
       /\ Lookup(n, o)
       /\ \/ UseOwner(n, o)
          \/ o = NoNode /\ watching' = watching \ {n} /\ UNCHANGED owned
  /\ UNCHANGED <<up, closing, lease, mem, retiring, renewal, disk, releases,
                 stops, late>>

\* registry.claim inside recover; an error reads as "we won".
ClaimForRecovery(n) ==
  /\ call[n].at = "claim" /\ InOrder(n)
  /\ Claimed(n)
  /\ IF lease \in {n, NoNode}
     THEN call' = [call EXCEPT ![n].at = "won"]
     ELSE call' = [call EXCEPT ![n] = [at |-> "ask", doc |-> "none"]]
  /\ late' = late \ (IF lease \in {n, NoNode} THEN {n} ELSE {})
  /\ UNCHANGED <<up, closing, owned, mem, retiring, renewal, disk, releases,
                 watching, budget>>

ClaimFails(n) ==
  /\ call[n].at = "claim"
  /\ Faulty(n)
  /\ call' = [call EXCEPT ![n].at = "won"]
  /\ late' = late \cup {n}
  /\ UNCHANGED <<up, closing, lease, owned, mem, retiring, renewal, disk,
                 releases, watching, stops>>

\* Mutant of Recover: the rebuilt match is not entered in `owned`.
RecoverUnowned(n) ==
  /\ mem' = [mem EXCEPT ![n] = IF @ = "none" THEN call[n].doc ELSE @]
  /\ owned' = owned

\* adopt, unless a match is already there, and owned.add.
Recover(n) ==
  /\ mem' = [mem EXCEPT ![n] = IF @ = "none" THEN call[n].doc ELSE @]
  /\ owned' = owned \cup {n}

\* adopt throws where the game is not loaded, and leaves the lease claimed.
FinishRecovery(n) ==
  /\ call[n].at = "won"
  /\ IF n \in Knows
     THEN Recover(n) /\ watching' = watching \cup {n}
     ELSE UNCHANGED <<mem, owned, watching>>
  /\ call' = [call EXCEPT ![n] = Idle]
  /\ UNCHANGED <<up, closing, lease, retiring, renewal, disk, releases, budget, late>>
-----------------------------------------------------------------------------
(* renewLeases.                                                            *)

\* The round of the timer comes to the match.
Due(n) == renewal[n] = "due" \/ (renewal[n] = "idle" /\ n \in Running \cap owned)

\* Mutant of RenewLease: a renewal that finds the lease gone counts as done.
RenewAnyway(n) ==
  /\ Due(n) /\ InOrder(n)
  /\ renewal' = [renewal EXCEPT ![n] = "idle"]
  /\ late' = late \ {n}
  /\ UNCHANGED <<up, closing, lease, owned, mem, retiring, call, disk, releases,
                 watching, budget>>

\* registry.renew: the lease is extended, or is not this node's.  A node that is
\* not slow then makes the other two calls at once: it takes back the lease of a
\* match that is nobody's, and lets go of one that is somebody's.
RenewLease(n) ==
  /\ Due(n) /\ InOrder(n)
  /\ renewal' = [renewal EXCEPT ![n] =
                    IF lease # n /\ n \in Slow THEN "refused" ELSE "idle"]
  /\ \/ /\ Renewed(n) \/ (n \notin Slow /\ lease = NoNode /\ Claimed(n))
        /\ late' = late \ {n}
        /\ UNCHANGED <<owned, mem>>
     \/ /\ lease # n /\ n \in Slow
        /\ UNCHANGED <<lease, owned, mem, late>>
     \/ /\ lease \notin {n, NoNode} /\ n \notin Slow
        /\ Forget(n)
        /\ UNCHANGED <<lease, late>>
  /\ UNCHANGED <<up, closing, retiring, call, disk, releases, watching, budget>>

\* registry.owner: the match is somebody's and is let go of, or is nobody's.
AskOwner(n) ==
  /\ renewal[n] = "refused" /\ InOrder(n)
  /\ \E o \in Nodes \cup {NoNode} :
       /\ Lookup(n, o)
       /\ IF o = NoNode
          THEN /\ renewal' = [renewal EXCEPT ![n] = "free"]
               /\ UNCHANGED <<owned, mem>>
          ELSE /\ renewal' = [renewal EXCEPT ![n] = "idle"]
               /\ Forget(n)
  /\ UNCHANGED <<up, closing, lease, retiring, call, disk, releases, watching,
                 stops, late>>

\* registry.claim: the lease is taken back, unless somebody was faster.
ReclaimLease(n) ==
  /\ renewal[n] = "free" /\ InOrder(n)
  /\ Claimed(n)
  /\ renewal' = [renewal EXCEPT ![n] = "idle"]
  /\ IF lease \in {n, NoNode}
     THEN late' = late \ {n} /\ UNCHANGED <<owned, mem>>
     ELSE Forget(n) /\ UNCHANGED late
  /\ UNCHANGED <<up, closing, retiring, call, disk, releases, watching, budget>>

\* A renewal or a claim that fails with an error counts as a success: the node
\* goes on as the owner.
RenewFails(n) ==
  /\ Due(n) \/ renewal[n] = "free"
  /\ Faulty(n)
  /\ renewal' = [renewal EXCEPT ![n] = "idle"]
  /\ late' = IF lease # n /\ n \in owned THEN late \cup {n} ELSE late
  /\ UNCHANGED <<up, closing, lease, owned, mem, retiring, call, disk, releases,
                 watching, stops>>

Renew(n) == RenewLease(n) \/ AskOwner(n) \/ ReclaimLease(n)

\* Mutant of SweepAbandoned: the sweep leaves the match to the fan-out.
SweepLooksAway(n) ==
  /\ n \in Running /\ n \in owned /\ mem[n] = "left"
  /\ UNCHANGED vars

\* The backstop of the same timer, for a fan-out that failed.
SweepAbandoned(n) ==
  /\ n \in Running /\ n \in owned /\ mem[n] = "left"
  /\ ReleaseAbandoned(n)
  /\ UNCHANGED <<up, closing, lease, retiring, call, store, writes,
                 watching, budget, late>>
-----------------------------------------------------------------------------
(* The end of a process, and of a node's interest in the match.            *)

\* The last of the node's sockets in this match closes.
SocketsLeave(n) ==
  /\ n \in watching /\ n \in Running /\ call[n] = Idle
  /\ watching' = watching \ {n}
  /\ UNCHANGED <<up, closing, lease, local, disk, releases, budget, late>>

Gone(n) ==
  /\ up' = up \ {n}
  /\ closing' = closing \ {n}
  /\ owned' = owned \ {n}
  /\ mem' = [mem EXCEPT ![n] = "none"]
  /\ retiring' = retiring \ {n}
  /\ call' = [call EXCEPT ![n] = Idle]
  /\ renewal' = [renewal EXCEPT ![n] = "idle"]
  /\ watching' = watching \ {n}
  /\ late' = late \ {n}

Crash(n) ==
  /\ n \in up /\ stops < MaxStops
  /\ stops' = stops + 1
  /\ Gone(n)
  /\ releases' \in {releases, releases \ {n}}
  /\ UNCHANGED <<lease, disk, faults>>

\* SIGTERM: the sockets are closed, then the gateway stops its timers and its
\* inbox and sends the releases; nothing is evicted, the turn loops go on.
BeginClose(n) ==
  /\ n \in Running /\ stops < MaxStops
  /\ stops' = stops + 1
  /\ closing' = closing \cup {n}
  /\ retiring' = retiring \ {n}
  /\ MayBeListed(n)
  /\ releases' = IF n \in owned THEN releases \cup {n} ELSE releases
  /\ watching' = watching \ {n}
  /\ UNCHANGED <<up, lease, owned, mem, call, disk, faults, late>>

\* Promise.allSettled of the releases, owned.clear, and the other steps up to
\* the exit of the process.
Exit(n) ==
  /\ n \in closing /\ n \notin releases
  /\ Gone(n)
  /\ UNCHANGED <<lease, disk, releases, budget>>
-----------------------------------------------------------------------------
\* createRoom on node n, where every match begins: the claim's failure is
\* ignored and the room is served anyway.
CreateRoom(n) ==
  /\ mem = [m \in Nodes |-> IF m = n THEN "room" ELSE "none"]
  /\ owned = {n}
  /\ watching = {n}
  /\ \/ lease = n /\ faults = 0 /\ late = {}
     \/ lease = NoNode /\ faults = 1 /\ faults <= MaxFaults /\ late = {n}

Init ==
  /\ \E n \in Knows : CreateRoom(n)
  /\ up = Nodes
  /\ closing = {}
  /\ retiring = {}
  /\ call = [n \in Nodes |-> Idle]
  /\ renewal = [n \in Nodes |-> "idle"]
  /\ store = "none"
  /\ writes = {}
  /\ deleting = FALSE
  /\ releases = {}
  /\ stops = 0

Command(n) ==
  AskAgain(n) \/ ClaimForRecovery(n) \/ ClaimFails(n) \/ FinishRecovery(n)

Next ==
  \/ LeaseExpires \/ DeleteLands
  \/ \E d \in Doc : WriteLands(d)
  \/ \E n \in Nodes :
       \/ ReleaseLands(n) \/ ReleaseFails(n)
       \/ StartMatch(n) \/ FinishMatch(n) \/ Retire(n)
       \/ AbandonMatch(n)
       \/ StartCommand(n)
       \/ Command(n) \/ Renew(n) \/ RenewFails(n) \/ SweepAbandoned(n)
       \/ SocketsLeave(n) \/ Crash(n) \/ BeginClose(n) \/ Exit(n)

\* The timers tick and registry calls return; players and operators do as
\* they like.  A release that is in flight lands or fails.
Fairness ==
  /\ WF_vars(LeaseExpires /\ lease \notin Running \cap owned)
  /\ WF_vars(DeleteLands)
  /\ \A n \in Nodes :
       /\ WF_vars(ReleaseLands(n))
       /\ WF_vars(Command(n))
       /\ WF_vars(n \in watching /\ StartCommand(n))
       /\ WF_vars(Renew(n))
       /\ WF_vars(SweepAbandoned(n))
       /\ WF_vars(Retire(n))
       /\ WF_vars(Exit(n))

Spec == Init /\ [][Next]_vars
FairSpec == Spec /\ Fairness
-----------------------------------------------------------------------------
TypeOK ==
  /\ up \subseteq Nodes
  /\ closing \subseteq up
  /\ lease \in Nodes \cup {NoNode}
  /\ owned \subseteq up
  /\ mem \in [Nodes -> Phase]
  /\ retiring \subseteq up
  /\ call \in [Nodes -> Call]
  /\ renewal \in [Nodes -> Renewal]
  /\ store \in Doc
  /\ writes \subseteq Doc \ {"none"}
  /\ deleting \in BOOLEAN
  /\ releases \subseteq Nodes
  /\ watching \subseteq up
  /\ faults \in 0..MaxFaults
  /\ stops \in 0..MaxStops
  /\ late \subseteq up

\* The nodes whose turn loop can advance the match.
Drivers == {n \in up : mem[n] = "live"}

\* A node drives the match only while it holds the lease, except (until its
\* next renewal) a node whose lease ran out before it could renew, that a
\* failing registry call left in the belief, or whose old retirement timer went
\* off during a recovery; and except a node that is shutting down.
\* (recover, createRoom, renewLeases, releaseAbandoned, scheduleRetirement)
DriversHoldTheLease ==
  \A n \in Drivers \ (late \cup closing) : lease = n

\* A match in a node's memory is one the node renews and sweeps; otherwise
\* nothing would ever terminate it.  (the pairs owned.add/adopt and
\* owned.delete/evict of match-gateway.ts)
RunsOnlyWhatItRenews ==
  \A n \in up : mem[n] # "none" => n \in owned

\* Registry header: one node is responsible at a time and responsibility is
\* handed over through nobody, as far as the nodes that are neither late nor
\* shutting down are concerned.
OnTime == Drivers \ (late \cup closing)

Lock == INSTANCE MatchLock
        WITH driver <- IF OnTime = {} THEN NoNode
                       ELSE CHOOSE n \in OnTime : TRUE

ImplementsLock == Lock!Spec

\* Two nodes that drive the same match do not go on doing so: the one without
\* the lease finds out at a renewal.  (renewLeases)
SplitHeals == Cardinality(Drivers) > 1 ~> Cardinality(Drivers) <= 1

\* A node that answers for the match and does not have it: what remains when
\* a release failed and a later command found this node named as the owner.
Ghost == \E n \in owned : mem[n] = "none"

\* A match whose node died comes back as long as a node has players in it,
\* or those players are told that it is gone - unless a ghost owns it.
\* (route, recover, pushPresence)
OrphanRecovered ==
  (store = "live" /\ watching \cap Running # {} /\ \A n \in up : mem[n] = "none")
    ~> \/ \E n \in up : mem[n] # "none"
       \/ store # "live" \/ watching \cap Running = {} \/ Ghost

\* A match everybody left is released even when the fan-out that should have
\* released it failed.  (renewLeases, "the backstop")
AbandonedIsReleased ==
  \A n \in Nodes : mem[n] = "left" ~> mem[n] # "left"

=============================================================================
