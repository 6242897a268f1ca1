------------------------- MODULE MatchClusterProofs -------------------------
(***************************************************************************)
(* Theorems about MatchCluster for every set of nodes and any number of    *)
(* faults, crashes and shutdowns.  Who may drive the match follows from    *)
(* who holds the lease only because every step on the way is accounted     *)
(* for: a recovery that has won its claim, and a release under way.  IInv  *)
(* says what holds of each.                                                *)
(***************************************************************************)
EXTENDS MatchCluster, TLAPS

\* Nodes of whom the lease says nothing.
Excused == late \cup closing

\* A recovery is the work of a node that is up and does not own the match.
CallsOK ==
  \A n \in Nodes : call[n] # Idle => n \in up /\ n \notin owned

\* Whoever has the match, or is about to adopt it, holds the lease.
HoldersOK ==
  \A n \in Nodes \ Excused :
    mem[n] # "none" \/ call[n].at = "won" => lease = n

\* Whoever is giving the lease back neither has the match nor is adopting it.
ReleasesOK ==
  \A n \in releases \ Excused : mem[n] = "none" /\ call[n].at # "won"

\* The match is nowhere but on nodes that run and own it.
MemoryOK == \A n \in Nodes : mem[n] # "none" => n \in up /\ n \in owned

IInv == TypeOK /\ CallsOK /\ HoldersOK /\ ReleasesOK /\ MemoryOK
-----------------------------------------------------------------------------
USE DEF Phase, Doc, Call, Idle, Renewal, Running, Excused

LEMMA InitOK == Init => IInv
<1> SUFFICES ASSUME Init PROVE IInv
  OBVIOUS
<1>1. PICK n \in Knows : CreateRoom(n)
  BY DEF Init
<1>2. n \in Nodes
  BY ClusterAssumption
<1>3. TypeOK
  <2>1. mem \in [Nodes -> Phase]
    BY <1>1, <1>2 DEF CreateRoom
  <2>2. faults \in 0..MaxFaults /\ 0 \in 0..MaxStops
    BY <1>1, ClusterAssumption DEF CreateRoom
  <2>3. call \in [Nodes -> Call] /\ renewal \in [Nodes -> Renewal]
    BY DEF Init
  <2>4. /\ closing \subseteq up /\ retiring \subseteq up /\ owned \subseteq up
        /\ watching \subseteq up /\ late \subseteq up /\ releases \subseteq Nodes
        /\ lease \in Nodes \cup {NoNode} /\ up \subseteq Nodes
    BY <1>1, <1>2 DEF Init, CreateRoom
  <2>5. store \in Doc /\ writes \subseteq Doc \ {"none"} /\ deleting \in BOOLEAN
    BY DEF Init
  <2> QED BY <2>1, <2>2, <2>3, <2>4, <2>5 DEF Init, TypeOK
<1>4. CallsOK /\ ReleasesOK
  BY <1>1, <1>2 DEF Init, CreateRoom, CallsOK, ReleasesOK
<1>5. HoldersOK
  BY <1>1, <1>2 DEF Init, CreateRoom, HoldersOK
<1>6. MemoryOK
  BY <1>1, <1>2 DEF Init, CreateRoom, MemoryOK
<1> QED BY <1>3, <1>4, <1>5, <1>6 DEF IInv

LEMMA LeaseExpiresOK == IInv /\ LeaseExpires => IInv'
<1> SUFFICES ASSUME IInv, LeaseExpires PROVE IInv'
  OBVIOUS
<1> USE DEF LeaseExpires, local, disk
<1>1. faults' \in 0..MaxFaults
  BY ClusterAssumption DEF IInv, TypeOK, Faulty
<1>2. TypeOK'
  BY <1>1, ClusterAssumption DEF IInv, TypeOK
<1>3. HoldersOK'
  BY DEF IInv, TypeOK, HoldersOK, CallsOK, MemoryOK
<1>4. CallsOK' /\ ReleasesOK' /\ MemoryOK'
  BY DEF IInv, CallsOK, ReleasesOK, MemoryOK
<1> QED BY <1>2, <1>3, <1>4 DEF IInv

LEMMA ReleaseOK ==
  ASSUME NEW n \in Nodes, IInv, ReleaseLands(n) \/ ReleaseFails(n)
  PROVE  IInv'
<1>1. CASE ReleaseLands(n)
  <2> USE <1>1 DEF ReleaseLands, Released, local, disk, budget
  <2>1. TypeOK'
    BY DEF IInv, TypeOK
  <2>2. HoldersOK'
    BY DEF IInv, TypeOK, HoldersOK, ReleasesOK
  <2> QED
    BY <2>1, <2>2 DEF IInv, CallsOK, ReleasesOK, MemoryOK
<1>2. CASE ReleaseFails(n)
  <2> USE <1>2 DEF ReleaseFails, local, disk
  <2>1. TypeOK'
    BY ClusterAssumption DEF Faulty, IInv, TypeOK
  <2> QED
    BY <2>1 DEF IInv, CallsOK, HoldersOK, ReleasesOK, MemoryOK
<1> QED BY <1>1, <1>2

LEMMA DiskOK ==
  ASSUME IInv, DeleteLands \/ \E d \in Doc : WriteLands(d)
  PROVE  IInv'
BY DEF DeleteLands, WriteLands, local, disk, budget,
       IInv, TypeOK, CallsOK, HoldersOK, ReleasesOK, MemoryOK

LEMMA OwnerOK ==
  ASSUME NEW n \in Nodes, IInv,
         StartMatch(n) \/ FinishMatch(n) \/ Retire(n) \/ AbandonMatch(n)
  PROVE  IInv'
<1>1. CASE StartMatch(n)
  BY <1>1 DEF StartMatch, budget,
       IInv, TypeOK, CallsOK, HoldersOK, ReleasesOK, MemoryOK
<1>2. CASE FinishMatch(n)
  BY <1>2, ClusterAssumption DEF FinishMatch, Faulty, budget,
       IInv, TypeOK, CallsOK, HoldersOK, ReleasesOK, MemoryOK
<1>3. CASE Retire(n)
  BY <1>3 DEF Retire, Forget, MayBeListed, disk, budget,
       IInv, TypeOK, CallsOK, HoldersOK, ReleasesOK, MemoryOK
<1>4. CASE n \in owned /\ AbandonMatch(n) /\ ReleaseAbandoned(n)
            /\ UNCHANGED faults
  BY <1>4 DEF AbandonMatch, ReleaseAbandoned, Forget, MayBeListed,
       IInv, TypeOK, CallsOK, HoldersOK, ReleasesOK, MemoryOK
<1>5. CASE AbandonMatch(n) /\ Faulty(n)
            /\ mem' = [mem EXCEPT ![n] = "left"]
            /\ UNCHANGED <<owned, deleting, releases, renewal>>
  <2>1. faults' \in 0..MaxFaults
    BY <1>5, ClusterAssumption DEF Faulty, IInv, TypeOK
  <2> QED
    BY <1>5, <2>1 DEF AbandonMatch,
       IInv, TypeOK, CallsOK, HoldersOK, ReleasesOK, MemoryOK
<1>6. CASE AbandonMatch(n)
  BY <1>4, <1>5, <1>6 DEF AbandonMatch
<1> QED BY <1>1, <1>2, <1>3, <1>6

LEMMA CommandOK ==
  ASSUME NEW n \in Nodes, IInv, StartCommand(n) \/ Command(n)
  PROVE  IInv'
<1>1. CASE StartCommand(n)
  BY <1>1, ClusterAssumption
     DEF StartCommand, BeginRecovery, UseOwner, Lookup, Execute, Faulty, disk,
         IInv, TypeOK, CallsOK, HoldersOK, ReleasesOK, MemoryOK
<1>2. CASE AskAgain(n)
  BY <1>2, ClusterAssumption
     DEF AskAgain, UseOwner, Lookup, Execute, Faulty, disk,
         IInv, TypeOK, CallsOK, HoldersOK, ReleasesOK, MemoryOK
<1>3. CASE ClaimForRecovery(n)
  BY <1>3, ClusterAssumption
     DEF ClaimForRecovery, InOrder, Claimed, disk, budget,
         IInv, TypeOK, CallsOK, HoldersOK, ReleasesOK, MemoryOK
<1>4. CASE ClaimFails(n)
  BY <1>4, ClusterAssumption
     DEF ClaimFails, Faulty, disk,
         IInv, TypeOK, CallsOK, HoldersOK, ReleasesOK, MemoryOK
<1>5. CASE FinishRecovery(n)
  BY <1>5, ClusterAssumption
     DEF FinishRecovery, Recover, disk, budget,
         IInv, TypeOK, CallsOK, HoldersOK, ReleasesOK, MemoryOK
<1> QED BY <1>1, <1>2, <1>3, <1>4, <1>5 DEF Command

LEMMA RenewalOK ==
  ASSUME NEW n \in Nodes, IInv,
         Renew(n) \/ RenewFails(n) \/ SweepAbandoned(n)
  PROVE  IInv'
<1>1. CASE RenewLease(n)
  BY <1>1, ClusterAssumption
     DEF RenewLease, Due, Renewed, Claimed, Forget, InOrder, disk, budget,
         IInv, TypeOK, CallsOK, HoldersOK, ReleasesOK, MemoryOK
<1>2. CASE AskOwner(n)
  BY <1>2, ClusterAssumption
     DEF AskOwner, Lookup, Faulty, Forget, disk,
         IInv, TypeOK, CallsOK, HoldersOK, ReleasesOK, MemoryOK
<1>3. CASE ReclaimLease(n)
  BY <1>3, ClusterAssumption
     DEF ReclaimLease, Claimed, Forget, InOrder, disk, budget,
         IInv, TypeOK, CallsOK, HoldersOK, ReleasesOK, MemoryOK
<1>4. CASE RenewFails(n)
  BY <1>4, ClusterAssumption
     DEF RenewFails, Faulty, disk,
         IInv, TypeOK, CallsOK, HoldersOK, ReleasesOK, MemoryOK
<1>5. CASE SweepAbandoned(n)
  <2> USE DEF SweepAbandoned, ReleaseAbandoned, Forget, budget
  <2>1. renewal' \in [Nodes -> Renewal]
    BY <1>5 DEF MayBeListed, IInv, TypeOK
  <2>2. TypeOK'
    BY <1>5, <2>1 DEF IInv, TypeOK
  <2>3. CallsOK' /\ HoldersOK' /\ ReleasesOK' /\ MemoryOK'
    BY <1>5 DEF IInv, TypeOK, CallsOK, HoldersOK, ReleasesOK, MemoryOK
  <2> QED BY <2>2, <2>3 DEF IInv
<1> QED BY <1>1, <1>2, <1>3, <1>4, <1>5 DEF Renew

LEMMA LeavingOK ==
  ASSUME NEW n \in Nodes, IInv,
         SocketsLeave(n) \/ Crash(n) \/ BeginClose(n) \/ Exit(n)
  PROVE  IInv'
<1>1. CASE SocketsLeave(n)
  BY <1>1 DEF SocketsLeave, local, disk, budget,
       IInv, TypeOK, CallsOK, HoldersOK, ReleasesOK, MemoryOK
<1>2. CASE Crash(n)
  BY <1>2, ClusterAssumption DEF Crash, Gone, disk,
       IInv, TypeOK, CallsOK, HoldersOK, ReleasesOK, MemoryOK
<1>3. CASE BeginClose(n)
  BY <1>3, ClusterAssumption DEF BeginClose, MayBeListed, disk,
       IInv, TypeOK, CallsOK, HoldersOK, ReleasesOK, MemoryOK
<1>4. CASE Exit(n)
  BY <1>4 DEF Exit, Gone, disk, budget,
       IInv, TypeOK, CallsOK, HoldersOK, ReleasesOK, MemoryOK
<1> QED BY <1>1, <1>2, <1>3, <1>4

LEMMA StepOK == IInv /\ [Next]_vars => IInv'
<1> SUFFICES ASSUME IInv, [Next]_vars PROVE IInv'
  OBVIOUS
<1>1. CASE UNCHANGED vars
  BY <1>1 DEF vars, local, disk, budget,
       IInv, TypeOK, CallsOK, HoldersOK, ReleasesOK, MemoryOK
<1>2. CASE Next
  BY <1>2, LeaseExpiresOK, ReleaseOK, DiskOK, OwnerOK, CommandOK, RenewalOK,
     LeavingOK DEF Next
<1> QED BY <1>1, <1>2

LEMMA Invariance == Spec => []IInv
BY InitOK, StepOK, PTL DEF Spec
-----------------------------------------------------------------------------
\* Whatever fails and whoever stops, the state stays within its types.
THEOREM ClusterTypes == Spec => []TypeOK
BY Invariance, PTL DEF IInv

\* A node that runs the match holds the lease, unless it is one of those whose
\* lease says nothing.  (recover, createRoom, renewLeases, releaseAbandoned,
\* scheduleRetirement)
THEOREM OnlyHoldersDrive == Spec => []DriversHoldTheLease
<1>1. IInv => DriversHoldTheLease
  BY DEF IInv, TypeOK, HoldersOK, DriversHoldTheLease, Drivers
<1> QED BY <1>1, Invariance, PTL

\* A node holds no match that it does not renew and sweep.  (adopt, evict)
THEOREM NothingRunsUnowned == Spec => []RunsOnlyWhatItRenews
<1>1. IInv => RunsOnlyWhatItRenews
  BY DEF IInv, TypeOK, MemoryOK, RunsOnlyWhatItRenews
<1> QED BY <1>1, Invariance, PTL
-----------------------------------------------------------------------------
(* The cluster implements the lock: the node on time is the lease's holder,*)
(* and no registry call moves a lease from one holder to another.          *)

\* The refinement mapping of Lock.
OnTimeDriver == IF OnTime = {} THEN NoNode ELSE CHOOSE n \in OnTime : TRUE

MappedToHolder ==
  /\ OnTimeDriver \in Nodes \cup {NoNode}
  /\ OnTimeDriver # NoNode => OnTimeDriver = lease

LEMMA OnTimeDriverIsHolder == IInv => MappedToHolder
<1> SUFFICES ASSUME IInv PROVE MappedToHolder
  OBVIOUS
<1>1. OnTime \subseteq Nodes /\ \A n \in OnTime : lease = n
  BY DEF OnTime, Drivers, IInv, TypeOK, HoldersOK
<1> QED BY <1>1 DEF MappedToHolder, OnTimeDriver

\* CLAIM_LUA and RELEASE_LUA: a lease is free before it has another holder.
LEMMA LeaseChangesHands ==
  ASSUME [Next]_vars
  PROVE  lease' = lease \/ lease = NoNode \/ lease' = NoNode
<1>1. CASE UNCHANGED vars
  BY <1>1 DEF vars
<1>2. CASE LeaseExpires \/ DeleteLands \/ \E d \in Doc : WriteLands(d)
  BY <1>2 DEF LeaseExpires, DeleteLands, WriteLands
<1>3. ASSUME NEW n \in Nodes,
             \/ ReleaseLands(n) \/ ReleaseFails(n)
             \/ StartMatch(n) \/ FinishMatch(n) \/ Retire(n)
             \/ AbandonMatch(n)
      PROVE  lease' = lease \/ lease = NoNode \/ lease' = NoNode
  BY <1>3 DEF ReleaseLands, ReleaseFails, Released, StartMatch, FinishMatch,
     Retire, AbandonMatch
<1>4. ASSUME NEW n \in Nodes, StartCommand(n) \/ Command(n)
      PROVE  lease' = lease \/ lease = NoNode \/ lease' = NoNode
  BY <1>4 DEF StartCommand, Command, AskAgain, ClaimForRecovery, Claimed,
     ClaimFails, FinishRecovery
<1>5. ASSUME NEW n \in Nodes,
             \/ Renew(n) \/ RenewFails(n) \/ SweepAbandoned(n)
             \/ SocketsLeave(n) \/ Crash(n) \/ BeginClose(n) \/ Exit(n)
      PROVE  lease' = lease \/ lease = NoNode \/ lease' = NoNode
  BY <1>5 DEF Renew, RenewLease, Renewed, AskOwner, ReclaimLease, Claimed, RenewFails, SweepAbandoned,
     SocketsLeave, Crash, BeginClose, Exit
<1> QED BY <1>1, <1>2, <1>3, <1>4, <1>5 DEF Next

LEMMA LockStep ==
  MappedToHolder /\ MappedToHolder' /\ [Next]_vars => [Lock!Next]_OnTimeDriver
<1> SUFFICES ASSUME MappedToHolder, MappedToHolder', [Next]_vars
             PROVE  [Lock!Next]_OnTimeDriver
  OBVIOUS
<1>1. \/ UNCHANGED OnTimeDriver
      \/ OnTimeDriver # NoNode /\ OnTimeDriver' = NoNode
      \/ OnTimeDriver = NoNode /\ OnTimeDriver' \in Nodes
  BY LeaseChangesHands DEF MappedToHolder
<1> QED
  BY <1>1 DEF Lock!Next, Lock!Take, Lock!LetGo, OnTimeDriver

\* At most one node is responsible for the match, late nodes and nodes that are
\* shutting down apart, and responsibility is handed over through nobody.
\* (ownership-registry.ts)
THEOREM ClusterImplementsLock == Spec => ImplementsLock
<1>1. MappedToHolder => Lock!Init
  BY DEF MappedToHolder, Lock!Init, OnTimeDriver
<1> QED
  BY <1>1, OnTimeDriverIsHolder, LockStep, Invariance, PTL
     DEF Spec, ImplementsLock, Lock!Spec, OnTimeDriver
=============================================================================
