--------------------------- MODULE SchedulerProofs ---------------------------
(* Theorems about Scheduler: any number of replicas and manual callers,    *)
(* any graphs, crashes, lost sessions and failed deliveries.               *)
EXTENDS Scheduler, SnapshotProofs, FiniteSetTheorems

(***************************************************************************)
(* The inductive invariant, besides that of Snapshot.                      *)
(***************************************************************************)

(* A scheduler takes snapshots between IsLeader and the end of its tick. *)
Working == \A r \in Replicas : pc[r] # "idle" => leading[r]

DraftsTriggered == \A p \in Snapshotters : pc[p] # "idle" => draft[p].trigger = Trigger[p]

(* What a replica believes the server agrees with, while no session is     *)
(* lost.                                                                   *)
LeaderHolds ==
    losses = 0 => \A r \in Replicas : /\ leading[r] => conn[r] = "held"
                                      /\ conn[r] = "held" => lock = r

(* Only the leader's snapshots are in the store. *)
Undisturbed == losses = 0 /\ OnlyScheduled

BaselineOnce ==
    Undisturbed =>
        /\ \A i, j \in DOMAIN saved : saved[i].baseline /\ saved[j].baseline => i = j
        /\ \A r \in Replicas : pc[r] = "saveVersion" /\ draft[r].baseline => ~HasBaseline

(* An event worth paging about was sent, or its tick is not over. *)
PagedOrDue ==
    failures = 0 /\ unsent = 0 =>
        \A v \in Versions, e \in Notifiable(events) :
            v.trigger = "scheduled" /\ v.id = e.to =>
                \/ e \in notified
                \/ \E r \in Replicas : pc[r] = "returned" /\ draft[r].id = v.id /\ e \in found[r]

SInv ==
    /\ SchedulerTypeOK
    /\ IInv
    /\ Working
    /\ DraftsTriggered
    /\ LeaderHolds
    /\ NotifiedStored
    /\ BaselineOnce
    /\ PagedOrDue

(***************************************************************************)
(* What the order of the history needs besides: replicas whose clocks      *)
(* agree.  The latest version is the one with the largest created_at, so   *)
(* leadership alone does not make it the last one saved.                   *)
(***************************************************************************)

ClocksAgree == \A r, s \in Replicas : ClockOffset[r] = ClockOffset[s]

SavedInOrder ==
    Undisturbed =>
        /\ \A i, j \in DOMAIN saved : i < j => saved[i].created < saved[j].created
        /\ \A r \in Replicas, i \in DOMAIN saved : saved[i].created <= clock + ClockOffset[r]
        /\ \A r \in Replicas : pc[r] \in {"baseline", "latest", "saveVersion"} =>
               /\ draft[r].created <= clock + ClockOffset[r]
               /\ \A i \in DOMAIN saved : saved[i].created < draft[r].created

ComparedWithLast ==
    Undisturbed =>
        \A r \in Replicas :
            /\ pc[r] = "saveVersion" /\ found[r] # {} =>
                   saved # <<>> /\ \A e \in found[r] : e.from = saved[Len(saved)].id
            /\ pc[r] = "saveEvents" =>
                   /\ Len(saved) > 1 /\ draft[r] = saved[Len(saved)]
                   /\ \A e \in found[r] : e.from = saved[Len(saved) - 1].id

HistoryInv == SavedInOrder /\ ComparedWithLast /\ SerialHistory

(***************************************************************************)
(* Operators and sets.                                                     *)
(***************************************************************************)

LEMMA ReplicasAre ==
    /\ Replicas \subseteq Snapshotters
    /\ \A p \in Snapshotters : Trigger[p] = "scheduled" <=> p \in Replicas
    /\ Free \notin Replicas /\ Orphaned \notin Replicas /\ Free # Orphaned
BY SchedulerAssumption DEF Replicas

(* What a step of one snapshotter leaves alone. *)
LEMMA ProgressEffect ==
    ASSUME TypeOK, NEW p \in Snapshotters, Progress(p)
    PROVE  /\ \A q \in Snapshotters :
                 q # p => pc'[q] = pc[q] /\ draft'[q] = draft[q] /\ found'[q] = found[q]
           /\ SaveVersion(p) \/ saved' = saved
           /\ SaveEvents(p) \/ events' = events
           /\ UNCHANGED <<backend, failures>>
           /\ clock' = IF Build(p) THEN clock + 1 ELSE clock
<1> USE DEF TypeOK, storeVars, processVars, countVars
<1>0. clock \in Nat
  OBVIOUS
<1>1. CASE Discover(p)
  <2>1. pc[p] = "idle"
    BY <1>1 DEF Discover
  <2>2. ~Build(p)
    BY <2>1 DEF Build
  <2>3. QED
    BY <1>1, <2>2 DEF Discover
<1>2. CASE Build(p)
  BY <1>2 DEF Build
<1>3. CASE CheckBaseline(p)
  BY <1>3 DEF CheckBaseline, Build
<1>4. CASE ReadLatest(p)
  BY <1>4 DEF ReadLatest, Build
<1>5. CASE SaveVersion(p)
  BY <1>5 DEF SaveVersion, Build
<1>6. CASE SaveEvents(p)
  BY <1>6 DEF SaveEvents, Build
<1>7. QED
  BY <1>1, <1>2, <1>3, <1>4, <1>5, <1>6 DEF Progress

LEMMA ForgetEffect ==
    ASSUME TypeOK, NEW p \in Snapshotters, Forget(p)
    PROVE  /\ pc'[p] = "idle"
           /\ \A q \in Snapshotters :
                 q # p => pc'[q] = pc[q] /\ draft'[q] = draft[q] /\ found'[q] = found[q]
BY DEF Forget, TypeOK

(* The stored versions only grow. *)
LEMMA SavedGrows ==
    ASSUME TypeOK, NEW p \in Snapshotters, SaveVersion(p)
    PROVE  /\ Len(saved) \in Nat /\ DOMAIN saved = 1..Len(saved)
           /\ Len(saved') = Len(saved) + 1 /\ DOMAIN saved' = 1..(Len(saved) + 1)
           /\ \A i \in DOMAIN saved : saved'[i] = saved[i]
           /\ saved'[Len(saved) + 1] = draft[p]
           /\ draft[p] \in Version /\ \A i \in DOMAIN saved : saved[i] \in Version
           /\ \A i \in DOMAIN saved' : i \in DOMAIN saved \/ i = Len(saved) + 1
           /\ saved' # <<>>
<1>1. saved \in Seq(Version) /\ draft[p] \in Version /\ saved' = Append(saved, draft[p])
  BY DEF TypeOK, SaveVersion
<1>2. /\ Len(saved) \in Nat /\ DOMAIN saved = 1..Len(saved)
      /\ \A i \in DOMAIN saved : saved[i] \in Version
  BY <1>1, LenProperties, ElementOfSeq
<1>3. /\ Len(saved') = Len(saved) + 1
      /\ saved' \in Seq(Version) /\ saved' # <<>>
      /\ \A i \in 1..Len(saved) : saved'[i] = saved[i]
      /\ saved'[Len(saved) + 1] = draft[p]
  BY <1>1, AppendProperties
<1>4. DOMAIN saved' = 1..(Len(saved) + 1)
  BY <1>3, LenProperties
<1>5. QED
  BY <1>1, <1>2, <1>3, <1>4

LEMMA StillScheduled ==
    ASSUME TypeOK, NEW p \in Snapshotters, SaveVersion(p), OnlyScheduled'
    PROVE  OnlyScheduled /\ draft[p].trigger = "scheduled"
BY SaveVersionStores DEF OnlyScheduled

(***************************************************************************)
(* The steps of Scheduler, by what they do to the snapshotters.            *)
(***************************************************************************)

(* Steps of leadership, the deployed configuration and idle ticks. *)
Aside ==
    /\ UNCHANGED <<backend, saved, events, pc, draft, found, snapshots, clock, notified, unsent>>
    /\ failures' \in {failures, failures + 1}
    /\ \A r \in Replicas : leading[r] /\ pc[r] # "idle" => leading'[r]

(* A step of a snapshot. *)
Forward(p) ==
    /\ Progress(p)
    /\ p \in Replicas => leading[p]
    /\ UNCHANGED schedulerVars

(* The end of one, successful or not. *)
Over(p) ==
    /\ Forget(p)
    /\ UNCHANGED <<backend, saved, events, snapshots, clock, losses>>
    /\ \A r \in Replicas : r # p => leading'[r] = leading[r]
    /\ failures' \in {failures, failures + 1} /\ unsent' \in {unsent, unsent + 1}
    /\ notified' = notified \/ (pc[p] = "returned" /\ notified' = notified \cup Notifiable(found[p]))
    /\ failures' = failures /\ unsent' = unsent /\ p \in Replicas /\ pc[p] = "returned" =>
           Notifiable(found[p]) \subseteq notified'

LEMMA IsLeaderAside == ASSUME SchedulerTypeOK, NEW r \in Replicas, IsLeader(r) PROVE Aside
<1>1. /\ UNCHANGED <<backend, saved, events, pc, draft, found, snapshots, clock>>
      /\ failures' \in {failures, failures + 1}
  BY DEF IsLeader, DialError, vars, storeVars, processVars, countVars
<1>2. UNCHANGED <<notified, unsent>>
  BY DEF IsLeader
<1>3. \A s \in Replicas : leading[s] => leading'[s]
  BY DEF IsLeader, ConfirmLeadership, AcquireLeadership, LoseContention, DialError, SchedulerTypeOK
<1>4. QED
  BY <1>1, <1>2, <1>3 DEF Aside

LEMMA StepKinds ==
    ASSUME SchedulerTypeOK, [SchedulerNext]_allVars
    PROVE  Aside \/ \E p \in Snapshotters : Forward(p) \/ Over(p)
<1> USE ReplicasAre
<1>1. CASE Elsewhere
  <2>1. CASE Deploy
    <3>1. UNCHANGED schedulerVars
      BY <1>1 DEF Elsewhere
    <3>2. QED
      BY <2>1, <3>1 DEF Deploy, Aside, storeVars, processVars, schedulerVars
  <2>2. CASE ~Deploy
    <3>1. PICK p \in Snapshotters \ Replicas : Progress(p) \/ Return(p) \/ (FaultsLeft /\ Fail(p))
      BY <1>1, <2>2 DEF Elsewhere
    <3>2. UNCHANGED schedulerVars
      BY <1>1 DEF Elsewhere
    <3>3. CASE Progress(p)
      BY <3>1, <3>2, <3>3 DEF Forward
    <3>4. CASE Return(p) \/ Fail(p)
      BY <3>1, <3>2, <3>4 DEF Over, Return, Fail, storeVars, countVars, schedulerVars
    <3>5. QED
      BY <3>1, <3>3, <3>4
  <2>3. QED
    BY <2>1, <2>2
<1>2. CASE ReleaseOrphan
  BY <1>2 DEF ReleaseOrphan, Aside, vars, storeVars, processVars, countVars
<1>3. ASSUME NEW r \in Replicas, IsLeader(r) PROVE Aside
  BY <1>3, IsLeaderAside
<1>4. ASSUME NEW r \in Replicas, LoseSession(r) \/ Restart(r) PROVE Aside
  BY <1>4 DEF LoseSession, Restart, Aside, vars, storeVars, processVars, countVars
<1>5. ASSUME NEW r \in Replicas, RunSnapshot(r) PROVE Forward(r)
  BY <1>5 DEF RunSnapshot, Forward
<1>6. ASSUME NEW r \in Replicas, SnapshotError(r) PROVE Aside \/ Over(r)
  <2>1. /\ \A s \in Replicas : s # r => leading'[s] = leading[s]
        /\ UNCHANGED <<notified, losses, unsent>>
    BY <1>6 DEF SnapshotError, EndTick, SchedulerTypeOK
  <2>2. CASE pc[r] = "idle" /\ UNCHANGED vars
    BY <2>1, <2>2 DEF Aside, vars, storeVars, processVars, countVars
  <2>3. CASE FaultsLeft /\ Fail(r)
    <3>1. failures' = failures + 1 /\ failures \in Nat
      BY <2>3 DEF Fail, SchedulerTypeOK, TypeOK
    <3>2. QED
      BY <2>1, <2>3, <3>1 DEF Over, Fail, storeVars
  <2>4. QED
    BY <1>6, <2>2, <2>3 DEF SnapshotError
<1>7. ASSUME NEW r \in Replicas, Notify(r) PROVE Over(r)
  <2>1. \A s \in Replicas : s # r => leading'[s] = leading[s]
    BY <1>7 DEF Notify, EndTick, SchedulerTypeOK
  <2>2. QED
    BY <1>7, <2>1 DEF Notify, Return, Over, storeVars, countVars
<1>8. ASSUME NEW r \in Replicas, NotifyError(r) PROVE Over(r)
  <2>1. \A s \in Replicas : s # r => leading'[s] = leading[s]
    BY <1>8 DEF NotifyError, EndTick, SchedulerTypeOK
  <2>2. unsent' = unsent + 1 /\ unsent \in Nat
    BY <1>8 DEF NotifyError, SchedulerTypeOK
  <2>3. QED
    BY <1>8, <2>1, <2>2 DEF NotifyError, Return, Over, storeVars, countVars
<1>9. ASSUME NEW r \in Replicas, Crash(r) PROVE Over(r)
  <2>1. \A s \in Replicas : s # r => leading'[s] = leading[s]
    BY <1>9 DEF Crash, EndTick, SchedulerTypeOK
  <2>2. failures' = failures + 1 /\ failures \in Nat
    BY <1>9 DEF Crash, SchedulerTypeOK, TypeOK
  <2>3. QED
    BY <1>9, <2>1, <2>2 DEF Crash, Over, storeVars
<1>10. CASE UNCHANGED allVars
  BY <1>10 DEF allVars, schedulerVars, Aside, vars, storeVars, processVars, countVars
<1>11. QED
  BY <1>1, <1>2, <1>3, <1>4, <1>5, <1>6, <1>7, <1>8, <1>9, <1>10 DEF SchedulerNext, Tick

(***************************************************************************)
(* Type correctness.                                                       *)
(***************************************************************************)

(* A step that is one of Snapshot's, or one that only a replica can take. *)
LEMMA SnapshotTypes ==
    ASSUME TypeOK, [SchedulerNext]_allVars
    PROVE  TypeOK'
<1> USE ReplicasAre
<1>1. CASE [Next]_vars
  BY <1>1, TypeStep
<1>2. ASSUME NEW r \in Replicas, DialError(r) PROVE TypeOK'
  BY <1>2 DEF DialError, TypeOK, storeVars, processVars
<1>3. ASSUME NEW r \in Replicas, Crash(r) PROVE TypeOK'
  <2>1. failures' = failures + 1 /\ failures \in Nat
    BY <1>3 DEF Crash, TypeOK
  <2>2. QED
    BY <1>3, <2>1, ForgetType DEF Crash, TypeOK, storeVars
<1>4. CASE Elsewhere
  BY <1>4, <1>1 DEF Elsewhere, Next
<1>5. ASSUME NEW r \in Replicas, Tick(r) PROVE [Next]_vars
  BY <1>5 DEF Tick, RunSnapshot, SnapshotError, Notify, NotifyError, Next
<1>6. ASSUME NEW r \in Replicas, IsLeader(r) PROVE TypeOK'
  BY <1>6, <1>1, <1>2 DEF IsLeader
<1>7. CASE ReleaseOrphan \/ \E r \in Replicas : LoseSession(r) \/ Restart(r)
  BY <1>7, <1>1 DEF ReleaseOrphan, LoseSession, Restart
<1>8. CASE UNCHANGED allVars
  BY <1>8, <1>1 DEF allVars
<1>9. QED
  BY <1>1, <1>3, <1>4, <1>5, <1>6, <1>7, <1>8 DEF SchedulerNext

LEMMA NotifiableFound ==
    ASSUME TypeOK, NEW p \in Snapshotters
    PROVE  Notifiable(found[p]) \subseteq Event
BY DEF Notifiable, TypeOK

LEMMA SchedulerTypeStep ==
    ASSUME SchedulerTypeOK, [SchedulerNext]_allVars
    PROVE  SchedulerTypeOK'
<1>1. TypeOK'
  BY SnapshotTypes DEF SchedulerTypeOK
<1> USE DEF SchedulerTypeOK
<1>2. CASE UNCHANGED schedulerVars
  BY <1>1, <1>2 DEF schedulerVars
<1>3. CASE ReleaseOrphan
  BY <1>1, <1>3 DEF ReleaseOrphan
<1>4. ASSUME NEW r \in Replicas, IsLeader(r) PROVE SchedulerTypeOK'
  <2>1. UNCHANGED <<up, notified, losses, unsent>>
    BY <1>4 DEF IsLeader
  <2>2. /\ lock' \in Replicas \cup {Free, Orphaned}
        /\ conn' \in [Replicas -> {"none", "held", "broken"}]
        /\ leading' \in [Replicas -> BOOLEAN]
    BY <1>4 DEF IsLeader, ConfirmLeadership, AcquireLeadership, LoseContention, DialError
  <2>3. QED
    BY <1>1, <2>1, <2>2
<1>5. ASSUME NEW r \in Replicas, LoseSession(r) PROVE SchedulerTypeOK'
  BY <1>1, <1>5 DEF LoseSession
<1>6. ASSUME NEW r \in Replicas, SnapshotError(r) PROVE SchedulerTypeOK'
  BY <1>1, <1>6 DEF SnapshotError, EndTick, leaderVars
<1>7. ASSUME NEW r \in Replicas, Notify(r) PROVE SchedulerTypeOK'
  BY <1>1, <1>7, NotifiableFound, ReplicasAre DEF Notify, EndTick, leaderVars
<1>8. ASSUME NEW r \in Replicas, NotifyError(r) PROVE SchedulerTypeOK'
  BY <1>1, <1>8 DEF NotifyError, EndTick, leaderVars
<1>9. ASSUME NEW r \in Replicas, Crash(r) PROVE SchedulerTypeOK'
  BY <1>1, <1>9 DEF Crash, EndTick
<1>10. ASSUME NEW r \in Replicas, Restart(r) PROVE SchedulerTypeOK'
  BY <1>1, <1>10 DEF Restart
<1>11. QED
  BY <1>2, <1>3, <1>4, <1>5, <1>6, <1>7, <1>8, <1>9, <1>10
  DEF SchedulerNext, Elsewhere, Tick, RunSnapshot, allVars

(***************************************************************************)
(* Leadership.                                                             *)
(***************************************************************************)

LEMMA IsLeaderHolds ==
    ASSUME SchedulerTypeOK, LeaderHolds, NEW r \in Replicas, IsLeader(r)
    PROVE  LeaderHolds'
<1> SUFFICES ASSUME losses = 0
             PROVE  \A s \in Replicas : /\ leading'[s] => conn'[s] = "held"
                                        /\ conn'[s] = "held" => lock' = s
  BY DEF LeaderHolds, IsLeader
<1>0. \A s \in Replicas : /\ leading[s] => conn[s] = "held"
                          /\ conn[s] = "held" => lock = s
  BY DEF LeaderHolds
<1> USE DEF SchedulerTypeOK
<1>1. CASE ConfirmLeadership(r)
  BY <1>0, <1>1 DEF ConfirmLeadership
<1>2. CASE AcquireLeadership(r)
  <2>1. \A s \in Replicas : conn[s] # "held"
    BY <1>0, <1>2, ReplicasAre DEF AcquireLeadership
  <2>2. QED
    BY <1>0, <1>2, <2>1 DEF AcquireLeadership
<1>3. CASE LoseContention(r) \/ DialError(r)
  <2>1. ~leading[r] /\ UNCHANGED <<lock, leading>> /\ conn' = [conn EXCEPT ![r] = "none"]
    BY <1>3 DEF IsLeader, LoseContention, DialError
  <2>2. QED
    BY <1>0, <2>1
<1>4. QED
  BY <1>1, <1>2, <1>3 DEF IsLeader

LEMMA LeaderHoldsStep ==
    ASSUME SchedulerTypeOK, LeaderHolds, [SchedulerNext]_allVars
    PROVE  LeaderHolds'
<1> USE DEF SchedulerTypeOK
<1>1. CASE UNCHANGED schedulerVars
  BY <1>1 DEF schedulerVars, LeaderHolds
<1>2. CASE ReleaseOrphan
  BY <1>2, ReplicasAre DEF ReleaseOrphan, LeaderHolds
<1>3. ASSUME NEW r \in Replicas, IsLeader(r) PROVE LeaderHolds'
  BY <1>3, IsLeaderHolds
<1>4. ASSUME NEW r \in Replicas, LoseSession(r) PROVE LeaderHolds'
  <2>1. losses' = losses + 1 /\ losses \in Nat
    BY <1>4 DEF LoseSession
  <2>2. QED
    BY <2>1 DEF LeaderHolds
<1>5. ASSUME NEW r \in Replicas, SnapshotError(r) \/ Notify(r) \/ NotifyError(r) PROVE LeaderHolds'
  <2>1. UNCHANGED <<lock, conn, losses>> /\ EndTick(r)
    BY <1>5 DEF SnapshotError, Notify, NotifyError, leaderVars
  <2>2. QED
    BY <2>1 DEF EndTick, LeaderHolds
<1>6. ASSUME NEW r \in Replicas, Crash(r) PROVE LeaderHolds'
  <2>1. /\ losses' = losses
        /\ ~leading'[r] /\ conn'[r] = "none"
        /\ \A s \in Replicas : s # r => leading'[s] = leading[s] /\ conn'[s] = conn[s]
        /\ lock # r => lock' = lock
    BY <1>6 DEF Crash, EndTick
  <2>2. QED
    BY <2>1 DEF LeaderHolds
<1>7. ASSUME NEW r \in Replicas, Restart(r) PROVE LeaderHolds'
  BY <1>7 DEF Restart, LeaderHolds
<1>8. QED
  BY <1>1, <1>2, <1>3, <1>4, <1>5, <1>6, <1>7
  DEF SchedulerNext, Elsewhere, Tick, RunSnapshot, allVars

(* While no session is lost, one replica at most takes a snapshot. *)
LEMMA OneAtWork ==
    ASSUME SInv, losses = 0, NEW r \in Replicas, NEW s \in Replicas,
           pc[r] # "idle", pc[s] # "idle"
    PROVE  r = s
BY DEF SInv, Working, LeaderHolds

(***************************************************************************)
(* The snapshots.                                                          *)
(***************************************************************************)

LEMMA WorkingStep ==
    ASSUME SInv, [SchedulerNext]_allVars
    PROVE  Working'
<1>0. SchedulerTypeOK /\ TypeOK /\ Working
  BY DEF SInv, SchedulerTypeOK
<1>1. CASE Aside
  BY <1>0, <1>1 DEF Aside, Working
<1>2. ASSUME NEW p \in Snapshotters, Forward(p) PROVE Working'
  <2>1. \A r \in Replicas : r # p => pc'[r] = pc[r]
    BY <1>0, <1>2, ProgressEffect, ReplicasAre DEF Forward
  <2>2. QED
    BY <1>0, <1>2, <2>1 DEF Forward, Working, schedulerVars
<1>3. ASSUME NEW p \in Snapshotters, Over(p) PROVE Working'
  <2>1. pc'[p] = "idle" /\ \A r \in Replicas : r # p => pc'[r] = pc[r]
    BY <1>0, <1>3, ForgetEffect, ReplicasAre DEF Over
  <2>2. QED
    BY <1>0, <1>3, <2>1 DEF Over, Working
<1>4. QED
  BY <1>0, <1>1, <1>2, <1>3, StepKinds

LEMMA DraftsTriggeredStep ==
    ASSUME SInv, [SchedulerNext]_allVars
    PROVE  DraftsTriggered'
<1>0. SchedulerTypeOK /\ TypeOK /\ DraftsTriggered
  BY DEF SInv, SchedulerTypeOK
<1>1. CASE Aside
  BY <1>0, <1>1 DEF Aside, DraftsTriggered
<1>2. ASSUME NEW p \in Snapshotters, Forward(p) PROVE DraftsTriggered'
  <2>1. Progress(p) /\ \A q \in Snapshotters : q # p => pc'[q] = pc[q] /\ draft'[q] = draft[q]
    BY <1>0, <1>2, ProgressEffect DEF Forward
  <2>2. draft'[p].trigger = Trigger[p]
    <3>1. CASE Discover(p)
      BY <1>0, <3>1 DEF Discover, TypeOK
    <3>2. CASE pc[p] # "idle" /\ draft'[p].trigger = draft[p].trigger
      BY <1>0, <3>2 DEF DraftsTriggered
    <3>3. CASE Build(p)
      BY <1>0, <3>2, <3>3 DEF Build, TypeOK, Version
    <3>4. CASE CheckBaseline(p)
      BY <1>0, <3>2, <3>4 DEF CheckBaseline, TypeOK, Version
    <3>5. CASE ReadLatest(p) \/ SaveVersion(p) \/ SaveEvents(p)
      BY <1>0, <3>2, <3>5 DEF ReadLatest, SaveVersion, SaveEvents
    <3>6. QED
      BY <2>1, <3>1, <3>3, <3>4, <3>5 DEF Progress
  <2>3. QED
    BY <1>0, <2>1, <2>2 DEF DraftsTriggered
<1>3. ASSUME NEW p \in Snapshotters, Over(p) PROVE DraftsTriggered'
  BY <1>0, <1>3, ForgetEffect DEF Over, DraftsTriggered
<1>4. QED
  BY <1>0, <1>1, <1>2, <1>3, StepKinds

(* The invariant of Snapshot survives what the replicas do to it. *)
LEMMA SnapshotInvStep ==
    ASSUME SInv, [SchedulerNext]_allVars
    PROVE  IInv'
<1>0. SchedulerTypeOK /\ TypeOK /\ IInv /\ TypeOK'
  BY SnapshotTypes DEF SInv, SchedulerTypeOK
<1>1. CASE Aside
  BY <1>0, <1>1, StoreUnchanged
  DEF Aside, IInv, IDsUnique, DraftsStored, BaselineAhead, BaselineFirst, FoundExplained,
      EventsJoin, EventsBetween
<1>2. ASSUME NEW p \in Snapshotters, Forward(p) PROVE IInv'
  BY <1>0, <1>2, InvStep DEF Forward, Next
<1>3. ASSUME NEW p \in Snapshotters, Over(p) PROVE IInv'
  BY <1>0, <1>3, ForgetInv DEF Over
<1>4. QED
  BY <1>0, <1>1, <1>2, <1>3, StepKinds

LEMMA NotifiedStep ==
    ASSUME SInv, [SchedulerNext]_allVars
    PROVE  NotifiedStored'
<1>0. SchedulerTypeOK /\ TypeOK /\ IInv /\ NotifiedStored
  BY DEF SInv, SchedulerTypeOK
<1>1. CASE Aside
  BY <1>0, <1>1 DEF Aside, NotifiedStored
<1>2. ASSUME NEW p \in Snapshotters, Forward(p) PROVE NotifiedStored'
  <2>1. events \subseteq events'
    BY <1>0, <1>2, ProgressEffect DEF Forward, SaveEvents
  <2>2. QED
    BY <1>0, <1>2, <2>1 DEF Forward, NotifiedStored, schedulerVars
<1>3. ASSUME NEW p \in Snapshotters, Over(p) PROVE NotifiedStored'
  <2>1. pc[p] = "returned" => Notifiable(found[p]) \subseteq events
    BY <1>0 DEF IInv, EventsJoin, Notifiable
  <2>2. QED
    BY <1>0, <1>3, <2>1 DEF Over, NotifiedStored
<1>4. QED
  BY <1>0, <1>1, <1>2, <1>3, StepKinds

(* A step that does not save a version. *)
LEMMA BaselineQuiet ==
    ASSUME BaselineOnce, saved' = saved, losses' = losses,
           \A r \in Replicas : pc'[r] = "saveVersion" /\ draft'[r].baseline =>
               \/ pc[r] = "saveVersion" /\ draft[r].baseline
               \/ ~HasBaseline
    PROVE  BaselineOnce'
<1>1. Undisturbed' = Undisturbed /\ HasBaseline' = HasBaseline
  BY StoreUnchanged DEF Undisturbed, OnlyScheduled
<1>2. QED
  BY <1>1 DEF BaselineOnce

LEMMA BaselineSaved ==
    ASSUME SInv, NEW p \in Snapshotters, SaveVersion(p), UNCHANGED losses
    PROVE  BaselineOnce'
<1> SUFFICES ASSUME Undisturbed'
             PROVE  /\ \A i, j \in DOMAIN saved' : saved'[i].baseline /\ saved'[j].baseline => i = j
                    /\ \A r \in Replicas : pc'[r] = "saveVersion" /\ draft'[r].baseline => ~HasBaseline'
  BY DEF BaselineOnce
<1>0. SchedulerTypeOK /\ TypeOK /\ IInv /\ BaselineOnce
  BY DEF SInv, SchedulerTypeOK
<1>1. /\ pc[p] = "saveVersion" /\ pc'[p] # "saveVersion"
      /\ \A q \in Snapshotters : q # p => pc'[q] = pc[q]
  BY <1>0 DEF SaveVersion, TypeOK
<1>2. Undisturbed /\ losses = 0 /\ p \in Replicas
  <2>1. OnlyScheduled /\ draft[p].trigger = "scheduled"
    BY <1>0, StillScheduled DEF Undisturbed
  <2>2. Trigger[p] = "scheduled"
    BY <1>1, <2>1 DEF SInv, DraftsTriggered
  <2>3. QED
    BY <2>1, <2>2, ReplicasAre DEF Undisturbed
<1>3. \A r \in Replicas : pc'[r] # "saveVersion"
  BY <1>1, <1>2, OneAtWork, ReplicasAre
<1>4. draft[p].baseline => ~HasBaseline
  BY <1>0, <1>1, <1>2 DEF BaselineOnce
<1>5. \A i \in DOMAIN saved : saved[i] \in Versions
  BY DEF Versions, Range
<1>6. \A i, j \in DOMAIN saved' : saved'[i].baseline /\ saved'[j].baseline => i = j
  BY <1>0, <1>2, <1>4, <1>5, SavedGrows DEF BaselineOnce, HasBaseline
<1>7. QED
  BY <1>3, <1>6

LEMMA BaselineOnceStep ==
    ASSUME SInv, [SchedulerNext]_allVars
    PROVE  BaselineOnce'
<1>0. SchedulerTypeOK /\ TypeOK /\ IInv /\ BaselineOnce
  BY DEF SInv, SchedulerTypeOK
<1>1. CASE Aside
  <2>1. CASE losses' = losses
    BY <1>0, <1>1, <2>1, BaselineQuiet DEF Aside
  <2>2. CASE losses' # losses
    <3>1. PICK r \in Replicas : LoseSession(r)
      BY <2>2 DEF SchedulerNext, Elsewhere, ReleaseOrphan, IsLeader, Tick, RunSnapshot, SnapshotError,
                  Notify, NotifyError, Crash, Restart, allVars, schedulerVars
    <3>2. losses' = losses + 1 /\ losses \in Nat
      BY <1>0, <3>1 DEF LoseSession, SchedulerTypeOK
    <3>3. QED
      BY <3>2 DEF BaselineOnce, Undisturbed
  <2>3. QED
    BY <2>1, <2>2
<1>2. ASSUME NEW p \in Snapshotters, Forward(p) PROVE BaselineOnce'
  <2>1. /\ Progress(p) /\ losses' = losses
        /\ \A q \in Snapshotters : q # p => pc'[q] = pc[q] /\ draft'[q] = draft[q]
    BY <1>0, <1>2, ProgressEffect DEF Forward, schedulerVars
  <2>2. CASE SaveVersion(p)
    BY <2>1, <2>2, BaselineSaved
  <2>3. CASE ~SaveVersion(p)
    <3>1. saved' = saved
      BY <1>0, <2>1, <2>3, ProgressEffect
    <3>2. pc'[p] = "saveVersion" /\ draft'[p].baseline => ~HasBaseline
      <4>1. CASE CheckBaseline(p)
        BY <1>0, <4>1 DEF CheckBaseline, TypeOK, Version
      <4>2. CASE ReadLatest(p)
        BY <1>0, <4>2 DEF ReadLatest, TypeOK, IInv, BaselineAhead
      <4>3. CASE Discover(p) \/ Build(p) \/ SaveEvents(p)
        BY <1>0, <4>3 DEF Discover, Build, SaveEvents, TypeOK
      <4>4. QED
        BY <2>1, <2>3, <4>1, <4>2, <4>3 DEF Progress
    <3>3. QED
      BY <1>0, <2>1, <3>1, <3>2, BaselineQuiet, ReplicasAre
  <2>4. QED
    BY <2>2, <2>3
<1>3. ASSUME NEW p \in Snapshotters, Over(p) PROVE BaselineOnce'
  BY <1>0, <1>3, ForgetEffect, BaselineQuiet, ReplicasAre DEF Over
<1>4. QED
  BY <1>0, <1>1, <1>2, <1>3, StepKinds

(***************************************************************************)
(* What is worth paging about.                                             *)
(***************************************************************************)

(* The events a snapshotter has found lead to its draft. *)
LEMMA FoundLeadsToDraft ==
    ASSUME IInv, NEW p \in Snapshotters, NEW e \in found[p]
    PROVE  e.to = draft[p].id
<1>1. PICK v \in Versions : found[p] = EventsBetween(v, draft[p])
  BY DEF IInv, FoundExplained
<1>2. v \in Version /\ draft[p] \in Version
  BY RangeType DEF Versions, IInv, TypeOK
<1>3. QED
  BY <1>1, <1>2, EventsBetweenType

(* Steps that store neither versions nor events. *)
LEMMA PagedQuiet ==
    ASSUME PagedOrDue, UNCHANGED <<saved, events>>,
           failures' = 0 => failures = 0, unsent' = 0 => unsent = 0, notified \subseteq notified',
           failures' = 0 /\ unsent' = 0 =>
               \A r \in Replicas : pc[r] = "returned" =>
                   \/ pc'[r] = "returned" /\ draft'[r] = draft[r] /\ found'[r] = found[r]
                   \/ Notifiable(found[r]) \subseteq notified'
    PROVE  PagedOrDue'
<1> SUFFICES ASSUME failures' = 0, unsent' = 0, NEW v \in Versions, NEW e \in Notifiable(events),
                    v.trigger = "scheduled", v.id = e.to
             PROVE  \/ e \in notified'
                    \/ \E r \in Replicas : pc'[r] = "returned" /\ draft'[r].id = v.id /\ e \in found'[r]
  BY DEF PagedOrDue, Versions, Notifiable
<1>1. CASE e \in notified
  BY <1>1
<1>2. CASE e \notin notified
  <2>1. PICK r \in Replicas : pc[r] = "returned" /\ draft[r].id = v.id /\ e \in found[r]
    BY <1>2 DEF PagedOrDue
  <2>2. e \in Notifiable(found[r])
    BY <2>1 DEF Notifiable
  <2>3. QED
    BY <2>1, <2>2
<1>3. QED
  BY <1>1, <1>2

LEMMA PagedSaveVersion ==
    ASSUME SInv, NEW p \in Snapshotters, SaveVersion(p), UNCHANGED schedulerVars
    PROVE  PagedOrDue'
<1>0. TypeOK /\ IInv /\ PagedOrDue
  BY DEF SInv, IInv
<1>1. /\ pc[p] = "saveVersion"
      /\ \A q \in Snapshotters : q # p => pc'[q] = pc[q]
      /\ UNCHANGED <<events, draft, found, failures>>
  BY <1>0 DEF SaveVersion, TypeOK, countVars
<1>2. Versions' = Versions \cup {draft[p]}
  BY <1>0, SaveVersionStores
<1>3. UNCHANGED <<notified, unsent>>
  BY DEF schedulerVars
<1>4. \A e \in events : e.to # draft[p].id
  <2> SUFFICES ASSUME NEW e \in events, e.to = draft[p].id PROVE FALSE
    OBVIOUS
  <2>1. PICK w \in Versions : w.id = e.to
    BY <1>0 DEF IInv, EventsJoin
  <2>2. draft[p].id \in SavedIDs
    BY <2>1 DEF SavedIDs
  <2>3. QED
    BY <1>0, <1>1, <2>2 DEF IInv, IDsUnique
<1> SUFFICES ASSUME failures = 0, unsent = 0, NEW v \in Versions', NEW e \in Notifiable(events),
                    v.trigger = "scheduled", v.id = e.to
             PROVE  \/ e \in notified
                    \/ \E r \in Replicas : pc'[r] = "returned" /\ draft[r].id = v.id /\ e \in found[r]
  BY <1>1, <1>3 DEF PagedOrDue, Notifiable
<1>5. e \in events /\ v \in Versions
  BY <1>2, <1>4 DEF Notifiable
<1>6. QED
  BY <1>0, <1>1, <1>5, ReplicasAre DEF PagedOrDue

LEMMA PagedSaveEvents ==
    ASSUME SInv, NEW p \in Snapshotters, SaveEvents(p), UNCHANGED schedulerVars
    PROVE  PagedOrDue'
<1>0. TypeOK /\ IInv /\ PagedOrDue
  BY DEF SInv, IInv
<1>1. /\ pc[p] = "saveEvents" /\ pc'[p] = "returned"
      /\ \A q \in Snapshotters : q # p => pc'[q] = pc[q]
      /\ events' = events \cup found[p]
      /\ UNCHANGED <<saved, draft, found, failures>>
  BY <1>0 DEF SaveEvents, TypeOK, countVars
<1>2. UNCHANGED <<notified, unsent>> /\ Versions' = Versions
  BY <1>1, StoreUnchanged DEF schedulerVars
<1> SUFFICES ASSUME failures = 0, unsent = 0, NEW v \in Versions, NEW e \in Notifiable(events'),
                    v.trigger = "scheduled", v.id = e.to
             PROVE  \/ e \in notified
                    \/ \E r \in Replicas : pc'[r] = "returned" /\ draft[r].id = v.id /\ e \in found[r]
  BY <1>1, <1>2 DEF PagedOrDue, Notifiable
<1>3. CASE e \in found[p]
  <2>1. e.to = draft[p].id
    BY <1>0, <1>3, FoundLeadsToDraft
  <2>2. draft[p] \in Versions
    BY <1>0, <1>1 DEF IInv, DraftsStored
  <2>3. v = draft[p]
    BY <1>0, <2>1, <2>2 DEF IInv, IDsUnique
  <2>4. p \in Replicas
    BY <1>1, <2>3, ReplicasAre DEF SInv, DraftsTriggered
  <2>5. QED
    BY <1>1, <1>3, <2>1, <2>4
<1>4. CASE e \notin found[p]
  <2>1. e \in Notifiable(events)
    BY <1>1, <1>4 DEF Notifiable
  <2>2. QED
    BY <1>0, <1>1, <2>1, ReplicasAre DEF PagedOrDue
<1>5. QED
  BY <1>3, <1>4

LEMMA PagedStep ==
    ASSUME SInv, [SchedulerNext]_allVars
    PROVE  PagedOrDue'
<1>0. /\ SchedulerTypeOK /\ TypeOK /\ IInv /\ PagedOrDue
      /\ failures \in Nat /\ unsent \in Nat
  BY DEF SInv, SchedulerTypeOK, TypeOK
<1>1. CASE Aside
  BY <1>0, <1>1, PagedQuiet DEF Aside
<1>2. ASSUME NEW p \in Snapshotters, Forward(p) PROVE PagedOrDue'
  <2>1. CASE SaveVersion(p)
    BY <1>2, <2>1, PagedSaveVersion DEF Forward
  <2>2. CASE SaveEvents(p)
    BY <1>2, <2>2, PagedSaveEvents DEF Forward
  <2>3. CASE ~SaveVersion(p) /\ ~SaveEvents(p)
    <3>1. Progress(p) /\ UNCHANGED <<notified, unsent>>
      BY <1>2 DEF Forward, schedulerVars
    <3>2. /\ UNCHANGED <<saved, events, failures>>
          /\ \A q \in Snapshotters :
                q # p => pc'[q] = pc[q] /\ draft'[q] = draft[q] /\ found'[q] = found[q]
      BY <1>0, <2>3, <3>1, ProgressEffect
    <3>3. pc[p] # "returned"
      BY <2>3, <3>1 DEF Progress, Discover, Build, CheckBaseline, ReadLatest
    <3>4. QED
      BY <1>0, <3>1, <3>2, <3>3, PagedQuiet, ReplicasAre
  <2>4. QED
    BY <2>1, <2>2, <2>3
<1>3. ASSUME NEW p \in Snapshotters, Over(p) PROVE PagedOrDue'
  <2>1. \A q \in Snapshotters :
           q # p => pc'[q] = pc[q] /\ draft'[q] = draft[q] /\ found'[q] = found[q]
    BY <1>0, <1>3, ForgetEffect DEF Over
  <2>2. /\ UNCHANGED <<saved, events>> /\ notified \subseteq notified'
        /\ failures' = 0 => failures' = failures
        /\ unsent' = 0 => unsent' = unsent
    BY <1>0, <1>3 DEF Over
  <2>3. failures' = 0 /\ unsent' = 0 /\ p \in Replicas /\ pc[p] = "returned" =>
           Notifiable(found[p]) \subseteq notified'
    BY <1>3, <2>2 DEF Over
  <2>4. QED
    BY <1>0, <2>1, <2>2, <2>3, PagedQuiet, ReplicasAre
<1>4. QED
  BY <1>0, <1>1, <1>2, <1>3, StepKinds

(***************************************************************************)
(* The invariants.                                                         *)
(***************************************************************************)

LEMMA SInvInit == SchedulerInit => SInv
<1> SUFFICES ASSUME SchedulerInit PROVE SInv
  OBVIOUS
<1>1. Init /\ TypeOK /\ IInv
  BY TypeInit, InvInit DEF SchedulerInit
<1>2. saved = <<>> /\ events = {} /\ \A p \in Snapshotters : pc[p] = "idle"
  BY <1>1 DEF Init
<1>3. SchedulerTypeOK
  BY <1>1 DEF SchedulerInit, SchedulerTypeOK
<1>4. Working /\ DraftsTriggered
  BY <1>2, ReplicasAre DEF Working, DraftsTriggered
<1>5. LeaderHolds /\ NotifiedStored
  BY <1>2 DEF SchedulerInit, LeaderHolds, NotifiedStored
<1>6. BaselineOnce
  <2>1. DOMAIN saved = {}
    BY <1>2
  <2>2. QED
    BY <1>2, <2>1, ReplicasAre DEF BaselineOnce
<1>7. PagedOrDue
  BY <1>2 DEF PagedOrDue, Notifiable
<1>8. QED
  BY <1>1, <1>3, <1>4, <1>5, <1>6, <1>7 DEF SInv

LEMMA SInvStep == SInv /\ [SchedulerNext]_allVars => SInv'
<1> SUFFICES ASSUME SInv, [SchedulerNext]_allVars PROVE SInv'
  OBVIOUS
<1>1. SchedulerTypeOK'
  BY SchedulerTypeStep DEF SInv
<1>2. LeaderHolds'
  BY LeaderHoldsStep DEF SInv
<1>3. IInv' /\ Working' /\ DraftsTriggered' /\ NotifiedStored' /\ BaselineOnce' /\ PagedOrDue'
  BY SnapshotInvStep, WorkingStep, DraftsTriggeredStep, NotifiedStep, BaselineOnceStep, PagedStep
<1>4. QED
  BY <1>1, <1>2, <1>3 DEF SInv

(* The invariant below holds in the composition: every step of every       *)
(* replica, crash and lost session preserves it, and every property below  *)
(* follows from it.                                                        *)
THEOREM SchedulerInductive == SchedulerSpec => []SInv
BY SInvInit, SInvStep, PTL DEF SchedulerSpec

(* The scheduler's state is well typed, its snapshotters' state included.  *)
THEOREM SchedulerTypeCorrect == SchedulerSpec => []SchedulerTypeOK
<1>1. SInv => SchedulerTypeOK
  BY DEF SInv
<1>2. QED
  BY <1>1, SchedulerInductive, PTL

(* The guarantees of the snapshot code survive its composition with the    *)
(* leader-gated scheduler, where replicas crash and are cut off in the     *)
(* middle of Deps.Snapshot: no version is stored ahead of a baseline, no   *)
(* event leads to a baseline, every stored event is explained by two       *)
(* stored versions, and what a tick is told is in the store.               *)
THEOREM SnapshotsStaySafe ==
    SchedulerSpec => [](BaselineFirst /\ BaselineSilent /\ EventsExplained /\ ResultDurable)
<1>1. SInv => BaselineFirst
  BY DEF SInv, IInv, BaselineAhead
<1>2. SInv => BaselineSilent
  <2> SUFFICES ASSUME SInv, NEW e \in events, NEW v \in Versions, e.to = v.id PROVE ~v.baseline
    BY DEF BaselineSilent
  <2>1. PICK w \in Versions : w.id = e.to /\ ~w.baseline
    BY DEF SInv, IInv, EventsJoin
  <2>2. QED
    BY <2>1 DEF SInv, IInv, IDsUnique
<1>3. SInv => EventsExplained
  BY DEF SInv, IInv, EventsJoin, EventsExplained
<1>4. SInv => ResultDurable
  BY DEF SInv, IInv, DraftsStored, EventsJoin, ResultDurable
<1>5. QED
  BY <1>1, <1>2, <1>3, <1>4, SchedulerInductive, PTL

(* "exactly one replica runs the scheduler" (coordination.go): whoever     *)
(* crashes or restarts, two replicas are never inside a tick together      *)
(* while no leader loses its session (pgLeader.IsLeader, runScheduler).    *)
THEOREM OneSchedulerAtATime == SchedulerSpec => []SingleWhileSessionsHold
<1>1. SInv => SingleWhileSessionsHold
  BY DEF SInv, LeaderHolds, SingleWhileSessionsHold, SingleScheduler
<1>2. QED
  BY <1>1, SchedulerInductive, PTL

(* Leadership protects what the store does not: scheduled snapshots mark   *)
(* one baseline, although SnapshotWithAttribution checks for a baseline    *)
(* long before it saves one.                                               *)
THEOREM OneScheduledBaseline == SchedulerSpec => []OneBaselineWhileSessionsHold
<1>1. ASSUME SInv, losses = 0, OnlyScheduled PROVE OneBaseline
  <2> DEFINE S == {i \in DOMAIN saved : saved[i].baseline}
  <2>1. \A i, j \in S : i = j
    BY <1>1 DEF SInv, BaselineOnce, Undisturbed
  <2>2. CASE S = {}
    <3>1. Cardinality(S) = 0
      BY <2>2, FS_EmptySet
    <3>2. QED
      BY <3>1 DEF OneBaseline
  <2>3. CASE S # {}
    <3>1. PICK i \in S : TRUE
      BY <2>3
    <3>2. S = {i}
      BY <2>1, <3>1
    <3>3. Cardinality(S) = 1
      BY <3>2, FS_Singleton
    <3>4. QED
      BY <3>3 DEF OneBaseline
  <2>4. QED
    BY <2>2, <2>3
<1>2. SInv => OneBaselineWhileSessionsHold
  BY <1>1 DEF OneBaselineWhileSessionsHold
<1>3. QED
  BY <1>2, SchedulerInductive, PTL

(* Nobody is paged about a change that the store does not hold: a tick    *)
(* notifies after Deps.Snapshot has returned.                              *)
THEOREM PagedIsStored == SchedulerSpec => []NotifiedStored
<1>1. SInv => NotifiedStored
  BY DEF SInv
<1>2. QED
  BY <1>1, SchedulerInductive, PTL

(* What a scheduled snapshot finds and policy calls worth paging about has *)
(* reached the notifier when the tick is over, unless a call failed.       *)
THEOREM ScheduledIsPaged == SchedulerSpec => []ScheduledPaged
<1>1. ASSUME SInv PROVE ScheduledPaged
  <2> SUFFICES ASSUME failures = 0, unsent = 0, NEW v \in Versions, NEW e \in Notifiable(events),
                      v.trigger = "scheduled", v.id = e.to, Busy = {}
               PROVE  e \in notified
    BY DEF ScheduledPaged
  <2>1. \A r \in Replicas : pc[r] = "idle"
    BY <1>1 DEF SInv, Working, Busy
  <2>2. QED
    BY <1>1, <2>1 DEF SInv, PagedOrDue
<1>2. QED
  BY <1>1, SchedulerInductive, PTL

(***************************************************************************)
(* The order of the history.                                               *)
(***************************************************************************)

LEMMA UndisturbedBefore ==
    ASSUME SInv, [SchedulerNext]_allVars, Undisturbed'
    PROVE  Undisturbed
<1>0. SchedulerTypeOK /\ TypeOK
  BY DEF SInv, SchedulerTypeOK
<1>1. losses = 0
  <2>1. losses' \in {losses, losses + 1} /\ losses \in Nat
    BY <1>0 DEF SchedulerTypeOK, SchedulerNext, Elsewhere, ReleaseOrphan, IsLeader, LoseSession, Tick,
                RunSnapshot, SnapshotError, Notify, NotifyError, Crash, Restart, allVars, schedulerVars
  <2>2. QED
    BY <2>1 DEF Undisturbed
<1>2. CASE saved' = saved
  BY <1>1, <1>2, StoreUnchanged DEF Undisturbed, OnlyScheduled
<1>3. CASE saved' # saved
  <2>1. PICK p \in Snapshotters : SaveVersion(p)
    BY <1>0, <1>3, StepKinds, ProgressEffect DEF Aside, Forward, Over
  <2>2. QED
    BY <1>0, <1>1, <2>1, StillScheduled DEF Undisturbed
<1>4. QED
  BY <1>2, <1>3

(* While the history is undisturbed, what saves is the one scheduler.      *)
LEMMA SavedByScheduler ==
    ASSUME SInv, NEW p \in Snapshotters, SaveVersion(p), UNCHANGED losses, Undisturbed'
    PROVE  /\ Undisturbed /\ p \in Replicas
           /\ pc[p] = "saveVersion" /\ pc'[p] = IF found[p] = {} THEN "returned" ELSE "saveEvents"
           /\ \A r \in Replicas : r # p => pc'[r] = "idle"
<1>0. TypeOK
  BY DEF SInv, SchedulerTypeOK
<1>1. OnlyScheduled /\ draft[p].trigger = "scheduled"
  BY <1>0, StillScheduled DEF Undisturbed
<1>2. /\ pc[p] = "saveVersion"
      /\ pc'[p] = IF found[p] = {} THEN "returned" ELSE "saveEvents"
      /\ \A q \in Snapshotters : q # p => pc'[q] = pc[q]
  BY <1>0 DEF SaveVersion, TypeOK
<1>3. Trigger[p] = "scheduled"
  BY <1>1, <1>2 DEF SInv, DraftsTriggered
<1>4. p \in Replicas /\ losses = 0
  BY <1>3, ReplicasAre DEF Undisturbed
<1>5. \A r \in Replicas : r # p => pc'[r] = "idle"
  BY <1>2, <1>4, OneAtWork, ReplicasAre
<1>6. QED
  BY <1>1, <1>2, <1>4, <1>5 DEF Undisturbed

(* The offsets are integers and all the same. *)
LEMMA Clocks ==
    ASSUME TypeOK, ClocksAgree
    PROVE  /\ clock \in Nat
           /\ \A r \in Replicas : ClockOffset[r] \in Int
           /\ \A r, s \in Replicas : ClockOffset[r] = ClockOffset[s]
           /\ \A p \in Snapshotters : draft[p] \in Version /\ draft[p].created \in Int
           /\ DOMAIN saved = 1..Len(saved) /\ Len(saved) \in Nat
           /\ \A i \in DOMAIN saved : saved[i] \in Version /\ saved[i].created \in Int
<1>1. \A p \in Snapshotters : draft[p] \in Version
  BY DEF TypeOK
<1>2. \A v \in Version : v.created \in Int
  BY DEF Version
<1>3. /\ DOMAIN saved = 1..Len(saved) /\ Len(saved) \in Nat
      /\ \A i \in DOMAIN saved : saved[i] \in Version
  BY LenProperties, ElementOfSeq DEF TypeOK
<1>4. QED
  BY <1>1, <1>2, <1>3, ClockAssumption, ReplicasAre DEF TypeOK, ClocksAgree

(* Steps that neither save a version nor stamp one of a replica's. *)
LEMMA OrderQuiet ==
    ASSUME TypeOK, ClocksAgree, SavedInOrder, Undisturbed' => Undisturbed,
           saved' = saved, clock' \in {clock, clock + 1},
           \A r \in Replicas : pc'[r] \in {"baseline", "latest", "saveVersion"} =>
               /\ pc[r] \in {"baseline", "latest", "saveVersion"}
               /\ draft'[r].created = draft[r].created
    PROVE  SavedInOrder'
<1> SUFFICES ASSUME Undisturbed' PROVE SavedInOrder'
  BY DEF SavedInOrder
<1>1. /\ \A i, j \in DOMAIN saved : i < j => saved[i].created < saved[j].created
      /\ \A r \in Replicas, i \in DOMAIN saved : saved[i].created <= clock + ClockOffset[r]
      /\ \A r \in Replicas : pc[r] \in {"baseline", "latest", "saveVersion"} =>
               /\ draft[r].created <= clock + ClockOffset[r]
               /\ \A i \in DOMAIN saved : saved[i].created < draft[r].created
  BY DEF SavedInOrder
<1>2. \A r \in Replicas : \A x \in Int : x <= clock + ClockOffset[r] => x <= clock' + ClockOffset[r]
  BY Clocks
<1>3. \A r \in Replicas, i \in DOMAIN saved : saved[i].created <= clock' + ClockOffset[r]
  BY <1>1, <1>2, Clocks
<1>4. \A r \in Replicas : pc'[r] \in {"baseline", "latest", "saveVersion"} =>
               /\ draft'[r].created <= clock' + ClockOffset[r]
               /\ \A i \in DOMAIN saved : saved[i].created < draft'[r].created
  BY <1>1, <1>2, Clocks, ReplicasAre
<1>5. QED
  BY <1>1, <1>3, <1>4 DEF SavedInOrder

LEMMA OrderBuild ==
    ASSUME TypeOK, ClocksAgree, SavedInOrder, Undisturbed' => Undisturbed,
           NEW p \in Snapshotters, Build(p)
    PROVE  SavedInOrder'
<1>1. /\ clock' = clock + 1 /\ saved' = saved
      /\ draft'[p].created = clock + 1 + ClockOffset[p]
      /\ \A q \in Snapshotters : q # p => pc'[q] = pc[q] /\ draft'[q] = draft[q]
  BY Clocks DEF Build, TypeOK, storeVars, Version
<1>2. CASE p \notin Replicas
  BY <1>1, <1>2, OrderQuiet, ReplicasAre
<1>3. CASE p \in Replicas
  <2> SUFFICES ASSUME Undisturbed' PROVE SavedInOrder'
    BY DEF SavedInOrder
  <2>1. /\ \A i, j \in DOMAIN saved : i < j => saved[i].created < saved[j].created
        /\ \A r \in Replicas, i \in DOMAIN saved : saved[i].created <= clock + ClockOffset[r]
        /\ \A r \in Replicas : pc[r] \in {"baseline", "latest", "saveVersion"} =>
               /\ draft[r].created <= clock + ClockOffset[r]
               /\ \A i \in DOMAIN saved : saved[i].created < draft[r].created
    BY DEF SavedInOrder
  <2>2. \A r \in Replicas, i \in DOMAIN saved : saved[i].created < clock + 1 + ClockOffset[r]
    BY <2>1, Clocks
  <2>3. \A r \in Replicas, i \in DOMAIN saved : saved[i].created <= clock' + ClockOffset[r]
    BY <1>1, <2>2, Clocks
  <2>4. ASSUME NEW r \in Replicas, pc'[r] \in {"baseline", "latest", "saveVersion"}
        PROVE  /\ draft'[r].created <= clock' + ClockOffset[r]
               /\ \A i \in DOMAIN saved : saved[i].created < draft'[r].created
    <3>1. CASE r = p
      BY <1>1, <2>2, <3>1, Clocks
    <3>2. CASE r # p
      <4>1. /\ draft'[r] = draft[r]
            /\ draft[r].created <= clock + ClockOffset[r]
            /\ \A i \in DOMAIN saved : saved[i].created < draft[r].created
        BY <1>1, <2>1, <2>4, <3>2, ReplicasAre
      <4>2. QED
        BY <1>1, <4>1, Clocks, ReplicasAre
    <3>3. QED
      BY <3>1, <3>2
  <2>5. QED
    BY <1>1, <2>1, <2>3, <2>4 DEF SavedInOrder
<1>4. QED
  BY <1>2, <1>3

LEMMA OrderSaved ==
    ASSUME SInv, ClocksAgree, SavedInOrder, NEW p \in Snapshotters, SaveVersion(p), UNCHANGED losses
    PROVE  SavedInOrder'
<1> SUFFICES ASSUME Undisturbed' PROVE SavedInOrder'
  BY DEF SavedInOrder
<1>0. TypeOK
  BY DEF SInv, SchedulerTypeOK
<1>1. Undisturbed /\ p \in Replicas /\ pc[p] = "saveVersion"
      /\ \A r \in Replicas : pc'[r] \notin {"baseline", "latest", "saveVersion"}
  BY SavedByScheduler
<1>2. clock' = clock
  BY DEF SaveVersion, countVars
<1>3. /\ \A i, j \in DOMAIN saved : i < j => saved[i].created < saved[j].created
      /\ \A r \in Replicas, i \in DOMAIN saved : saved[i].created <= clock + ClockOffset[r]
      /\ draft[p].created <= clock + ClockOffset[p]
      /\ \A i \in DOMAIN saved : saved[i].created < draft[p].created
  BY <1>1 DEF SavedInOrder
<1>4. ASSUME NEW i \in DOMAIN saved', NEW j \in DOMAIN saved', i < j
      PROVE  saved'[i].created < saved'[j].created
  <2>1. i \in DOMAIN saved /\ (j \in DOMAIN saved \/ j = Len(saved) + 1)
    BY <1>0, <1>4, SavedGrows
  <2>2. QED
    BY <1>0, <1>3, <1>4, <2>1, SavedGrows
<1>5. ASSUME NEW r \in Replicas, NEW i \in DOMAIN saved'
      PROVE  saved'[i].created <= clock + ClockOffset[r]
  <2>1. CASE i \in DOMAIN saved
    BY <1>0, <1>3, <2>1, SavedGrows
  <2>2. CASE i = Len(saved) + 1
    BY <1>0, <1>1, <1>3, <2>2, SavedGrows, Clocks
  <2>3. QED
    BY <1>0, <2>1, <2>2, SavedGrows
<1>6. QED
  BY <1>1, <1>2, <1>4, <1>5 DEF SavedInOrder

LEMMA OrderStep ==
    ASSUME SInv, ClocksAgree, SavedInOrder, [SchedulerNext]_allVars
    PROVE  SavedInOrder'
<1>0. /\ SchedulerTypeOK /\ TypeOK
      /\ Undisturbed' => Undisturbed
  BY UndisturbedBefore DEF SInv, SchedulerTypeOK
<1>1. CASE Aside
  BY <1>0, <1>1, OrderQuiet DEF Aside
<1>2. ASSUME NEW p \in Snapshotters, Forward(p) PROVE SavedInOrder'
  <2>1. /\ Progress(p) /\ losses' = losses
        /\ \A q \in Snapshotters : q # p => pc'[q] = pc[q] /\ draft'[q] = draft[q]
    BY <1>0, <1>2, ProgressEffect DEF Forward, schedulerVars
  <2>2. CASE Build(p)
    BY <1>0, <2>2, OrderBuild
  <2>3. CASE SaveVersion(p)
    BY <2>1, <2>3, OrderSaved
  <2>4. CASE ~Build(p) /\ ~SaveVersion(p)
    <3>1. saved' = saved /\ clock' = clock
      BY <1>0, <2>1, <2>4, ProgressEffect
    <3>2. pc'[p] \in {"baseline", "latest", "saveVersion"} =>
              /\ pc[p] \in {"baseline", "latest", "saveVersion"}
              /\ draft'[p].created = draft[p].created
      <4>1. CASE Discover(p) \/ SaveEvents(p)
        BY <1>0, <4>1 DEF Discover, SaveEvents, TypeOK
      <4>2. CASE CheckBaseline(p)
        BY <1>0, <4>2 DEF CheckBaseline, TypeOK, Version
      <4>3. CASE ReadLatest(p)
        BY <4>3 DEF ReadLatest
      <4>4. QED
        BY <2>1, <2>4, <4>1, <4>2, <4>3 DEF Progress
    <3>3. QED
      BY <1>0, <2>1, <3>1, <3>2, OrderQuiet, ReplicasAre
  <2>5. QED
    BY <2>2, <2>3, <2>4
<1>3. ASSUME NEW p \in Snapshotters, Over(p) PROVE SavedInOrder'
  BY <1>0, <1>3, ForgetEffect, OrderQuiet, ReplicasAre DEF Over
<1>4. QED
  BY <1>0, <1>1, <1>2, <1>3, StepKinds

(* Postgres' latest version is then the last one saved. *)
LEMMA LatestIsLast ==
    ASSUME SInv, ClocksAgree, SavedInOrder, Undisturbed, saved # <<>>, NEW v \in LatestVersions
    PROVE  v = saved[Len(saved)]
<1>0. TypeOK
  BY DEF SInv, SchedulerTypeOK
<1>1. backend = "postgres"
  BY <1>0, SchedulerAssumption DEF TypeOK
<1>2. v \in Versions /\ \A w \in Versions : w.created <= v.created
  BY <1>1 DEF LatestVersions
<1>3. PICK i \in DOMAIN saved : v = saved[i]
  BY <1>2 DEF Versions, Range
<1>4. Len(saved) \in DOMAIN saved /\ saved[Len(saved)] \in Versions
  <2>1. Len(saved) # 0
    BY <1>0, LenProperties DEF TypeOK
  <2>2. QED
    BY <1>0, <2>1, Clocks DEF Versions, Range
<1>5. CASE i < Len(saved)
  BY <1>0, <1>2, <1>3, <1>4, <1>5, Clocks DEF SavedInOrder
<1>6. QED
  BY <1>0, <1>3, <1>5, Clocks

(* Steps that store nothing and find nothing. *)
LEMMA ComparedQuiet ==
    ASSUME ComparedWithLast, Undisturbed' => Undisturbed, saved' = saved,
           \A r \in Replicas : pc'[r] \in {"saveVersion", "saveEvents"} =>
               \/ pc'[r] = pc[r] /\ draft'[r] = draft[r] /\ found'[r] = found[r]
               \/ pc'[r] = "saveVersion" /\ found'[r] = {}
    PROVE  ComparedWithLast'
BY DEF ComparedWithLast

LEMMA ComparedRead ==
    ASSUME SInv, ClocksAgree, SavedInOrder, ComparedWithLast, Undisturbed' => Undisturbed,
           NEW p \in Snapshotters, ReadLatest(p)
    PROVE  ComparedWithLast'
<1>0. TypeOK /\ IInv
  BY DEF SInv, SchedulerTypeOK
<1>1. /\ saved' = saved /\ draft' = draft /\ pc'[p] = "saveVersion" /\ pc[p] = "latest"
      /\ \A q \in Snapshotters : q # p => pc'[q] = pc[q] /\ found'[q] = found[q]
  BY <1>0 DEF ReadLatest, TypeOK, storeVars
<1> SUFFICES ASSUME Undisturbed' PROVE ComparedWithLast'
  BY DEF ComparedWithLast
<1>2. saved # <<>>
  BY <1>0, <1>1 DEF IInv, BaselineAhead
<1>3. PICK prev \in LatestVersions :
          found' = [found EXCEPT ![p] =
              IF Hash(draft[p].graph) = Hash(prev.graph) THEN {}
                                                         ELSE EventsBetween(prev, draft[p])]
  BY DEF ReadLatest
<1>4. prev = saved[Len(saved)] /\ prev \in Version /\ draft[p] \in Version
  BY <1>0, <1>2, <1>3, LatestIsLast, LatestIsStored, RangeType DEF Versions, TypeOK
<1>5. \A e \in EventsBetween(prev, draft[p]) : e.from = prev.id
  BY <1>4, EventsBetweenType
<1>6. \A e \in found'[p] : e.from = saved[Len(saved)].id
  <2>1. found'[p] = {} \/ found'[p] = EventsBetween(prev, draft[p])
    BY <1>0, <1>3 DEF TypeOK
  <2>2. QED
    BY <1>4, <1>5, <2>1
<1>7. QED
  BY <1>1, <1>2, <1>6, ReplicasAre DEF ComparedWithLast

LEMMA ComparedSaved ==
    ASSUME SInv, ComparedWithLast, NEW p \in Snapshotters, SaveVersion(p), UNCHANGED losses
    PROVE  ComparedWithLast'
<1> SUFFICES ASSUME Undisturbed' PROVE ComparedWithLast'
  BY DEF ComparedWithLast
<1>0. TypeOK
  BY DEF SInv, SchedulerTypeOK
<1>1. /\ Undisturbed /\ p \in Replicas /\ pc[p] = "saveVersion"
      /\ pc'[p] = IF found[p] = {} THEN "returned" ELSE "saveEvents"
      /\ \A r \in Replicas : r # p => pc'[r] = "idle"
  BY SavedByScheduler
<1>2. found' = found /\ draft' = draft
  BY DEF SaveVersion
<1>3. CASE found[p] = {}
  BY <1>1, <1>3 DEF ComparedWithLast
<1>4. CASE found[p] # {}
  <2>1. saved # <<>> /\ \A e \in found[p] : e.from = saved[Len(saved)].id
    BY <1>1, <1>4 DEF ComparedWithLast
  <2>2. Len(saved) # 0 /\ Len(saved) \in Nat
    BY <1>0, <2>1, LenProperties DEF TypeOK
  <2>3. Len(saved') > 1 /\ Len(saved') - 1 = Len(saved)
    BY <1>0, <2>2, SavedGrows
  <2>4. saved'[Len(saved') - 1] = saved[Len(saved)] /\ saved'[Len(saved')] = draft[p]
    BY <1>0, <2>2, <2>3, SavedGrows
  <2>5. \A e \in found'[p] : e.from = saved'[Len(saved') - 1].id
    BY <1>2, <2>1, <2>4
  <2>6. QED
    BY <1>1, <1>2, <2>3, <2>4, <2>5 DEF ComparedWithLast
<1>5. QED
  BY <1>3, <1>4

LEMMA ComparedStep ==
    ASSUME SInv, ClocksAgree, SavedInOrder, ComparedWithLast, [SchedulerNext]_allVars
    PROVE  ComparedWithLast'
<1>0. /\ SchedulerTypeOK /\ TypeOK /\ IInv
      /\ Undisturbed' => Undisturbed
  BY UndisturbedBefore DEF SInv, SchedulerTypeOK
<1>1. CASE Aside
  BY <1>0, <1>1, ComparedQuiet DEF Aside
<1>2. ASSUME NEW p \in Snapshotters, Forward(p) PROVE ComparedWithLast'
  <2>1. /\ Progress(p) /\ losses' = losses
        /\ \A q \in Snapshotters :
              q # p => pc'[q] = pc[q] /\ draft'[q] = draft[q] /\ found'[q] = found[q]
    BY <1>0, <1>2, ProgressEffect DEF Forward, schedulerVars
  <2>2. CASE ReadLatest(p)
    BY <1>0, <2>2, ComparedRead
  <2>3. CASE SaveVersion(p)
    BY <2>1, <2>3, ComparedSaved
  <2>4. CASE ~ReadLatest(p) /\ ~SaveVersion(p)
    <3>1. saved' = saved
      BY <1>0, <2>1, <2>4, ProgressEffect
    <3>2. pc'[p] \in {"saveVersion", "saveEvents"} => pc'[p] = "saveVersion" /\ found'[p] = {}
      <4>1. CASE CheckBaseline(p)
        BY <1>0, <4>1 DEF CheckBaseline, IInv, FoundExplained, TypeOK
      <4>2. CASE Discover(p) \/ Build(p) \/ SaveEvents(p)
        BY <1>0, <4>2 DEF Discover, Build, SaveEvents, TypeOK
      <4>3. QED
        BY <2>1, <2>4, <4>1, <4>2 DEF Progress
    <3>3. QED
      BY <1>0, <2>1, <3>1, <3>2, ComparedQuiet, ReplicasAre
  <2>5. QED
    BY <2>2, <2>3, <2>4
<1>3. ASSUME NEW p \in Snapshotters, Over(p) PROVE ComparedWithLast'
  BY <1>0, <1>3, ForgetEffect, ComparedQuiet, ReplicasAre DEF Over
<1>4. QED
  BY <1>0, <1>1, <1>2, <1>3, StepKinds

(* Versions are appended: consecutive versions stay consecutive. *)
LEMMA SerialSaved ==
    ASSUME TypeOK, EventsConsecutive, NEW p \in Snapshotters, SaveVersion(p)
    PROVE  EventsConsecutive'
<1> SUFFICES ASSUME NEW e \in events'
             PROVE  \E i \in 1..(Len(saved') - 1) : e.from = saved'[i].id /\ e.to = saved'[i + 1].id
  BY DEF EventsConsecutive
<1>1. PICK i \in 1..(Len(saved) - 1) : e.from = saved[i].id /\ e.to = saved[i + 1].id
  BY DEF SaveVersion, EventsConsecutive
<1>2. /\ i \in 1..(Len(saved') - 1) /\ i \in DOMAIN saved /\ i + 1 \in DOMAIN saved
  BY SavedGrows
<1>3. saved'[i] = saved[i] /\ saved'[i + 1] = saved[i + 1]
  BY <1>2, SavedGrows
<1>4. QED
  BY <1>1, <1>2, <1>3

(* A scheduled snapshot's events join the last two versions. *)
LEMMA SerialEvents ==
    ASSUME SInv, ComparedWithLast, Undisturbed, EventsConsecutive,
           NEW p \in Snapshotters, SaveEvents(p)
    PROVE  EventsConsecutive'
<1>0. TypeOK /\ IInv
  BY DEF SInv, SchedulerTypeOK
<1>1. /\ pc[p] = "saveEvents" /\ events' = events \cup found[p] /\ saved' = saved
  BY DEF SaveEvents
<1>2. p \in Replicas
  <2>1. draft[p] \in Versions
    BY <1>0, <1>1 DEF IInv, DraftsStored
  <2>2. draft[p].trigger = "scheduled"
    BY <2>1 DEF Undisturbed, OnlyScheduled
  <2>3. QED
    BY <1>1, <2>2, ReplicasAre DEF SInv, DraftsTriggered
<1>3. /\ Len(saved) > 1 /\ draft[p] = saved[Len(saved)]
      /\ \A e \in found[p] : e.from = saved[Len(saved) - 1].id
  BY <1>1, <1>2 DEF ComparedWithLast
<1>4. Len(saved) \in Nat
  BY <1>0, LenProperties DEF TypeOK
<1>5. ASSUME NEW e \in found[p]
      PROVE  \E i \in 1..(Len(saved) - 1) : e.from = saved[i].id /\ e.to = saved[i + 1].id
  <2>1. e.to = saved[Len(saved)].id /\ e.from = saved[Len(saved) - 1].id
    BY <1>0, <1>3, FoundLeadsToDraft
  <2>2. Len(saved) - 1 \in 1..(Len(saved) - 1) /\ (Len(saved) - 1) + 1 = Len(saved)
    BY <1>3, <1>4
  <2>3. QED
    BY <2>1, <2>2
<1>6. QED
  BY <1>1, <1>5 DEF EventsConsecutive

LEMMA SerialStep ==
    ASSUME SInv, ComparedWithLast, SerialHistory, [SchedulerNext]_allVars
    PROVE  SerialHistory'
<1>0. SchedulerTypeOK /\ TypeOK
  BY DEF SInv, SchedulerTypeOK
<1> SUFFICES ASSUME Undisturbed' PROVE EventsConsecutive'
  BY DEF SerialHistory, Undisturbed
<1>1. Undisturbed /\ EventsConsecutive
  BY UndisturbedBefore DEF SerialHistory, Undisturbed
<1>2. CASE UNCHANGED <<saved, events>>
  BY <1>1, <1>2 DEF EventsConsecutive
<1>3. ASSUME NEW p \in Snapshotters, Forward(p) PROVE EventsConsecutive'
  BY <1>0, <1>1, <1>2, <1>3, SerialSaved, SerialEvents, ProgressEffect DEF Forward
<1>4. QED
  BY <1>0, <1>2, <1>3, StepKinds DEF Aside, Over

(* "diffs it against the previous version" (ARCHITECTURE.md): across       *)
(* leader changes and crashes, scheduled snapshots are compared with the   *)
(* version saved right before them, provided the replicas' clocks agree.   *)
(* Without that a new leader's created_at may fall behind the versions     *)
(* already stored, and LatestVersion answers an older one.                 *)
THEOREM HistoryIsSerial ==
    ASSUME ClocksAgree
    PROVE  SchedulerSpec => []SerialHistory
<1>1. SchedulerInit => HistoryInv
  <2> SUFFICES ASSUME SchedulerInit PROVE HistoryInv
    OBVIOUS
  <2>1. saved = <<>> /\ events = {} /\ \A p \in Snapshotters : pc[p] = "idle"
    BY DEF SchedulerInit, Init
  <2>2. DOMAIN saved = {}
    BY <2>1
  <2>3. SavedInOrder
    BY <2>1, <2>2, ReplicasAre DEF SavedInOrder
  <2>4. ComparedWithLast
    BY <2>1, ReplicasAre DEF ComparedWithLast
  <2>5. SerialHistory
    BY <2>1 DEF SerialHistory, EventsConsecutive
  <2>6. QED
    BY <2>3, <2>4, <2>5 DEF HistoryInv
<1>2. SInv /\ HistoryInv /\ [SchedulerNext]_allVars => HistoryInv'
  <2> SUFFICES ASSUME SInv, HistoryInv, [SchedulerNext]_allVars PROVE HistoryInv'
    OBVIOUS
  <2>1. SavedInOrder' /\ ComparedWithLast' /\ SerialHistory'
    BY OrderStep, ComparedStep, SerialStep DEF HistoryInv
  <2>2. QED
    BY <2>1 DEF HistoryInv
<1>3. HistoryInv => SerialHistory
  BY DEF HistoryInv
<1>4. QED
  BY <1>1, <1>2, <1>3, SchedulerInductive, PTL DEF SchedulerSpec

=============================================================================
