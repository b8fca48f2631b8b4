------------------------------ MODULE Scheduler ------------------------------
(***************************************************************************)
(* The leader-gated scheduler of a multi-replica deployment                *)
(* (cli.runScheduler over coordination.pgLeader), composed with Snapshot:  *)
(* the scheduled snapshotters are the replicas' scheduler goroutines, the  *)
(* manual ones are HTTP and CLI callers on the same Postgres store.        *)
(*                                                                         *)
(* Leadership is a session-level advisory lock.  What the server thinks    *)
(* ("lock") and what a replica thinks ("conn") are different state: a lost *)
(* session may free the lock long before the replica looks at its          *)
(* connection again, and a dead client's session may keep the lock.        *)
(***************************************************************************)
EXTENDS Snapshot

CONSTANTS
    Free,           \* nobody holds the advisory lock
    Orphaned        \* a session whose client is gone still holds it

Replicas == {p \in Snapshotters : Trigger[p] = "scheduled"}

ASSUME SchedulerAssumption ==
    /\ Backends = {"postgres"}
    /\ Free # Orphaned
    /\ {Free, Orphaned} \cap Snapshotters = {}

VARIABLES
    lock,       \* holder of the advisory lock, as the server sees it
    conn,       \* pgLeader.conn of each replica: "none", "held", "broken"
    up,         \* whether the replica's process runs
    leading,    \* IsLeader said yes and the tick it said it for is not over
    notified,   \* change events delivered to the notifier
    losses,     \* sessions lost so far
    unsent      \* deliveries failed so far

leaderVars    == <<lock, conn, up>>
schedulerVars == <<lock, conn, up, leading, notified, losses, unsent>>
allVars       == <<vars, schedulerVars>>

(* MaxFailures bounds faults of every kind together. *)
FaultsLeft == failures + losses + unsent < MaxFailures

SchedulerInit ==
    /\ Init
    /\ lock = Free
    /\ conn = [r \in Replicas |-> "none"]
    /\ up = [r \in Replicas |-> TRUE]
    /\ leading = [r \in Replicas |-> FALSE]
    /\ notified = {}
    /\ losses = 0
    /\ unsent = 0

-----------------------------------------------------------------------------
(* pgLeader. *)

(* The held connection answers the ping: still leader. *)
ConfirmLeadership(r) ==
    /\ conn[r] = "held"
    /\ leading' = [leading EXCEPT ![r] = TRUE]
    /\ UNCHANGED <<lock, conn>>

(* A plausible bug: the answer of pg_try_advisory_lock is ignored.         *)
AcquireUnasked(r) ==
    /\ conn[r] # "held"
    /\ lock' = r
    /\ conn' = [conn EXCEPT ![r] = "held"]
    /\ leading' = [leading EXCEPT ![r] = TRUE]

(* No connection, or one that no longer answers and is dropped: contend    *)
(* for the lock on a fresh one.                                            *)
AcquireLeadership(r) ==
    /\ conn[r] # "held"
    /\ lock = Free
    /\ lock' = r
    /\ conn' = [conn EXCEPT ![r] = "held"]
    /\ leading' = [leading EXCEPT ![r] = TRUE]

(* Somebody else's session has the lock; a dead connection is let go.      *)
LoseContention(r) ==
    /\ conn[r] # "held"
    /\ lock # Free
    /\ conn' = [conn EXCEPT ![r] = "none"]
    /\ UNCHANGED <<lock, leading>>

(* No fresh connection is to be had, or the query on it fails.             *)
DialError(r) ==
    /\ conn[r] # "held"
    /\ FaultsLeft
    /\ failures' = failures + 1
    /\ conn' = [conn EXCEPT ![r] = "none"]
    /\ UNCHANGED <<backend, world, storeVars, processVars, snapshots, clock, changes, lock, leading>>

(* A tick begins with IsLeader. *)
IsLeader(r) ==
    /\ up[r]
    /\ ~leading[r]
    /\ \/ /\ ConfirmLeadership(r) \/ AcquireLeadership(r) \/ LoseContention(r)
          /\ UNCHANGED vars
       \/ DialError(r)
    /\ UNCHANGED <<up, notified, losses, unsent>>

(* The leader's session breaks while its process lives: the server may     *)
(* free the lock at once, or hold it until it notices.                     *)
LoseSession(r) ==
    /\ conn[r] = "held"
    /\ FaultsLeft
    /\ losses' = losses + 1
    /\ conn' = [conn EXCEPT ![r] = "broken"]
    /\ lock' \in {Free, Orphaned}
    /\ UNCHANGED <<vars, up, leading, notified, unsent>>

(* Postgres notices that the session's client is gone. *)
ReleaseOrphan ==
    /\ lock = Orphaned
    /\ lock' = Free
    /\ UNCHANGED <<vars, conn, up, leading, notified, losses, unsent>>

-----------------------------------------------------------------------------
(* runScheduler: one tick of the leader, then the process itself.          *)

EndTick(r) == leading' = [leading EXCEPT ![r] = FALSE]

(* deps.Snapshot runs. *)
RunSnapshot(r) ==
    /\ leading[r]
    /\ Progress(r)
    /\ UNCHANGED schedulerVars

(* deps.Snapshot returns an error: discovery failed, or the store did.     *)
SnapshotError(r) ==
    /\ leading[r]
    /\ \/ pc[r] = "idle" /\ UNCHANGED vars
       \/ FaultsLeft /\ Fail(r)
    /\ EndTick(r)
    /\ UNCHANGED <<leaderVars, notified, losses, unsent>>

(* A plausible bug: the batch is stripped of its version IDs.              *)
NotifiableChanges(evs) == {e.change : e \in {f \in evs : ShouldNotify(f.change)}}

Notifiable(evs) == {e \in evs : ShouldNotify(e.change)}

(* Plausible bugs: notifying ahead of the store; paging for high severity  *)
(* only.                                                                   *)
NotifyEarly(r) ==
    /\ leading[r]
    /\ pc[r] \in {"saveEvents", "returned"}
    /\ Forget(r)
    /\ EndTick(r)
    /\ notified' = notified \cup Notifiable(found[r])
    /\ UNCHANGED <<backend, world, storeVars, countVars, leaderVars, losses, unsent>>

NotifyHigh(r) ==
    /\ leading[r]
    /\ Return(r)
    /\ EndTick(r)
    /\ notified' = notified \cup
           {e \in Notifiable(found[r]) : e.change.mark.severity \in {"high", "critical"}}
    /\ UNCHANGED <<leaderVars, losses, unsent>>

(* n.Notify delivers the events worth paging about, if there are any.      *)
Notify(r) ==
    /\ leading[r]
    /\ Return(r)
    /\ EndTick(r)
    /\ notified' = notified \cup Notifiable(found[r])
    /\ UNCHANGED <<leaderVars, losses, unsent>>

(* The delivery fails; the error is printed and the tick is over.          *)
NotifyError(r) ==
    /\ leading[r]
    /\ Return(r)
    /\ Notifiable(found[r]) # {}
    /\ FaultsLeft
    /\ unsent' = unsent + 1
    /\ EndTick(r)
    /\ UNCHANGED <<leaderVars, notified, losses>>

(* A plausible bug: the connection goes back to a pooler with the lock.    *)
CrashKeepsLock(r) ==
    /\ up[r]
    /\ FaultsLeft
    /\ failures' = failures + 1
    /\ Forget(r)
    /\ EndTick(r)
    /\ up' = [up EXCEPT ![r] = FALSE]
    /\ conn' = [conn EXCEPT ![r] = "none"]
    /\ UNCHANGED <<backend, world, storeVars, snapshots, clock, changes, lock, notified, losses, unsent>>

(* The replica stops, wherever its scheduler is.  Its sessions die with    *)
(* it, at once after Close and sooner or later after a crash.              *)
Crash(r) ==
    /\ up[r]
    /\ FaultsLeft
    /\ failures' = failures + 1
    /\ Forget(r)
    /\ EndTick(r)
    /\ up' = [up EXCEPT ![r] = FALSE]
    /\ conn' = [conn EXCEPT ![r] = "none"]
    /\ lock' \in IF lock = r THEN {Free, Orphaned} ELSE {lock}
    /\ UNCHANGED <<backend, world, storeVars, snapshots, clock, changes, notified, losses, unsent>>

Restart(r) ==
    /\ ~up[r]
    /\ up' = [up EXCEPT ![r] = TRUE]
    /\ UNCHANGED <<vars, lock, conn, leading, notified, losses, unsent>>

Tick(r) == RunSnapshot(r) \/ SnapshotError(r) \/ Notify(r) \/ NotifyError(r)

(* A deploy, or a step of a manual snapshot: nobody is notified of its     *)
(* result but the caller.                                                  *)
Elsewhere ==
    /\ \/ Deploy
       \/ \E p \in Snapshotters \ Replicas : Progress(p) \/ Return(p) \/ (FaultsLeft /\ Fail(p))
    /\ UNCHANGED schedulerVars

SchedulerNext ==
    \/ Elsewhere
    \/ ReleaseOrphan
    \/ \E r \in Replicas :
           IsLeader(r) \/ LoseSession(r) \/ Tick(r) \/ Crash(r) \/ Restart(r)

SchedulerSpec == SchedulerInit /\ [][SchedulerNext]_allVars

(* Every running replica's ticker keeps firing and a started tick goes on  *)
(* (time.Ticker, one goroutine, every call has a timeout); the server      *)
(* notices dead sessions (TCP keepalive).  Nobody need restart a replica.  *)
Fairness ==
    /\ \A r \in Replicas : WF_allVars(IsLeader(r)) /\ WF_allVars(Tick(r))
    /\ WF_allVars(ReleaseOrphan)

FairSpec == SchedulerSpec /\ Fairness

-----------------------------------------------------------------------------
SchedulerTypeOK ==
    /\ TypeOK
    /\ lock \in Replicas \cup {Free, Orphaned}
    /\ conn \in [Replicas -> {"none", "held", "broken"}]
    /\ up \in [Replicas -> BOOLEAN]
    /\ leading \in [Replicas -> BOOLEAN]
    /\ notified \in SUBSET Event
    /\ losses \in Nat
    /\ unsent \in Nat

SingleScheduler ==
    \A r, s \in Replicas : leading[r] /\ leading[s] => r = s

(* "exactly one replica runs the scheduler" (coordination.go): as long as  *)
(* no leader loses its session while its process lives, two replicas are   *)
(* never between IsLeader and the end of the tick together, whatever       *)
(* crashes, restarts and shutdowns happen.                                 *)
SingleWhileSessionsHold == losses = 0 => SingleScheduler

(* The store holds nothing a manual snapshot saved. *)
OnlyScheduled == \A v \in Versions : v.trigger = "scheduled"

(* Leadership then protects the store, which does not protect itself:      *)
(* scheduled snapshots alone mark one baseline, wherever replicas crash.   *)
OneBaselineWhileSessionsHold == losses = 0 /\ OnlyScheduled => OneBaseline

(* An event compares two versions stored one right after the other. *)
EventsConsecutive ==
    \A e \in events : \E i \in 1..(Len(saved) - 1) :
        e.from = saved[i].id /\ e.to = saved[i + 1].id

(* "diffs it against the previous version" (ARCHITECTURE.md): across       *)
(* leader changes and crashes, scheduled snapshots are compared with the   *)
(* version saved right before them.                                        *)
SerialHistory == losses = 0 /\ OnlyScheduled => EventsConsecutive

(* Nobody is paged about a change the store does not hold. *)
NotifiedStored == notified \subseteq events

Busy == {r \in Replicas : leading[r]}

(* A scheduled snapshot's changes reach the notifier by the end of the     *)
(* tick, unless a failure cut the tick short or the delivery failed.       *)
ScheduledPaged ==
    failures = 0 /\ unsent = 0 =>
        \A v \in Versions, e \in Notifiable(events) :
            v.trigger = "scheduled" /\ v.id = e.to /\ Busy = {} => e \in notified

(* "a standby takes over automatically if the leader dies"                 *)
(* (security-audit.md): while some replica stays up, again and again some  *)
(* replica passes the leader check.                                        *)
Takeover ==
    <>[](\E r \in Replicas : up[r]) => []<>(\E r \in Replicas : leading[r])
=============================================================================
