------------------------------- MODULE Snapshot -------------------------------
(***************************************************************************)
(* Taking a snapshot (app.Deps.Snapshot and                                *)
(* contract.SnapshotWithAttribution) over the contract store.              *)
(*                                                                         *)
(* A snapshot is a straight line of calls: discovery reads the deployed    *)
(* configuration, Build stamps the version, and then the store is read     *)
(* twice and written once or twice.  Nothing holds a lock or a transaction *)
(* across those calls, so each call is one action and any number of        *)
(* snapshotters (HTTP handlers, the scheduler, replicas) interleave.       *)
(*                                                                         *)
(* Both stores are modelled: the in-memory one, where the latest version   *)
(* is the last one saved, and Postgres, where it is the one with the       *)
(* largest created_at, a local clock reading taken before the save.        *)
(***************************************************************************)
EXTENDS Diff, Sequences, Functions

CONSTANTS
    Snapshotters,   \* the goroutines that take snapshots
    Graphs,         \* contract graphs the deployed configuration can yield
    Backends,       \* the stores considered, out of "memory" and "postgres"
    Trigger,        \* why each of them does: "scheduled" or "manual"
    ClockOffset,    \* how far each snapshotter's clock is from true time
    MaxSnapshots,   \* bound: snapshots begun
    MaxChanges,     \* bound: changes of the deployed configuration
    MaxFailures     \* bound: snapshots cut short by an error or a crash

ASSUME BackendAssumption == Backends \subseteq {"memory", "postgres"}
ASSUME TriggerAssumption == Trigger \in [Snapshotters -> {"scheduled", "manual"}]
ASSUME GraphsAssumption  == /\ Graphs # {}
                            /\ \A g \in Graphs : \A id \in DOMAIN g : g[id] \in Consumer
ASSUME ClockAssumption   == ClockOffset \in [Snapshotters -> Int]
ASSUME BoundsAssumption  == MaxSnapshots \in Nat /\ MaxChanges \in Nat /\ MaxFailures \in Nat

VARIABLES
    backend,    \* the store the process opened when it started
    world,      \* the graph discovery would read now
    saved,      \* contract_versions in the order they were saved
    events,     \* change_events
    pc,         \* where each snapshotter is in its call
    draft,      \* the ContractVersion each snapshotter is taking
    found,      \* the change events it has computed
    snapshots,  \* snapshots begun; the last version ID handed out
    clock,      \* versions stamped; the true time of the last Build
    changes,    \* changes of the world so far
    failures    \* snapshots cut short so far

storeVars   == <<saved, events>>
processVars == <<pc, draft, found>>
countVars   == <<snapshots, clock, changes, failures>>
vars        == <<backend, world, storeVars, processVars, countVars>>

Version == [id : Nat, created : Int, graph : Graphs, baseline : BOOLEAN,
            trigger : {"scheduled", "manual"}]
NoGraph == CHOOSE g \in Graphs : TRUE
Blank   == [id |-> 0, created |-> 0, graph |-> NoGraph, baseline |-> FALSE,
            trigger |-> "manual"]

Step == {"idle", "build", "baseline", "latest", "saveVersion", "saveEvents", "returned"}

-----------------------------------------------------------------------------
(* The store. *)

Versions == Range(saved)
SavedIDs == {v.id : v \in Versions}

(* BaselineVersion finds a row rather than ErrNotFound. *)
HasBaseline == \E v \in Versions : v.baseline

(* A plausible bug: ORDER BY created_at ASC, or the head of the order.     *)
OldestVersions == {v \in Versions : \A w \in Versions : v.created <= w.created}

(* LatestVersion: the versions the call may return.  Memory keeps the save *)
(* order; Postgres orders by created_at and breaks ties as it likes.       *)
LatestVersions ==
    IF backend = "memory"
    THEN {saved[i] : i \in {Len(saved)} \ {0}}
    ELSE {v \in Versions : \A w \in Versions : w.created <= v.created}

(* A plausible bug: the two versions are swapped.                          *)
EventsBetweenSwapped(from, to) ==
    {[from |-> to.id, to |-> from.id, change |-> c] : c \in Compute(from.graph, to.graph)}

(* diff.Compute as the store sees it: events tied to their two versions. *)
EventsBetween(from, to) ==
    {[from |-> from.id, to |-> to.id, change |-> c] : c \in Compute(from.graph, to.graph)}

-----------------------------------------------------------------------------
Init ==
    /\ backend \in Backends
    /\ world \in Graphs
    /\ saved = <<>>
    /\ events = {}
    /\ pc = [p \in Snapshotters |-> "idle"]
    /\ draft = [p \in Snapshotters |-> Blank]
    /\ found = [p \in Snapshotters |-> {}]
    /\ snapshots = 0
    /\ clock = 0
    /\ changes = 0
    /\ failures = 0

(* Someone deploys: discovery will see another graph from now on. *)
Deploy ==
    /\ changes < MaxChanges
    /\ changes' = changes + 1
    /\ world' \in Graphs \ {world}
    /\ UNCHANGED <<backend, storeVars, processVars, snapshots, clock, failures>>

(* A plausible bug: the trigger is not passed on.                          *)
DiscoverUntriggered(p) ==
    /\ pc[p] = "idle"
    /\ snapshots < MaxSnapshots
    /\ snapshots' = snapshots + 1
    /\ pc' = [pc EXCEPT ![p] = "build"]
    /\ draft' = [draft EXCEPT ![p] = [id |-> snapshots + 1, created |-> 0, graph |-> world,
                                      baseline |-> FALSE, trigger |-> ""]]
    /\ UNCHANGED <<backend, world, storeVars, found, clock, changes, failures>>

(* discovery.Run and Enrich: what is deployed now is what this snapshot    *)
(* will record.                                                            *)
Discover(p) ==
    /\ pc[p] = "idle"
    /\ snapshots < MaxSnapshots
    /\ snapshots' = snapshots + 1
    /\ pc' = [pc EXCEPT ![p] = "build"]
    /\ draft' = [draft EXCEPT ![p] = [id |-> snapshots + 1, created |-> 0, graph |-> world,
                                      baseline |-> FALSE, trigger |-> Trigger[p]]]
    /\ UNCHANGED <<backend, world, storeVars, found, clock, changes, failures>>

(* contract.Build: CreatedAt is read from the local clock. *)
Build(p) ==
    /\ pc[p] = "build"
    /\ clock' = clock + 1
    /\ pc' = [pc EXCEPT ![p] = "baseline"]
    /\ draft' = [draft EXCEPT ![p].created = clock + 1 + ClockOffset[p]]
    /\ UNCHANGED <<backend, world, storeVars, found, snapshots, changes, failures>>

(* A plausible bug: the version is not marked.                             *)
CheckBaselineUnmarked(p) ==
    /\ pc[p] = "baseline"
    /\ pc' = [pc EXCEPT ![p] = IF HasBaseline THEN "latest" ELSE "saveVersion"]
    /\ UNCHANGED <<backend, world, storeVars, draft, found, countVars>>

(* st.BaselineVersion: with no baseline this version becomes it. *)
CheckBaseline(p) ==
    /\ pc[p] = "baseline"
    /\ pc' = [pc EXCEPT ![p] = IF HasBaseline THEN "latest" ELSE "saveVersion"]
    /\ draft' = [draft EXCEPT ![p].baseline = ~HasBaseline]
    /\ UNCHANGED <<backend, world, storeVars, found, countVars>>

(* st.LatestVersion, the hash comparison and diff.Compute. *)
ReadLatest(p) ==
    /\ pc[p] = "latest"
    /\ \E prev \in LatestVersions :
           found' = [found EXCEPT ![p] =
               IF Hash(draft[p].graph) = Hash(prev.graph) THEN {}
                                                          ELSE EventsBetween(prev, draft[p])]
    /\ pc' = [pc EXCEPT ![p] = "saveVersion"]
    /\ UNCHANGED <<backend, world, storeVars, draft, countVars>>

(* A plausible bug: the result is handed back before its events are saved. *)
SaveVersionAndReturn(p) ==
    /\ pc[p] = "saveVersion"
    /\ saved' = Append(saved, draft[p])
    /\ pc' = [pc EXCEPT ![p] = "returned"]
    /\ UNCHANGED <<backend, world, events, draft, found, countVars>>

(* st.SaveContractVersion, on whichever branch. *)
SaveVersion(p) ==
    /\ pc[p] = "saveVersion"
    /\ saved' = Append(saved, draft[p])
    /\ pc' = [pc EXCEPT ![p] = IF found[p] = {} THEN "returned" ELSE "saveEvents"]
    /\ UNCHANGED <<backend, world, events, draft, found, countVars>>

(* A plausible bug: the inserts are not one transaction.                   *)
SaveSomeEvents(p) ==
    /\ pc[p] = "saveEvents"
    /\ \E some \in SUBSET found[p] : events' = events \cup some
    /\ pc' = [pc EXCEPT ![p] = "returned"]
    /\ UNCHANGED <<backend, world, saved, draft, found, countVars>>

(* st.SaveChangeEvents: one batch, one implicit transaction. *)
SaveEvents(p) ==
    /\ pc[p] = "saveEvents"
    /\ events' = events \cup found[p]
    /\ pc' = [pc EXCEPT ![p] = "returned"]
    /\ UNCHANGED <<backend, world, saved, draft, found, countVars>>

Forget(p) ==
    /\ pc' = [pc EXCEPT ![p] = "idle"]
    /\ draft' = [draft EXCEPT ![p] = Blank]
    /\ found' = [found EXCEPT ![p] = {}]

(* The SnapshotResult goes back to the caller. *)
Return(p) ==
    /\ pc[p] = "returned"
    /\ Forget(p)
    /\ UNCHANGED <<backend, world, storeVars, countVars>>

(* A Postgres call fails, the request's context ends, or the replica dies: *)
(* the rest of the snapshot does not happen, what was written stays.  The  *)
(* in-memory store's calls cannot fail and do not look at the context.     *)
Fail(p) ==
    /\ backend = "postgres"
    /\ pc[p] \in {"baseline", "latest", "saveVersion", "saveEvents"}
    /\ failures < MaxFailures
    /\ failures' = failures + 1
    /\ Forget(p)
    /\ UNCHANGED <<backend, world, storeVars, snapshots, clock, changes>>

(* The steps of one call, from discovery to the result. *)
Progress(p) ==
    \/ Discover(p)
    \/ Build(p)
    \/ CheckBaseline(p)
    \/ ReadLatest(p)
    \/ SaveVersion(p)
    \/ SaveEvents(p)

Next ==
    \/ Deploy
    \/ \E p \in Snapshotters : Progress(p) \/ Return(p) \/ Fail(p)

Spec == Init /\ [][Next]_vars

-----------------------------------------------------------------------------
(* A serial snapshotter's store is the abstract log.  A version is not in  *)
(* the log before its events are stored with it.                           *)

Unfinished == {draft[p].id : p \in {q \in Snapshotters : pc[q] = "saveEvents"}}

Recorded == IF Unfinished = {} THEN saved ELSE SubSeq(saved, 1, Len(saved) - 1)

ChangesTo(id) == {e.change : e \in {f \in events : f.to = id}}

Log == INSTANCE ContractLog WITH
           log <- [i \in DOMAIN Recorded |->
                      [graph |-> Recorded[i].graph, events |-> ChangesTo(Recorded[i].id)]]

(* One snapshotter at a time and no failure: the store implements the      *)
(* abstract log, every version reporting all its differences from the      *)
(* version before it and nothing else.                                     *)
ImplementsLog == Log!Spec

-----------------------------------------------------------------------------
Event == [from : Nat, to : Nat, change : UNION {Compute(g, h) : g \in Graphs, h \in Graphs}]

TypeOK ==
    /\ backend \in Backends
    /\ world \in Graphs
    /\ saved \in Seq(Version)
    /\ events \in SUBSET Event
    /\ pc \in [Snapshotters -> Step]
    /\ draft \in [Snapshotters -> Version]
    /\ found \in [Snapshotters -> SUBSET Event]
    /\ snapshots \in Nat
    /\ clock \in Nat
    /\ changes \in Nat
    /\ failures \in Nat

(* The first version ever stored is a baseline, so there is never a first  *)
(* run that reports a wall of changes (version.go, the comment on          *)
(* Snapshot): whatever raced with it, nothing is saved ahead of a baseline.*)
BaselineFirst == saved # <<>> => saved[1].baseline

(* A version marked as baseline is never reported as a change: no event    *)
(* leads to it, however many snapshotters believed they were the first.    *)
BaselineSilent ==
    \A e \in events, v \in Versions : e.to = v.id => ~v.baseline

(* Every stored event joins two stored versions (the foreign keys of       *)
(* change_events never trip), and the events that lead to one version are  *)
(* all the differences from one predecessor and nothing else: a report can *)
(* be recomputed from what was recorded, whoever raced to record it.       *)
EventsExplained ==
    \A e \in events :
        \E v, w \in Versions :
            {f \in events : f.to = e.to} = EventsBetween(v, w)

(* A result handed to the caller describes what the store holds: the       *)
(* version is stored and so is every event of the result.                  *)
ResultDurable ==
    \A p \in Snapshotters :
        pc[p] = "returned" => draft[p] \in Versions /\ found[p] \subseteq events

(* A contract that differs from every version stored before it is never    *)
(* recorded silently: unless it is a baseline, or a failure cut its        *)
(* snapshot short, events lead to it once its snapshot is over.            *)
NewContractReported ==
    failures = 0 =>
        \A i \in DOMAIN saved :
            \/ saved[i].baseline
            \/ saved[i].id \in Unfinished
            \/ \E j \in 1..(i - 1) : Compute(saved[j].graph, saved[i].graph) = {}
            \/ \E e \in events : e.to = saved[i].id

(* "Only one baseline row is expected" (000001_init.up.sql). *)
OneBaseline ==
    Cardinality({i \in DOMAIN saved : saved[i].baseline}) <= 1

-----------------------------------------------------------------------------
(* The inductive invariant, by the state it is about. *)

(* A version ID belongs to one snapshot and is saved at most once. *)
IDsUnique ==
    /\ \A v \in Versions : v.id \in 1..snapshots
    /\ \A v, w \in Versions : v.id = w.id => v = w
    /\ \A p \in Snapshotters : pc[p] # "idle" => draft[p].id \in 1..snapshots
    /\ \A p, q \in Snapshotters :
           pc[p] # "idle" /\ pc[q] # "idle" /\ draft[p].id = draft[q].id => p = q
    /\ \A p \in Snapshotters :
           pc[p] \in {"build", "baseline", "latest", "saveVersion"} => draft[p].id \notin SavedIDs

(* Once past SaveVersion a draft is in the store. *)
DraftsStored ==
    \A p \in Snapshotters : pc[p] \in {"saveEvents", "returned"} => draft[p] \in Versions

(* Nobody is about to save an unmarked version into an empty store. *)
BaselineAhead ==
    /\ BaselineFirst
    /\ \A p \in Snapshotters : pc[p] = "latest" => saved # <<>> /\ ~draft[p].baseline
    /\ \A p \in Snapshotters : pc[p] = "saveVersion" => saved # <<>> \/ draft[p].baseline

(* What a snapshotter has found joins its draft to one stored version. *)
FoundExplained ==
    \A p \in Snapshotters :
        /\ pc[p] \in {"idle", "build", "baseline", "latest"} => found[p] = {}
        /\ found[p] # {} => /\ ~draft[p].baseline
                           /\ \E v \in Versions : found[p] = EventsBetween(v, draft[p])

(* The stored events do the same, and nobody's events are stored before    *)
(* SaveEvents or missing after it.                                         *)
EventsJoin ==
    /\ \A e \in events :
           \E v, w \in Versions :
               /\ w.id = e.to
               /\ ~w.baseline
               /\ {f \in events : f.to = e.to} = EventsBetween(v, w)
    /\ \A p \in Snapshotters : pc[p] = "saveEvents" => \A e \in events : e.to # draft[p].id
    /\ \A p \in Snapshotters : pc[p] = "returned" => found[p] \subseteq events

IInv ==
    /\ TypeOK
    /\ IDsUnique
    /\ DraftsStored
    /\ BaselineAhead
    /\ FoundExplained
    /\ EventsJoin

(* What NewContractReported needs besides: a draft that reports nothing    *)
(* repeats a stored contract, and only SaveEvents is left of the others.   *)
SilenceExplained ==
    /\ \A p \in Snapshotters :
           pc[p] = "saveVersion" =>
               \/ draft[p].baseline
               \/ found[p] # {}
               \/ \E v \in Versions : Compute(v.graph, draft[p].graph) = {}
    /\ \A p \in Snapshotters : pc[p] = "saveEvents" => found[p] # {}
=============================================================================
