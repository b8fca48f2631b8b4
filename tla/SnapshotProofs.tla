---------------------------- MODULE SnapshotProofs ----------------------------
(* Theorems about Snapshot: any number of snapshotters, either store, any  *)
(* graphs, any clocks.                                                     *)
EXTENDS Snapshot, SequenceTheorems, TLAPS

LEMMA RangeOfAppend ==
    ASSUME NEW S, NEW s \in Seq(S), NEW x \in S
    PROVE  Range(Append(s, x)) = Range(s) \cup {x}
<1>1. /\ Append(s, x) \in Seq(S)
      /\ DOMAIN Append(s, x) = 1..(Len(s) + 1)
      /\ DOMAIN s = 1..Len(s)
      /\ Len(s) \in Nat
      /\ Append(s, x)[Len(s) + 1] = x
      /\ \A i \in 1..Len(s) : Append(s, x)[i] = s[i]
  OBVIOUS
<1>2. ASSUME NEW y \in Range(Append(s, x)) PROVE y \in Range(s) \cup {x}
  <2>1. PICK i \in 1..(Len(s) + 1) : Append(s, x)[i] = y
    BY <1>1, <1>2 DEF Range
  <2>2. i \in 1..Len(s) \/ i = Len(s) + 1
    BY <1>1
  <2>3. QED
    BY <1>1, <2>1, <2>2 DEF Range
<1>3. ASSUME NEW y \in Range(s) PROVE y \in Range(Append(s, x))
  <2>1. PICK i \in 1..Len(s) : s[i] = y
    BY <1>1, <1>3 DEF Range
  <2>2. i \in DOMAIN Append(s, x) /\ Append(s, x)[i] = y
    BY <1>1, <2>1
  <2>3. QED
    BY <2>2 DEF Range
<1>4. x \in Range(Append(s, x))
  <2>1. Len(s) + 1 \in DOMAIN Append(s, x)
    BY <1>1
  <2>2. QED
    BY <1>1, <2>1 DEF Range
<1>5. QED
  BY <1>2, <1>3, <1>4

LEMMA RangeType ==
    ASSUME NEW S, NEW s \in Seq(S)
    PROVE  Range(s) \subseteq S /\ (Range(s) = {} <=> s = <<>>)
<1>1. DOMAIN s = 1..Len(s) /\ Len(s) \in Nat /\ \A i \in 1..Len(s) : s[i] \in S
  OBVIOUS
<1>2. Range(s) \subseteq S
  BY <1>1 DEF Range
<1>3. s # <<>> => 1 \in DOMAIN s
  OBVIOUS
<1>4. s = <<>> => DOMAIN s = {}
  OBVIOUS
<1>5. QED
  BY <1>2, <1>3, <1>4 DEF Range

LEMMA BlankType == Blank \in Version
<1>1. NoGraph \in Graphs
  BY GraphsAssumption DEF NoGraph
<1>2. QED
  BY <1>1 DEF Blank, Version

(* The latest version is one the store holds. *)
LEMMA LatestIsStored ==
    ASSUME saved \in Seq(Version), NEW v \in LatestVersions
    PROVE  v \in Versions
BY DEF LatestVersions, Versions, Range

LEMMA EventsBetweenType ==
    ASSUME NEW v \in Version, NEW w \in Version
    PROVE  /\ EventsBetween(v, w) \in SUBSET Event
           /\ \A e \in EventsBetween(v, w) : e.from = v.id /\ e.to = w.id
<1>1. v.id \in Nat /\ w.id \in Nat /\ v.graph \in Graphs /\ w.graph \in Graphs
  BY DEF Version
<1>2. ASSUME NEW c \in Compute(v.graph, w.graph)
      PROVE  [from |-> v.id, to |-> w.id, change |-> c] \in Event
  BY <1>1, <1>2 DEF Event
<1>3. QED
  BY <1>2 DEF EventsBetween

(***************************************************************************)
(* Type correctness.                                                       *)
(***************************************************************************)

LEMMA TypeInit == Init => TypeOK
<1> SUFFICES ASSUME Init PROVE TypeOK
  OBVIOUS
<1>1. /\ draft \in [Snapshotters -> Version]
      /\ pc \in [Snapshotters -> Step]
      /\ found \in [Snapshotters -> SUBSET Event]
  BY BlankType DEF Init, Step
<1>2. saved \in Seq(Version)
  BY DEF Init
<1>3. QED
  BY <1>1, <1>2 DEF Init, TypeOK

LEMMA ForgetType ==
    ASSUME TypeOK, NEW p \in Snapshotters, Forget(p)
    PROVE  /\ pc' \in [Snapshotters -> Step]
           /\ draft' \in [Snapshotters -> Version]
           /\ found' \in [Snapshotters -> SUBSET Event]
BY BlankType DEF TypeOK, Forget, Step

LEMMA TypeStep == TypeOK /\ [Next]_vars => TypeOK'
<1> SUFFICES ASSUME TypeOK, [Next]_vars PROVE TypeOK'
  OBVIOUS
<1> USE DEF TypeOK, storeVars, processVars, countVars
<1>1. CASE Deploy
  BY <1>1, BoundsAssumption DEF Deploy
<1>2. ASSUME NEW p \in Snapshotters, Discover(p) PROVE TypeOK'
  <2>1. snapshots + 1 \in Nat /\ world \in Graphs /\ Trigger[p] \in {"scheduled", "manual"}
    BY TriggerAssumption
  <2>2. QED
    BY <1>2, <2>1 DEF Discover, Step, Version
<1>3. ASSUME NEW p \in Snapshotters, Build(p) PROVE TypeOK'
  <2>1. clock + 1 + ClockOffset[p] \in Int
    BY ClockAssumption
  <2>2. [draft[p] EXCEPT !.created = clock + 1 + ClockOffset[p]] \in Version
    BY <2>1 DEF Version
  <2>3. QED
    BY <1>3, <2>2 DEF Build, Step
<1>4. ASSUME NEW p \in Snapshotters, CheckBaseline(p) PROVE TypeOK'
  <2>1. HasBaseline \in BOOLEAN
    BY DEF HasBaseline
  <2>2. [draft[p] EXCEPT !.baseline = ~HasBaseline] \in Version
    BY <2>1 DEF Version
  <2>3. QED
    BY <1>4, <2>2 DEF CheckBaseline, Step
<1>5. ASSUME NEW p \in Snapshotters, ReadLatest(p) PROVE TypeOK'
  <2>1. PICK prev \in LatestVersions :
            found' = [found EXCEPT ![p] =
                IF Hash(draft[p].graph) = Hash(prev.graph) THEN {} ELSE EventsBetween(prev, draft[p])]
    BY <1>5 DEF ReadLatest
  <2>2. prev \in Version
    BY LatestIsStored, RangeType DEF Versions
  <2>3. found' \in [Snapshotters -> SUBSET Event]
    BY <2>1, <2>2, EventsBetweenType
  <2>4. QED
    BY <1>5, <2>3 DEF ReadLatest, Step
<1>6. ASSUME NEW p \in Snapshotters, SaveVersion(p) PROVE TypeOK'
  <2>1. Append(saved, draft[p]) \in Seq(Version)
    OBVIOUS
  <2>2. QED
    BY <1>6, <2>1 DEF SaveVersion, Step
<1>7. ASSUME NEW p \in Snapshotters, SaveEvents(p) PROVE TypeOK'
  BY <1>7 DEF SaveEvents, Step
<1>8. ASSUME NEW p \in Snapshotters, Return(p) PROVE TypeOK'
  BY <1>8, ForgetType DEF Return
<1>9. ASSUME NEW p \in Snapshotters, Fail(p) PROVE TypeOK'
  BY <1>9, ForgetType DEF Fail
<1>10. CASE UNCHANGED vars
  BY <1>10 DEF vars
<1>11. QED
  BY <1>1, <1>2, <1>3, <1>4, <1>5, <1>6, <1>7, <1>8, <1>9, <1>10 DEF Next, Progress

(* Whatever interleaves and fails, the store holds versions and events of  *)
(* the contracts discovery can yield (both stores' Save methods).          *)
THEOREM TypeCorrect == Spec => []TypeOK
<1>1. QED
  BY TypeInit, TypeStep, PTL DEF Spec

(***************************************************************************)
(* The inductive invariant.  Most steps leave the store alone; then the    *)
(* parts of IInv only speak of one snapshotter's pc, draft and found.      *)
(***************************************************************************)

LEMMA InvInit == Init => IInv
<1> SUFFICES ASSUME Init PROVE IInv
  OBVIOUS
<1>1. Versions = {} /\ SavedIDs = {}
  BY DEF Init, Versions, SavedIDs, Range
<1>2. QED
  BY <1>1, TypeInit DEF Init, IInv, IDsUnique, DraftsStored, BaselineAhead, BaselineFirst,
                        FoundExplained, EventsJoin

(* What SaveVersion does to the store. *)
LEMMA SaveVersionStores ==
    ASSUME TypeOK, NEW p \in Snapshotters, SaveVersion(p)
    PROVE  /\ Versions' = Versions \cup {draft[p]}
           /\ SavedIDs' = SavedIDs \cup {draft[p].id}
           /\ saved' # <<>>
           /\ saved'[1] = IF saved = <<>> THEN draft[p] ELSE saved[1]
<1>1. saved \in Seq(Version) /\ draft[p] \in Version /\ saved' = Append(saved, draft[p])
  BY DEF TypeOK, SaveVersion
<1>2. Versions' = Versions \cup {draft[p]}
  BY <1>1, RangeOfAppend DEF Versions
<1>3. QED
  BY <1>1, <1>2 DEF SavedIDs

(* A step that leaves the store alone. *)
LEMMA StoreUnchanged ==
    ASSUME UNCHANGED saved
    PROVE  Versions' = Versions /\ SavedIDs' = SavedIDs /\ HasBaseline' = HasBaseline
BY DEF Versions, SavedIDs, HasBaseline

LEMMA DeployInv == ASSUME IInv, TypeOK', Deploy PROVE IInv'
<1>1. UNCHANGED <<saved, events, pc, draft, found, snapshots>>
  BY DEF Deploy, storeVars, processVars
<1>2. QED
  BY <1>1, StoreUnchanged DEF IInv, IDsUnique, DraftsStored, BaselineAhead, BaselineFirst,
                              FoundExplained, EventsJoin, EventsBetween

LEMMA DiscoverInv ==
    ASSUME IInv, TypeOK', NEW p \in Snapshotters, Discover(p) PROVE IInv'
<1>1. /\ TypeOK /\ TypeOK'
      /\ pc[p] = "idle" /\ pc' = [pc EXCEPT ![p] = "build"]
      /\ draft'[p].id = snapshots + 1
      /\ \A q \in Snapshotters : q # p => draft'[q] = draft[q] /\ pc'[q] = pc[q]
      /\ pc'[p] = "build"
      /\ snapshots' = snapshots + 1
      /\ snapshots \in Nat
      /\ UNCHANGED <<saved, events, found>>
  BY DEF IInv, Discover, storeVars, TypeOK
<1>2. /\ \A v \in Versions : v.id \in 1..snapshots
      /\ \A q \in Snapshotters : pc[q] # "idle" => draft[q].id \in 1..snapshots
  BY DEF IInv, IDsUnique
<1>3. snapshots + 1 \notin SavedIDs /\ 1..snapshots \subseteq 1..(snapshots + 1)
  BY <1>1, <1>2 DEF SavedIDs
<1>4. IDsUnique'
  <2>1. \A v \in Versions' : v.id \in 1..snapshots'
    BY <1>1, <1>2, <1>3, StoreUnchanged
  <2>2. \A q \in Snapshotters : pc'[q] # "idle" => draft'[q].id \in 1..snapshots'
    BY <1>1, <1>2, <1>3
  <2>3. \A q \in Snapshotters : q # p /\ pc[q] # "idle" => draft'[q].id # snapshots + 1
    BY <1>1, <1>2
  <2>4. \A q, r \in Snapshotters :
            pc'[q] # "idle" /\ pc'[r] # "idle" /\ draft'[q].id = draft'[r].id => q = r
    BY <1>1, <2>3 DEF IInv, IDsUnique
  <2>5. QED
    BY <1>1, <1>3, <2>1, <2>2, <2>4, StoreUnchanged DEF IInv, IDsUnique
<1>5. DraftsStored' /\ BaselineAhead'
  BY <1>1, StoreUnchanged DEF IInv, DraftsStored, BaselineAhead, BaselineFirst
<1>6. FoundExplained'
  <2>1. found[p] = {}
    BY <1>1 DEF IInv, FoundExplained
  <2>2. QED
    BY <1>1, <2>1, StoreUnchanged DEF IInv, FoundExplained, EventsBetween
<1>7. EventsJoin'
  BY <1>1, StoreUnchanged DEF IInv, EventsJoin, EventsBetween
<1>8. QED
  BY <1>1, <1>4, <1>5, <1>6, <1>7 DEF IInv

LEMMA BuildInv ==
    ASSUME IInv, TypeOK', NEW p \in Snapshotters, Build(p) PROVE IInv'
<1>1. /\ pc[p] = "build" /\ pc'[p] = "baseline"
      /\ draft'[p].id = draft[p].id /\ draft'[p].baseline = draft[p].baseline
      /\ \A q \in Snapshotters : q # p => draft'[q] = draft[q] /\ pc'[q] = pc[q]
      /\ UNCHANGED <<saved, events, found, snapshots>>
  BY DEF IInv, Build, storeVars, TypeOK, Version
<1>2. IDsUnique'
  BY <1>1, StoreUnchanged DEF IInv, IDsUnique
<1>3. DraftsStored' /\ BaselineAhead'
  BY <1>1, StoreUnchanged DEF IInv, DraftsStored, BaselineAhead, BaselineFirst
<1>4. FoundExplained'
  <2>1. found[p] = {}
    BY <1>1 DEF IInv, FoundExplained
  <2>2. QED
    BY <1>1, <2>1, StoreUnchanged DEF IInv, FoundExplained, EventsBetween
<1>5. EventsJoin'
  BY <1>1, StoreUnchanged DEF IInv, EventsJoin, EventsBetween
<1>6. QED
  BY <1>2, <1>3, <1>4, <1>5 DEF IInv

LEMMA CheckBaselineInv ==
    ASSUME IInv, TypeOK', NEW p \in Snapshotters, CheckBaseline(p) PROVE IInv'
<1>1. /\ pc[p] = "baseline" /\ pc'[p] = IF HasBaseline THEN "latest" ELSE "saveVersion"
      /\ draft'[p].id = draft[p].id /\ draft'[p].baseline = ~HasBaseline
      /\ \A q \in Snapshotters : q # p => draft'[q] = draft[q] /\ pc'[q] = pc[q]
      /\ UNCHANGED <<saved, events, found, snapshots>>
  BY DEF IInv, CheckBaseline, storeVars, countVars, TypeOK, Version
<1>2. IDsUnique'
  BY <1>1, StoreUnchanged DEF IInv, IDsUnique
<1>3. DraftsStored'
  BY <1>1, StoreUnchanged DEF IInv, DraftsStored
<1>4. BaselineAhead'
  <2>1. HasBaseline => saved # <<>>
    BY RangeType DEF HasBaseline, Versions, IInv, TypeOK
  <2>2. QED
    BY <1>1, <2>1 DEF IInv, BaselineAhead, BaselineFirst
<1>5. FoundExplained'
  <2>1. found[p] = {}
    BY <1>1 DEF IInv, FoundExplained
  <2>2. QED
    BY <1>1, <2>1, StoreUnchanged DEF IInv, FoundExplained, EventsBetween
<1>6. EventsJoin'
  BY <1>1, StoreUnchanged DEF IInv, EventsJoin, EventsBetween
<1>7. QED
  BY <1>2, <1>3, <1>4, <1>5, <1>6 DEF IInv

LEMMA ReadLatestInv ==
    ASSUME IInv, TypeOK', NEW p \in Snapshotters, ReadLatest(p) PROVE IInv'
<1>1. /\ pc[p] = "latest" /\ pc'[p] = "saveVersion"
      /\ \A q \in Snapshotters : q # p => pc'[q] = pc[q] /\ found'[q] = found[q]
      /\ UNCHANGED <<saved, events, draft, snapshots>>
  BY DEF IInv, ReadLatest, storeVars, countVars, TypeOK
<1>2. IDsUnique'
  BY <1>1, StoreUnchanged DEF IInv, IDsUnique
<1>3. DraftsStored' /\ BaselineAhead'
  BY <1>1, StoreUnchanged DEF IInv, DraftsStored, BaselineAhead, BaselineFirst
<1>4. FoundExplained'
  <2>1. PICK prev \in LatestVersions :
            found' = [found EXCEPT ![p] =
                IF Hash(draft[p].graph) = Hash(prev.graph) THEN {} ELSE EventsBetween(prev, draft[p])]
    BY DEF ReadLatest
  <2>2. prev \in Versions /\ (found'[p] = {} \/ found'[p] = EventsBetween(prev, draft[p]))
    BY <2>1, LatestIsStored DEF IInv, TypeOK
  <2>3. ~draft[p].baseline
    BY <1>1 DEF IInv, BaselineAhead
  <2>4. QED
    BY <1>1, <2>2, <2>3, StoreUnchanged DEF IInv, FoundExplained, EventsBetween
<1>5. EventsJoin'
  BY <1>1, StoreUnchanged DEF IInv, EventsJoin, EventsBetween
<1>6. QED
  BY <1>2, <1>3, <1>4, <1>5 DEF IInv

LEMMA SaveVersionInv ==
    ASSUME IInv, TypeOK', NEW p \in Snapshotters, SaveVersion(p) PROVE IInv'
<1>1. /\ pc[p] = "saveVersion"
      /\ pc'[p] = IF found[p] = {} THEN "returned" ELSE "saveEvents"
      /\ \A q \in Snapshotters : q # p => pc'[q] = pc[q]
      /\ UNCHANGED <<events, draft, found, snapshots>>
  BY DEF IInv, SaveVersion, countVars, TypeOK
<1>2. /\ Versions' = Versions \cup {draft[p]}
      /\ SavedIDs' = SavedIDs \cup {draft[p].id}
      /\ saved' # <<>>
      /\ saved'[1] = IF saved = <<>> THEN draft[p] ELSE saved[1]
  BY SaveVersionStores DEF IInv
<1>3. draft[p].id \in 1..snapshots /\ draft[p].id \notin SavedIDs
  BY <1>1 DEF IInv, IDsUnique
<1>4. \A v \in Versions : v.id \in SavedIDs
  BY DEF SavedIDs
<1>5. IDsUnique'
  <2>1. \A v, w \in Versions' : v.id = w.id => v = w
    BY <1>2, <1>3, <1>4 DEF IInv, IDsUnique
  <2>2. \A q \in Snapshotters :
            pc'[q] \in {"build", "baseline", "latest", "saveVersion"} => draft'[q].id \notin SavedIDs'
    BY <1>1, <1>2 DEF IInv, IDsUnique
  <2>3. QED
    BY <1>1, <1>2, <1>3, <2>1, <2>2 DEF IInv, IDsUnique
<1>6. DraftsStored'
  BY <1>1, <1>2 DEF IInv, DraftsStored
<1>7. BaselineAhead'
  <2>1. saved # <<>> \/ draft[p].baseline
    BY <1>1 DEF IInv, BaselineAhead
  <2>2. QED
    BY <1>1, <1>2, <2>1 DEF IInv, BaselineAhead, BaselineFirst
<1>8. FoundExplained'
  BY <1>1, <1>2 DEF IInv, FoundExplained, EventsBetween
<1>9. EventsJoin'
  <2>1. \A e \in events : e.to \in SavedIDs
    BY <1>4 DEF IInv, EventsJoin
  <2>2. \A e \in events : e.to # draft[p].id
    BY <1>3, <2>1
  <2>3. QED
    BY <1>1, <1>2, <2>2 DEF IInv, EventsJoin, EventsBetween
<1>10. QED
  BY <1>5, <1>6, <1>7, <1>8, <1>9 DEF IInv

LEMMA SaveEventsInv ==
    ASSUME IInv, TypeOK', NEW p \in Snapshotters, SaveEvents(p) PROVE IInv'
<1>1. /\ pc[p] = "saveEvents" /\ pc'[p] = "returned"
      /\ events' = events \cup found[p]
      /\ \A q \in Snapshotters : q # p => pc'[q] = pc[q]
      /\ UNCHANGED <<saved, draft, found, snapshots>>
  BY DEF IInv, SaveEvents, countVars, TypeOK
<1>2. IDsUnique' /\ DraftsStored' /\ BaselineAhead' /\ FoundExplained'
  BY <1>1, StoreUnchanged DEF IInv, IDsUnique, DraftsStored, BaselineAhead, BaselineFirst,
                              FoundExplained, EventsBetween
<1>3. \A e \in events : e.to # draft[p].id
  BY <1>1 DEF IInv, EventsJoin
<1>4. \A e \in found[p] : e.to = draft[p].id
  <2>1. CASE found[p] = {}
    BY <2>1
  <2>2. CASE found[p] # {}
    <3>1. PICK v \in Versions : found[p] = EventsBetween(v, draft[p])
      BY <2>2 DEF IInv, FoundExplained
    <3>2. v \in Version /\ draft[p] \in Version
      BY RangeType DEF Versions, IInv, TypeOK
    <3>3. QED
      BY <3>1, <3>2, EventsBetweenType
  <2>3. QED
    BY <2>1, <2>2
<1>5. ASSUME NEW e \in events'
      PROVE  \E v, w \in Versions :
                 /\ w.id = e.to
                 /\ ~w.baseline
                 /\ {f \in events' : f.to = e.to} = EventsBetween(v, w)
  <2>1. CASE e \in events
    <3>1. {f \in events' : f.to = e.to} = {f \in events : f.to = e.to}
      BY <1>1, <1>3, <1>4, <2>1
    <3>2. QED
      BY <2>1, <3>1 DEF IInv, EventsJoin
  <2>2. CASE e \in found[p]
    <3>1. {f \in events' : f.to = e.to} = found[p]
      BY <1>1, <1>3, <1>4, <2>2
    <3>2. draft[p] \in Versions
      BY <1>1 DEF IInv, DraftsStored
    <3>3. ~draft[p].baseline /\ \E v \in Versions : found[p] = EventsBetween(v, draft[p])
      BY <2>2 DEF IInv, FoundExplained
    <3>4. QED
      BY <1>4, <2>2, <3>1, <3>2, <3>3
  <2>3. QED
    BY <1>1, <1>5, <2>1, <2>2
<1>6. EventsJoin'
  <2>1. \A q \in Snapshotters : q # p /\ pc[q] = "saveEvents" => draft[q].id # draft[p].id
    BY <1>1 DEF IInv, IDsUnique
  <2>2. \A q \in Snapshotters : pc'[q] = "saveEvents" => \A e \in events' : e.to # draft'[q].id
    BY <1>1, <1>4, <2>1 DEF IInv, EventsJoin
  <2>3. \A q \in Snapshotters : pc'[q] = "returned" => found'[q] \subseteq events'
    BY <1>1 DEF IInv, EventsJoin
  <2>4. \A e \in events' :
            \E v, w \in Versions' :
                /\ w.id = e.to
                /\ ~w.baseline
                /\ {f \in events' : f.to = e.to} = EventsBetween(v, w)
    BY <1>1, <1>5, StoreUnchanged
  <2>5. QED
    BY <2>2, <2>3, <2>4 DEF EventsJoin, EventsBetween
<1>7. QED
  BY <1>2, <1>6 DEF IInv

(* A snapshotter that is done, or cut short, only stops taking part. *)
LEMMA ForgetInv ==
    ASSUME IInv, TypeOK', NEW p \in Snapshotters, Forget(p),
           UNCHANGED <<saved, events, snapshots>>
    PROVE  IInv'
<1>1. /\ pc'[p] = "idle" /\ found'[p] = {}
      /\ \A q \in Snapshotters :
             q # p => pc'[q] = pc[q] /\ draft'[q] = draft[q] /\ found'[q] = found[q]
  BY DEF IInv, Forget, TypeOK
<1>2. IDsUnique' /\ DraftsStored' /\ BaselineAhead'
  BY <1>1, StoreUnchanged DEF IInv, IDsUnique, DraftsStored, BaselineAhead, BaselineFirst
<1>3. FoundExplained' /\ EventsJoin'
  BY <1>1, StoreUnchanged DEF IInv, FoundExplained, EventsJoin, EventsBetween
<1>4. QED
  BY <1>2, <1>3 DEF IInv

LEMMA InvStep == IInv /\ [Next]_vars => IInv'
<1> SUFFICES ASSUME IInv, [Next]_vars PROVE IInv'
  OBVIOUS
<1>1. TypeOK'
  BY TypeStep DEF IInv
<1>2. CASE Deploy
  BY <1>1, <1>2, DeployInv
<1>3. ASSUME NEW p \in Snapshotters, Progress(p) PROVE IInv'
  BY <1>1, <1>3, DiscoverInv, BuildInv, CheckBaselineInv, ReadLatestInv, SaveVersionInv,
     SaveEventsInv DEF Progress
<1>4. ASSUME NEW p \in Snapshotters, Return(p) \/ Fail(p) PROVE IInv'
  BY <1>1, <1>4, ForgetInv DEF Return, Fail, storeVars, countVars
<1>5. CASE UNCHANGED vars
  BY <1>1, <1>5, StoreUnchanged
  DEF vars, storeVars, processVars, countVars, IInv, IDsUnique, DraftsStored, BaselineAhead,
      BaselineFirst, FoundExplained, EventsJoin, EventsBetween
<1>6. QED
  BY <1>2, <1>3, <1>4, <1>5 DEF Next

(* The inductive invariant: versions are saved once and in order, and what *)
(* is found or stored as events joins two of them.                         *)
THEOREM Inductive == Spec => []IInv
BY InvInit, InvStep, PTL DEF Spec

(* BaselineFirst: whatever raced with it, nothing is stored ahead of a     *)
(* baseline (the baseline branch of SnapshotWithAttribution).              *)
THEOREM BaselineComesFirst == Spec => []BaselineFirst
<1>1. IInv => BaselineFirst
  BY DEF IInv, BaselineAhead
<1>2. QED
  BY <1>1, Inductive, PTL

(* BaselineSilent: no event leads to a version marked as baseline, however *)
(* many snapshotters raced into the baseline branch.                       *)
THEOREM BaselineIsSilent == Spec => []BaselineSilent
<1>1. ASSUME IInv PROVE BaselineSilent
  <2>1. SUFFICES ASSUME NEW e \in events, NEW v \in Versions, e.to = v.id PROVE ~v.baseline
    BY DEF BaselineSilent
  <2>2. PICK w \in Versions : w.id = e.to /\ ~w.baseline
    BY <1>1 DEF IInv, EventsJoin
  <2>3. v = w
    BY <1>1, <2>1, <2>2 DEF IInv, IDsUnique
  <2>4. QED
    BY <2>2, <2>3
<1>2. QED
  BY <1>1, Inductive, PTL

(* EventsExplained: the events that lead to a version are the whole diff   *)
(* from one stored version, so partial batches and foreign-key violations  *)
(* cannot happen (SaveChangeEvents after SaveContractVersion).             *)
THEOREM EventsAreExplained == Spec => []EventsExplained
<1>1. IInv => EventsExplained
  BY DEF IInv, EventsJoin, EventsExplained
<1>2. QED
  BY <1>1, Inductive, PTL

(* ResultDurable: what the caller of Snapshot is told is in the store.     *)
THEOREM ResultsAreDurable == Spec => []ResultDurable
<1>1. IInv => ResultDurable
  BY DEF IInv, DraftsStored, EventsJoin, ResultDurable
<1>2. QED
  BY <1>1, Inductive, PTL

(***************************************************************************)
(* Nothing new goes unreported.                                            *)
(***************************************************************************)

(* Two graphs with one hash have no difference: the shortcut of            *)
(* SnapshotWithAttribution that skips the diff loses no event.             *)
THEOREM SameHashNoChange ==
    ASSUME NEW g \in Graphs, NEW h \in Graphs, Hash(g) = Hash(h)
    PROVE  Compute(g, h) = {}
<1>1. DOMAIN g = DOMAIN h
  BY DEF Hash
<1>2. ASSUME NEW id \in DOMAIN g
      PROVE  /\ g[id].audiences = h[id].audiences
             /\ g[id].issuers = h[id].issuers
             /\ g[id].algorithms = h[id].algorithms
             /\ g[id].requiredClaims = h[id].requiredClaims
             /\ g[id].clockSkew = h[id].clockSkew
             /\ g[id].refresh = h[id].refresh
             /\ g[id].cacheTTL = h[id].cacheTTL
  <2>1. g[id] \in Consumer /\ h[id] \in Consumer
    BY <1>1, GraphsAssumption
  <2>2. [g[id] EXCEPT !.doubtful = {}] = [h[id] EXCEPT !.doubtful = {}]
    BY <1>1 DEF Hash
  <2>3. QED
    BY <2>1, <2>2 DEF Consumer
<1>3. ASSUME NEW id \in DOMAIN g
      PROVE  DiffExpectations(id, g[id], h[id]) = {} /\ DiffJWKS(id, g[id], h[id]) = {}
  BY <1>2 DEF DiffExpectations, DiffJWKS, DiffSet, DiffNumber
<1>4. QED
  BY <1>1, <1>3 DEF Compute

LEMMA SilenceStep ==
    ASSUME IInv, SilenceExplained, Next, TypeOK'
    PROVE  SilenceExplained'
<1> USE DEF storeVars, processVars, countVars
<1>1. CASE Deploy
  BY <1>1 DEF Deploy, SilenceExplained, Versions
<1>2. ASSUME NEW p \in Snapshotters, Discover(p) \/ Build(p) PROVE SilenceExplained'
  BY <1>2 DEF Discover, Build, SilenceExplained, Versions, IInv, TypeOK
<1>3. ASSUME NEW p \in Snapshotters, CheckBaseline(p) PROVE SilenceExplained'
  <2>1. /\ pc[p] = "baseline" /\ pc'[p] = IF HasBaseline THEN "latest" ELSE "saveVersion"
        /\ draft'[p].baseline = ~HasBaseline
        /\ \A q \in Snapshotters : q # p => draft'[q] = draft[q] /\ pc'[q] = pc[q]
        /\ UNCHANGED <<saved, found>>
    BY <1>3 DEF IInv, CheckBaseline, TypeOK, Version
  <2>2. QED
    BY <2>1 DEF SilenceExplained, Versions
<1>4. ASSUME NEW p \in Snapshotters, ReadLatest(p) PROVE SilenceExplained'
  <2>1. PICK prev \in LatestVersions :
            found' = [found EXCEPT ![p] =
                IF Hash(draft[p].graph) = Hash(prev.graph) THEN {} ELSE EventsBetween(prev, draft[p])]
    BY <1>4 DEF ReadLatest
  <2>2. prev \in Versions
    BY LatestIsStored DEF IInv, TypeOK
  <2>3. prev \in Version /\ draft[p] \in Version
    BY <2>2, RangeType DEF Versions, IInv, TypeOK
  <2>4. found'[p] # {} \/ Compute(prev.graph, draft[p].graph) = {}
    <3>1. prev.graph \in Graphs /\ draft[p].graph \in Graphs
      BY <2>3 DEF Version
    <3>2. Hash(draft[p].graph) = Hash(prev.graph) => Compute(prev.graph, draft[p].graph) = {}
      BY <3>1, SameHashNoChange
    <3>3. EventsBetween(prev, draft[p]) = {} => Compute(prev.graph, draft[p].graph) = {}
      BY DEF EventsBetween
    <3>4. found'[p] = IF Hash(draft[p].graph) = Hash(prev.graph) THEN {}
                                                                 ELSE EventsBetween(prev, draft[p])
      BY <2>1 DEF IInv, TypeOK
    <3>5. QED
      BY <3>2, <3>3, <3>4
  <2>5. /\ pc'[p] = "saveVersion" /\ UNCHANGED <<saved, draft>>
        /\ \A q \in Snapshotters : q # p => found'[q] = found[q] /\ pc'[q] = pc[q]
    BY <1>4 DEF ReadLatest, IInv, TypeOK
  <2>6. QED
    BY <2>2, <2>4, <2>5 DEF SilenceExplained, Versions
<1>5. ASSUME NEW p \in Snapshotters, SaveVersion(p) PROVE SilenceExplained'
  <2>1. Versions \subseteq Versions'
    BY <1>5, SaveVersionStores DEF IInv
  <2>2. QED
    BY <1>5, <2>1 DEF SaveVersion, SilenceExplained, IInv, TypeOK
<1>6. ASSUME NEW p \in Snapshotters, SaveEvents(p) PROVE SilenceExplained'
  BY <1>6 DEF SaveEvents, SilenceExplained, Versions, IInv, TypeOK
<1>7. ASSUME NEW p \in Snapshotters, Return(p) \/ Fail(p) PROVE SilenceExplained'
  BY <1>7 DEF Return, Fail, Forget, SilenceExplained, Versions, IInv, TypeOK
<1>8. QED
  BY <1>1, <1>2, <1>3, <1>4, <1>5, <1>6, <1>7 DEF Next, Progress

(* A version whose snapshot is over stays accounted for. *)
LEMMA ReportedStep ==
    ASSUME IInv, SilenceExplained, NewContractReported, Next, TypeOK'
    PROVE  NewContractReported'
<1> USE DEF storeVars, processVars, countVars
<1>1. ASSUME UNCHANGED saved, events \subseteq events', failures' = failures,
             \A id \in Unfinished : id \in Unfinished' \/ \E e \in events' : e.to = id
      PROVE  NewContractReported'
  BY <1>1 DEF NewContractReported
<1>2. CASE Deploy
  BY <1>1, <1>2 DEF Deploy, Unfinished
<1>3. ASSUME NEW p \in Snapshotters,
             Discover(p) \/ Build(p) \/ CheckBaseline(p) \/ ReadLatest(p)
      PROVE  NewContractReported'
  <2>1. /\ UNCHANGED <<saved, events, failures>>
        /\ \A q \in Snapshotters :
               pc[q] = "saveEvents" => pc'[q] = "saveEvents" /\ draft'[q] = draft[q]
    BY <1>3 DEF Discover, Build, CheckBaseline, ReadLatest, IInv, TypeOK
  <2>2. Unfinished \subseteq Unfinished'
    BY <2>1 DEF Unfinished
  <2>3. QED
    BY <1>1, <2>1, <2>2
<1>4. ASSUME NEW p \in Snapshotters, SaveVersion(p) PROVE NewContractReported'
  <2>1. /\ saved \in Seq(Version) /\ draft[p] \in Version /\ saved' = Append(saved, draft[p])
        /\ pc[p] = "saveVersion"
        /\ pc'[p] = IF found[p] = {} THEN "returned" ELSE "saveEvents"
        /\ \A q \in Snapshotters : q # p => pc'[q] = pc[q]
        /\ UNCHANGED <<draft, events, failures>>
    BY <1>4 DEF SaveVersion, IInv, TypeOK
  <2>2. Unfinished \subseteq Unfinished'
    BY <2>1 DEF Unfinished
  <2>3. /\ Len(saved) \in Nat
        /\ DOMAIN saved = 1..Len(saved)
        /\ DOMAIN saved' = 1..(Len(saved) + 1)
        /\ \A i \in 1..Len(saved) : saved'[i] = saved[i]
        /\ saved'[Len(saved) + 1] = draft[p]
    BY <2>1
  <2>4. SUFFICES ASSUME failures = 0, NEW i \in 1..(Len(saved) + 1)
                 PROVE  \/ saved'[i].baseline
                        \/ saved'[i].id \in Unfinished'
                        \/ \E j \in 1..(i - 1) : Compute(saved'[j].graph, saved'[i].graph) = {}
                        \/ \E e \in events : e.to = saved'[i].id
    BY <2>1, <2>3 DEF NewContractReported
  <2>5. CASE i \in 1..Len(saved)
    <3>1. \A j \in 1..(i - 1) : saved'[j] = saved[j]
      BY <2>3, <2>5
    <3>2. \/ saved[i].baseline
          \/ saved[i].id \in Unfinished
          \/ \E j \in 1..(i - 1) : Compute(saved[j].graph, saved[i].graph) = {}
          \/ \E e \in events : e.to = saved[i].id
      BY <2>3, <2>4, <2>5 DEF NewContractReported
    <3>3. QED
      BY <2>2, <2>3, <2>5, <3>1, <3>2
  <2>6. CASE i = Len(saved) + 1
    <3>1. saved'[i] = draft[p] /\ i - 1 = Len(saved)
      BY <2>3, <2>6
    <3>2. CASE draft[p].baseline
      BY <3>1, <3>2
    <3>3. CASE found[p] # {}
      BY <2>1, <3>1, <3>3 DEF Unfinished
    <3>4. CASE \E v \in Versions : Compute(v.graph, draft[p].graph) = {}
      <4>1. PICK j \in 1..Len(saved) : Compute(saved[j].graph, draft[p].graph) = {}
        BY <2>3, <3>4 DEF Versions, Range
      <4>2. QED
        BY <2>3, <3>1, <4>1
    <3>5. QED
      BY <2>1, <3>2, <3>3, <3>4 DEF SilenceExplained
  <2>7. QED
    BY <2>3, <2>5, <2>6
<1>5. ASSUME NEW p \in Snapshotters, SaveEvents(p) PROVE NewContractReported'
  <2>1. /\ UNCHANGED <<saved, draft, failures>>
        /\ events' = events \cup found[p]
        /\ pc[p] = "saveEvents"
        /\ \A q \in Snapshotters : q # p => pc'[q] = pc[q]
    BY <1>5 DEF SaveEvents, IInv, TypeOK
  <2>2. PICK v \in Versions : found[p] # {} /\ found[p] = EventsBetween(v, draft[p])
    BY <2>1 DEF SilenceExplained, IInv, FoundExplained
  <2>3. v \in Version /\ draft[p] \in Version
    BY RangeType DEF Versions, IInv, TypeOK
  <2>4. \E e \in events' : e.to = draft[p].id
    BY <2>1, <2>2, <2>3, EventsBetweenType
  <2>5. \A id \in Unfinished : id \in Unfinished' \/ id = draft[p].id
    BY <2>1 DEF Unfinished
  <2>6. QED
    BY <1>1, <2>1, <2>4, <2>5
<1>6. ASSUME NEW p \in Snapshotters, Return(p) PROVE NewContractReported'
  <2>1. /\ UNCHANGED <<saved, events, failures>>
        /\ \A q \in Snapshotters :
               pc[q] = "saveEvents" => pc'[q] = "saveEvents" /\ draft'[q] = draft[q]
    BY <1>6 DEF Return, Forget, IInv, TypeOK
  <2>2. Unfinished \subseteq Unfinished'
    BY <2>1 DEF Unfinished
  <2>3. QED
    BY <1>1, <2>1, <2>2
<1>7. ASSUME NEW p \in Snapshotters, Fail(p) PROVE NewContractReported'
  <2>1. failures' # 0
    BY <1>7 DEF Fail, IInv, TypeOK
  <2>2. QED
    BY <2>1 DEF NewContractReported
<1>8. QED
  BY <1>2, <1>3, <1>4, <1>5, <1>6, <1>7 DEF Next, Progress

(* NewContractReported: a contract unlike every version stored before it   *)
(* is never recorded in silence, unless as a baseline or by a snapshot an  *)
(* error or a crash cut short (the hash shortcut and the order of          *)
(* SaveContractVersion and SaveChangeEvents).                              *)
THEOREM NewContractsAreReported == Spec => []NewContractReported
<1> DEFINE RInv == SilenceExplained /\ NewContractReported
<1>1. Init => RInv
  <2>1. Init => DOMAIN saved = {}
    BY DEF Init
  <2>2. QED
    BY <2>1 DEF Init, SilenceExplained, NewContractReported
<1>2. IInv /\ RInv /\ [Next]_vars => RInv'
  <2>1. SUFFICES ASSUME IInv, RInv, [Next]_vars PROVE RInv'
    OBVIOUS
  <2>2. CASE Next
    BY <2>1, <2>2, TypeStep, SilenceStep, ReportedStep DEF IInv
  <2>3. CASE UNCHANGED vars
    BY <2>1, <2>3 DEF vars, storeVars, processVars, countVars, SilenceExplained,
                      NewContractReported, Versions, Unfinished
  <2>4. QED
    BY <2>1, <2>2, <2>3
<1>3. QED
  BY <1>1, <1>2, Inductive, PTL DEF Spec

(***************************************************************************)
(* One snapshotter and no failure: the store is the log.                   *)
(***************************************************************************)

Serial == (\E p : Snapshotters = {p}) /\ MaxFailures = 0

(* Versions are stamped in the order they are saved, and each is compared  *)
(* with the one saved before it.                                           *)
InSequence ==
    /\ failures = 0
    /\ \A i, j \in DOMAIN saved : i < j => saved[i].created < saved[j].created
    /\ \A p \in Snapshotters :
          /\ \A i \in DOMAIN saved : saved[i].created <= clock + ClockOffset[p]
          /\ pc[p] \in {"baseline", "latest", "saveVersion"} =>
                /\ \A i \in DOMAIN saved : saved[i].created < draft[p].created
                /\ draft[p].created <= clock + ClockOffset[p]
          /\ pc[p] = "saveVersion" =>
                found[p] = IF saved = <<>> THEN {} ELSE EventsBetween(saved[Len(saved)], draft[p])
          /\ pc[p] = "saveEvents" =>
                /\ Len(saved) > 1 /\ draft[p] = saved[Len(saved)]
                /\ found[p] = EventsBetween(saved[Len(saved) - 1], draft[p])

(* Appending to a function on 1..n. *)
LEMMA AppendIs ==
    ASSUME NEW n \in Nat, NEW l, NEW m, NEW x,
           l = [i \in 1..n |-> l[i]], m = [i \in 1..(n + 1) |-> m[i]],
           \A i \in 1..n : m[i] = l[i], m[n + 1] = x
    PROVE  m = Append(l, x) /\ Len(l) = n /\ (l = <<>> <=> n = 0)
<1> DEFINE S == {m[i] : i \in 1..(n + 1)}
<1>0. /\ \A i \in 1..n : i \in 1..(n + 1)
      /\ n + 1 \in 1..(n + 1)
      /\ \A i \in 1..(n + 1) : i \in 1..n \/ i = n + 1
  OBVIOUS
<1>1. l \in Seq(S) /\ m \in Seq(S) /\ x \in S
  <2>1. \A i \in 1..n : l[i] \in S
    BY <1>0
  <2>2. \A i \in 1..(n + 1) : m[i] \in S
    OBVIOUS
  <2>3. x \in S
    BY <1>0
  <2> HIDE DEF S
  <2>4. QED
    BY <2>1, <2>2, <2>3
<1> HIDE DEF S
<1>2. Len(l) = n /\ Len(m) = n + 1
  BY <1>1, LenProperties
<1>3. /\ Append(l, x) \in Seq(S) /\ Len(Append(l, x)) = n + 1
      /\ \A i \in 1..n : Append(l, x)[i] = l[i]
      /\ Append(l, x)[n + 1] = x
  BY <1>1, <1>2, AppendProperties
<1>4. \A i \in 1..(n + 1) : m[i] = Append(l, x)[i]
  BY <1>0, <1>3
<1>5. m = Append(l, x)
  BY <1>1, <1>2, <1>3, <1>4, SeqEqual
<1>6. l = <<>> <=> n = 0
  BY <1>1, <1>2, EmptySeq
<1>7. QED
  BY <1>2, <1>5, <1>6

LEMMA SavedIs ==
    ASSUME TypeOK
    PROVE  /\ Len(saved) \in Nat /\ DOMAIN saved = 1..Len(saved)
           /\ saved = <<>> <=> Len(saved) = 0
           /\ \A i \in 1..Len(saved) : saved[i] \in Version /\ saved[i] \in Versions
                                       /\ saved[i].created \in Int /\ saved[i].id \in SavedIDs
           /\ \A v \in Versions : \E i \in 1..Len(saved) : saved[i] = v
<1>1. saved \in Seq(Version)
  BY DEF TypeOK
<1>2. Len(saved) \in Nat /\ DOMAIN saved = 1..Len(saved) /\ (saved = <<>> <=> Len(saved) = 0)
  BY <1>1, LenProperties, EmptySeq
<1>3. \A i \in 1..Len(saved) : saved[i] \in Version /\ saved[i] \in Versions
  BY <1>1, <1>2, ElementOfSeq DEF Versions, Range
<1>4. \A v \in Versions : \E i \in 1..Len(saved) : saved[i] = v
  BY <1>2 DEF Versions, Range
<1>5. QED
  BY <1>2, <1>3, <1>4 DEF Version, SavedIDs

(* The latest version is the one saved last, in either store. *)
LEMMA LastIsLatest ==
    ASSUME TypeOK, InSequence, NEW v \in LatestVersions
    PROVE  saved # <<>> /\ v = saved[Len(saved)]
<1>1. CASE backend = "memory"
  BY <1>1, SavedIs DEF LatestVersions
<1>2. CASE backend # "memory"
  <2>1. v \in Versions /\ \A w \in Versions : w.created <= v.created
    BY <1>2 DEF LatestVersions
  <2>2. PICK i \in 1..Len(saved) : saved[i] = v
    BY <2>1, SavedIs
  <2>3. Len(saved) \in DOMAIN saved /\ i \in DOMAIN saved /\ Len(saved) \in Nat /\ Len(saved) # 0
    BY <2>2, SavedIs
  <2>4. saved[Len(saved)].created <= saved[i].created
    BY <2>1, <2>2, <2>3, SavedIs
  <2>5. ~(i < Len(saved))
    <3>1. saved[Len(saved)].created \in Int /\ saved[i].created \in Int
      BY <2>3, SavedIs
    <3>2. QED
      BY <2>3, <2>4, <3>1 DEF InSequence
  <2>6. i = Len(saved)
    BY <2>3, <2>5
  <2>7. QED
    BY <2>2, <2>3, <2>6, SavedIs
<1>3. QED
  BY <1>1, <1>2

LEMMA SequenceInit == Init => InSequence
BY DEF Init, InSequence

(* No other snapshotter is at work. *)
LEMMA OnlyOne ==
    ASSUME Serial, NEW p \in Snapshotters
    PROVE  \A q \in Snapshotters : q = p
BY DEF Serial

LEMMA SequenceStep ==
    ASSUME Serial, IInv, InSequence, [Next]_vars
    PROVE  InSequence'
<1>1. TypeOK /\ TypeOK'
  BY TypeStep DEF IInv
<1>2. ClockOffset \in [Snapshotters -> Int] /\ clock \in Nat
  BY <1>1, ClockAssumption DEF TypeOK
<1>3. CASE Deploy \/ UNCHANGED vars
  <2>1. UNCHANGED <<saved, pc, draft, found, clock, failures>>
    BY <1>3 DEF Deploy, vars, storeVars, processVars, countVars
  <2>2. QED
    BY <2>1 DEF InSequence, EventsBetween
<1>4. ASSUME NEW p \in Snapshotters, Progress(p) \/ Return(p) \/ Fail(p) PROVE InSequence'
  <2>1. \A q \in Snapshotters : q = p
    BY OnlyOne
  <2>2. /\ pc \in [Snapshotters -> Step] /\ draft \in [Snapshotters -> Version]
        /\ found \in [Snapshotters -> SUBSET Event] /\ draft[p].created \in Int
        /\ ClockOffset[p] \in Int
    BY <1>1, <1>2 DEF TypeOK, Version
  <2>3. CASE Discover(p) \/ SaveEvents(p) \/ Return(p)
    <3>1. /\ pc'[p] \in {"build", "returned", "idle"} /\ failures' = failures
          /\ UNCHANGED <<saved, clock>>
      BY <2>2, <2>3 DEF Discover, SaveEvents, Return, Forget, storeVars, countVars
    <3>2. QED
      BY <2>1, <3>1 DEF InSequence
  <2>4. CASE Build(p)
    <3>1. /\ pc'[p] = "baseline" /\ draft'[p].created = clock + 1 + ClockOffset[p]
          /\ clock' = clock + 1 /\ UNCHANGED <<saved, failures>>
      BY <2>2, <2>4 DEF Build, storeVars, Version
    <3>2. \A i \in DOMAIN saved : saved[i].created \in Int /\ saved[i].created <= clock + ClockOffset[p]
      BY <1>1, SavedIs DEF InSequence
    <3>3. \A i \in DOMAIN saved : /\ saved[i].created <= clock + 1 + ClockOffset[p]
                                  /\ saved[i].created < clock + 1 + ClockOffset[p]
      BY <1>2, <2>2, <3>2
    <3>4. QED
      BY <1>2, <2>1, <2>2, <3>1, <3>3 DEF InSequence
  <2>5. CASE CheckBaseline(p)
    <3>1. /\ pc[p] = "baseline" /\ pc'[p] = IF HasBaseline THEN "latest" ELSE "saveVersion"
          /\ draft'[p].created = draft[p].created /\ UNCHANGED <<saved, found, clock, failures>>
      BY <2>2, <2>5 DEF CheckBaseline, storeVars, countVars, Version
    <3>2. pc'[p] = "saveVersion" => saved = <<>> /\ found[p] = {}
      <4>1. saved # <<>> => HasBaseline
        BY <1>1, SavedIs DEF IInv, BaselineAhead, BaselineFirst, HasBaseline
      <4>2. found[p] = {}
        BY <3>1 DEF IInv, FoundExplained
      <4>3. QED
        BY <3>1, <4>1, <4>2
    <3>3. QED
      BY <2>1, <3>1, <3>2 DEF InSequence
  <2>6. CASE ReadLatest(p)
    <3>1. PICK last \in LatestVersions :
            found'[p] = IF Hash(draft[p].graph) = Hash(last.graph) THEN {} ELSE EventsBetween(last, draft[p])
      BY <2>2, <2>6 DEF ReadLatest
    <3>2. pc[p] = "latest" /\ pc'[p] = "saveVersion" /\ UNCHANGED <<saved, draft, clock, failures>>
      BY <2>2, <2>6 DEF ReadLatest, storeVars, countVars
    <3>3. saved # <<>> /\ last = saved[Len(saved)] /\ last \in Version
      BY <1>1, LastIsLatest, LatestIsStored, RangeType DEF Versions, TypeOK
    <3>4. found'[p] = EventsBetween(last, draft[p])
      <4>1. CASE Hash(draft[p].graph) = Hash(last.graph)
        <5>1. last.graph \in Graphs /\ draft[p].graph \in Graphs
          BY <2>2, <3>3 DEF Version
        <5>2. Compute(last.graph, draft[p].graph) = {}
          BY <4>1, <5>1, SameHashNoChange
        <5>3. EventsBetween(last, draft[p]) = {}
          BY <5>2 DEF EventsBetween
        <5>4. QED
          BY <3>1, <4>1, <5>3
      <4>2. CASE Hash(draft[p].graph) # Hash(last.graph)
        BY <3>1, <4>2
      <4>3. QED
        BY <4>1, <4>2
    <3>5. found'[p] = EventsBetween(saved'[Len(saved')], draft'[p])
      BY <3>2, <3>3, <3>4
    <3>6. QED
      BY <2>1, <3>2, <3>3, <3>5 DEF InSequence, EventsBetween
  <2>7. CASE SaveVersion(p)
    <3>1. /\ pc[p] = "saveVersion" /\ saved' = Append(saved, draft[p])
          /\ pc'[p] = IF found[p] = {} THEN "returned" ELSE "saveEvents"
          /\ UNCHANGED <<draft, found, clock, failures>>
      BY <2>2, <2>7 DEF SaveVersion, countVars
    <3>2. PICK n \in Nat : n = Len(saved)
      BY <1>1, SavedIs
    <3>3. /\ DOMAIN saved = 1..n /\ DOMAIN saved' = 1..(n + 1) /\ Len(saved') = n + 1
          /\ saved'[n + 1] = draft[p] /\ \A i \in 1..n : saved'[i] = saved[i]
          /\ saved = <<>> <=> n = 0
      <4>1. saved \in Seq(Version) /\ draft[p] \in Version
        BY <1>1, <2>2 DEF TypeOK
      <4>2. /\ Append(saved, draft[p]) \in Seq(Version) /\ Len(Append(saved, draft[p])) = n + 1
            /\ \A i \in 1..n : Append(saved, draft[p])[i] = saved[i]
            /\ Append(saved, draft[p])[n + 1] = draft[p]
        BY <3>2, <4>1, AppendProperties
      <4>3. QED
        BY <1>1, <3>1, <3>2, <4>2, SavedIs, LenProperties
    <3>4. /\ \A i \in 1..n : saved[i].created < draft[p].created
          /\ \A i, j \in 1..n : i < j => saved[i].created < saved[j].created
          /\ \A i \in 1..n : saved[i].created <= clock + ClockOffset[p]
          /\ draft[p].created <= clock + ClockOffset[p]
          /\ found[p] = IF saved = <<>> THEN {} ELSE EventsBetween(saved[n], draft[p])
      BY <3>1, <3>2, <3>3 DEF InSequence
    <3>5. \A i \in 1..(n + 1) : i \in 1..n \/ i = n + 1
      OBVIOUS
    <3>6. \A i, j \in 1..(n + 1) : i < j => i \in 1..n
      OBVIOUS
    <3>7. \A i, j \in DOMAIN saved' : i < j => saved'[i].created < saved'[j].created
      BY <3>3, <3>4, <3>5, <3>6
    <3>8. \A i \in DOMAIN saved' : saved'[i].created <= clock + ClockOffset[p]
      BY <3>3, <3>4, <3>5
    <3>9. pc'[p] = "saveEvents" =>
            /\ n + 1 > 1 /\ draft[p] = saved'[n + 1] /\ found[p] = EventsBetween(saved'[n], draft[p])
      <4>1. ASSUME pc'[p] = "saveEvents" PROVE n # 0
        BY <3>1, <3>3, <3>4, <4>1
      <4>2. n # 0 => saved'[n] = saved[n]
        BY <3>3
      <4>3. QED
        BY <3>3, <3>4, <4>1, <4>2
    <3>10. n + 1 - 1 = n
      OBVIOUS
    <3>11. pc'[p] \in {"returned", "saveEvents"}
      BY <3>1
    <3>12. QED
      BY <2>1, <3>1, <3>3, <3>7, <3>8, <3>9, <3>10, <3>11 DEF InSequence, EventsBetween
  <2>8. CASE Fail(p)
    BY <2>8 DEF Fail, Serial, InSequence
  <2>9. QED
    BY <1>4, <2>3, <2>4, <2>5, <2>6, <2>7, <2>8 DEF Progress
<1>5. QED
  BY <1>3, <1>4 DEF Next

(* The differ of the log is the differ of the store.                       *)
LEMMA SameDiffer == \A g, h : Log!Compute(g, h) = Compute(g, h)
<1> DEFINE Names == /\ Log!FieldAudiences = FieldAudiences /\ Log!FieldIssuers = FieldIssuers
                    /\ Log!FieldAlgorithms = FieldAlgorithms
                    /\ Log!FieldRequiredClaims = FieldRequiredClaims
                    /\ Log!FieldClockSkew = FieldClockSkew
                    /\ Log!FieldRefreshUnknown = FieldRefreshUnknown
                    /\ Log!FieldCacheTTL = FieldCacheTTL /\ Log!FieldConsumer = FieldConsumer
                    /\ Log!NoTTL = NoTTL /\ Log!NotKnown = NotKnown /\ Log!NoValue = NoValue
<1>1. Names
  BY DEF Log!FieldAudiences, FieldAudiences, Log!FieldIssuers, FieldIssuers, Log!FieldAlgorithms,
         FieldAlgorithms, Log!FieldRequiredClaims, FieldRequiredClaims, Log!FieldClockSkew,
         FieldClockSkew, Log!FieldRefreshUnknown, FieldRefreshUnknown, Log!FieldCacheTTL,
         FieldCacheTTL, Log!FieldConsumer, FieldConsumer, Log!NoTTL, NoTTL, Log!NotKnown,
         NotKnown, Log!NoValue, NoValue
<1>2. \A c, s : Log!Mark(c, s) = Mark(c, s)
  BY DEF Log!Mark, Mark
<1>3. \A field, op, value, doubtful :
          Log!Classify(field, op, value, doubtful) = Classify(field, op, value, doubtful)
  BY Zenon
     DEF Log!Classify, Classify, Log!Mark, Mark, Log!FieldAudiences, FieldAudiences,
         Log!FieldIssuers, FieldIssuers, Log!FieldAlgorithms, FieldAlgorithms,
         Log!FieldRequiredClaims, FieldRequiredClaims, Log!FieldClockSkew, FieldClockSkew,
         Log!FieldRefreshUnknown, FieldRefreshUnknown, Log!FieldCacheTTL, FieldCacheTTL,
         Log!FieldConsumer, FieldConsumer
<1>4. \A id, owner, field, op, value :
          Log!Change(id, owner, field, op, value) = Change(id, owner, field, op, value)
  BY <1>3 DEF Log!Change, Change
<1>5. \A id, field, from, to, owner :
          Log!DiffSet(id, field, from, to, owner) = DiffSet(id, field, from, to, owner)
  BY <1>4 DEF Log!DiffSet, DiffSet
<1>6. \A id, field, from, to, owner :
          Log!DiffNumber(id, field, from, to, owner) = DiffNumber(id, field, from, to, owner)
  BY <1>1, <1>4 DEF Log!DiffNumber, DiffNumber
<1>7. \A id, from, to : Log!DiffExpectations(id, from, to) = DiffExpectations(id, from, to)
  BY <1>1, <1>5, <1>6 DEF Log!DiffExpectations, DiffExpectations
<1>8. \A id, from, to : Log!DiffJWKS(id, from, to) = DiffJWKS(id, from, to)
  BY <1>1, <1>4, <1>6 DEF Log!DiffJWKS, DiffJWKS
<1> HIDE DEF Names
<1>9. QED
  BY <1>1, <1>4, <1>7, <1>8 DEF Names, Log!Compute, Compute

(* The log of the refinement mapping, and its entries. *)
LogOf ==
    [i \in DOMAIN Recorded |-> [graph |-> Recorded[i].graph, events |-> ChangesTo(Recorded[i].id)]]

Entry(s, evts, i) ==
    [graph |-> s[i].graph, events |-> {e.change : e \in {f \in evts : f.to = s[i].id}}]

(* How many entries the log has: the last version is left out while its    *)
(* events are not stored.                                                  *)
Logged(p) == IF pc[p] = "saveEvents" THEN Len(saved) - 1 ELSE Len(saved)

LogIsEntries ==
    \A p \in Snapshotters :
        Logged(p) \in Nat /\ LogOf = [i \in 1..Logged(p) |-> Entry(saved, events, i)]

LEMMA LogIs == Serial /\ IInv /\ InSequence => LogIsEntries
<1> SUFFICES ASSUME Serial, IInv, InSequence, NEW p \in Snapshotters
             PROVE  Logged(p) \in Nat /\ LogOf = [i \in 1..Logged(p) |-> Entry(saved, events, i)]
  BY DEF LogIsEntries
<1>1. TypeOK /\ saved \in Seq(Version) /\ Len(saved) \in Nat /\ DOMAIN saved = 1..Len(saved)
  BY SavedIs DEF IInv, TypeOK
<1>2. CASE pc[p] = "saveEvents"
  <2>1. Unfinished # {} /\ Len(saved) > 1
    BY <1>2 DEF Unfinished, InSequence
  <2>2. PICK n \in Nat : n = Len(saved) - 1
    <3>1. Len(saved) - 1 \in Nat
      BY <1>1, <2>1
    <3>2. QED
      BY <3>1, Zenon
  <2>3. Recorded = SubSeq(saved, 1, n)
    BY <2>1, <2>2 DEF Recorded
  <2>4. \A i \in 1..n : saved[i] \in Version
    BY <1>1, <2>2, SavedIs
  <2>5. /\ Recorded \in Seq(Version) /\ Len(Recorded) = n
        /\ \A i \in 1..n : Recorded[i] = saved[i]
    <3>1. /\ SubSeq(saved, 1, n) \in Seq(Version)
          /\ Len(SubSeq(saved, 1, n)) = IF 1 <= n THEN n - 1 + 1 ELSE 0
          /\ \A i \in 1..n - 1 + 1 : SubSeq(saved, 1, n)[i] = saved[1 + i - 1]
      BY <2>4, SubSeqProperties
    <3>2. n - 1 + 1 = n /\ \A i \in 1..n : 1 + i - 1 = i
      OBVIOUS
    <3>3. QED
      BY <2>1, <2>2, <2>3, <3>1, <3>2
  <2>6. DOMAIN Recorded = 1..n
    BY <2>5, LenProperties
  <2>7. Logged(p) = n
    BY <1>2, <2>2 DEF Logged
  <2>8. QED
    BY <2>2, <2>5, <2>6, <2>7 DEF LogOf, Entry, ChangesTo
<1>3. CASE pc[p] # "saveEvents"
  <2>1. Unfinished = {}
    BY <1>3, OnlyOne DEF Unfinished
  <2>2. Recorded = saved /\ Logged(p) = Len(saved)
    BY <1>3, <2>1 DEF Recorded, Logged
  <2>3. QED
    BY <1>1, <2>2 DEF LogOf, Entry, ChangesTo
<1>4. QED
  BY <1>2, <1>3

LEMMA LogInit == Init => Log!Init
<1> SUFFICES ASSUME Init PROVE LogOf = <<>>
  BY DEF Log!Init, LogOf
<1>1. Unfinished = {}
  BY DEF Init, Unfinished
<1>2. Recorded = <<>>
  BY <1>1 DEF Init, Recorded
<1>3. QED
  BY <1>2 DEF LogOf

(* Appending one record to the log is the log's step. *)
LEMMA RecordIs ==
    ASSUME NEW g \in Graphs, NEW n \in Nat, Len(LogOf) = n, LogOf = <<>> <=> n = 0,
           LogOf' = Append(LogOf, [graph  |-> g,
                                   events |-> IF n = 0 THEN {} ELSE Compute(LogOf[n].graph, g)])
    PROVE  Log!Next
<1>1. PICK l : l = LogOf
  OBVIOUS
<1>2. LogOf' = Append(l, [graph  |-> g,
                          events |-> IF l = <<>> THEN {} ELSE Log!Compute(l[Len(l)].graph, g)])
  BY <1>1, SameDiffer
<1>3. Log!Record(g)
  BY <1>1, <1>2 DEF Log!Record, LogOf
<1>4. QED
  BY <1>3 DEF Log!Next

(* A step changes the log by one record, or leaves it alone. *)
LEMMA LogStep ==
    ASSUME Serial, IInv, InSequence, IInv', InSequence', [Next]_vars
    PROVE  [Log!Next]_LogOf
<1>1. /\ \A p \in Snapshotters :
             Logged(p) \in Nat /\ LogOf = [i \in 1..Logged(p) |-> Entry(saved, events, i)]
      /\ \A p \in Snapshotters :
             Logged(p)' \in Nat /\ LogOf' = [i \in 1..Logged(p)' |-> Entry(saved', events', i)]
  <2>1. LogIsEntries /\ LogIsEntries'
    BY LogIs, PTL
  <2>2. QED
    BY <2>1 DEF LogIsEntries
<1>2. PICK p \in Snapshotters : \A q \in Snapshotters : q = p
  BY DEF Serial
<1>3. PICK n \in Nat, m \in Nat :
        /\ n = Logged(p) /\ m = Logged(p)'
        /\ LogOf = [i \in 1..n |-> Entry(saved, events, i)]
        /\ LogOf' = [i \in 1..m |-> Entry(saved', events', i)]
  BY <1>1
<1>4. /\ TypeOK /\ TypeOK' /\ pc \in [Snapshotters -> Step] /\ draft \in [Snapshotters -> Version]
      /\ found \in [Snapshotters -> SUBSET Event] /\ saved \in Seq(Version) /\ Len(saved) \in Nat
      /\ DOMAIN saved = 1..Len(saved)
  BY SavedIs DEF IInv, TypeOK
(* The log stays when its length and the entries do. *)
<1>5. ASSUME m = n, \A i \in 1..n : Entry(saved', events', i) = Entry(saved, events, i)
      PROVE  UNCHANGED LogOf
  BY <1>3, <1>5
(* It grows by one record when its length does. *)
<1>6. ASSUME m = n + 1, \A i \in 1..n : Entry(saved', events', i) = Entry(saved, events, i),
             NEW g \in Graphs,
             Entry(saved', events', n + 1) =
                 [graph  |-> g,
                  events |-> IF n = 0 THEN {} ELSE Compute(saved[n].graph, g)]
      PROVE  Log!Next
  <2>1. PICK l, k : l = LogOf /\ k = LogOf'
    OBVIOUS
  <2>2. l = [i \in 1..n |-> Entry(saved, events, i)]
        /\ k = [i \in 1..(n + 1) |-> Entry(saved', events', i)]
    BY <1>3, <1>6, <2>1, Zenon
  <2>3. l = [i \in 1..n |-> l[i]] /\ k = [i \in 1..(n + 1) |-> k[i]]
    BY <2>2
  <2>4. /\ \A i \in 1..n : l[i] = Entry(saved, events, i)
        /\ \A i \in 1..(n + 1) : k[i] = Entry(saved', events', i)
        /\ \A i \in 1..n : i \in 1..(n + 1)
        /\ n + 1 \in 1..(n + 1)
        /\ n # 0 => n \in 1..n
    BY <2>2
  <2>5. k = Append(l, k[n + 1]) /\ Len(l) = n /\ (l = <<>> <=> n = 0)
    <3>1. \A i \in 1..n : k[i] = l[i]
      BY <1>6, <2>4
    <3>2. QED
      BY <2>3, <3>1, AppendIs
  <2>6. n # 0 => l[n].graph = saved[n].graph
    <3>1. \A i : Entry(saved, events, i).graph = saved[i].graph
      BY DEF Entry
    <3>2. n # 0 => l[n] = Entry(saved, events, n)
      BY <2>4
    <3>3. QED
      BY <3>1, <3>2
  <2>7. k[n + 1] = [graph  |-> g,
                    events |-> IF n = 0 THEN {} ELSE Compute(l[n].graph, g)]
    BY <1>6, <2>4, <2>6
  <2>8. QED
    BY <2>1, <2>5, <2>7, RecordIs
<1>7. CASE UNCHANGED <<saved, events>> /\ (pc'[p] = "saveEvents" <=> pc[p] = "saveEvents")
  <2>1. m = n
    BY <1>3, <1>7 DEF Logged
  <2>2. \A i \in 1..n : Entry(saved', events', i) = Entry(saved, events, i)
    BY <1>7
  <2>3. QED
    BY <1>5, <2>1, <2>2
<1>8. CASE SaveVersion(p)
  <2>1. /\ pc[p] = "saveVersion" /\ saved' = Append(saved, draft[p]) /\ events' = events
        /\ pc'[p] = IF found[p] = {} THEN "returned" ELSE "saveEvents"
    BY <1>4, <1>8 DEF SaveVersion
  <2>2. n = Len(saved) /\ m = IF found[p] = {} THEN n + 1 ELSE n
    <3>1. n = Len(saved)
      BY <1>3, <2>1 DEF Logged
    <3>2. Len(saved') = Len(saved) + 1
      BY <1>4, <2>1, AppendProperties
    <3>3. m = IF found[p] = {} THEN Len(saved') ELSE Len(saved') - 1
      BY <1>3, <2>1 DEF Logged
    <3>4. QED
      BY <3>1, <3>2, <3>3
  <2>3. saved'[n + 1] = draft[p] /\ \A i \in 1..n : saved'[i] = saved[i]
    <3>1. PICK d \in Version : d = draft[p]
      BY <1>4
    <3>2. /\ Append(saved, d)[Len(saved) + 1] = d
          /\ \A i \in 1..Len(saved) : Append(saved, d)[i] = saved[i]
      BY <1>4, AppendProperties
    <3>3. QED
      BY <2>1, <2>2, <3>1, <3>2
  <2>4. \A i \in 1..n : Entry(saved', events', i) = Entry(saved, events, i)
    BY <2>1, <2>3 DEF Entry
  <2>5. CASE found[p] # {}
    BY <1>5, <2>2, <2>4, <2>5
  <2>6. CASE found[p] = {}
    <3>1. {f \in events : f.to = draft[p].id} = {}
      <4>1. draft[p].id \notin SavedIDs
        BY <2>1 DEF IInv, IDsUnique
      <4>2. \A e \in events : e.to \in SavedIDs
        BY DEF IInv, EventsJoin, SavedIDs
      <4>3. QED
        BY <4>1, <4>2
    <3>2. Entry(saved', events', n + 1) = [graph |-> draft[p].graph, events |-> {}]
      BY <2>1, <2>3, <3>1 DEF Entry
    <3>3. n # 0 => Compute(saved[n].graph, draft[p].graph) = {}
      <4>1. n # 0 => EventsBetween(saved[n], draft[p]) = {}
        BY <1>4, <2>1, <2>2, <2>6, SavedIs DEF InSequence
      <4>2. \A v, w : EventsBetween(v, w) = {} => Compute(v.graph, w.graph) = {}
        BY DEF EventsBetween
      <4>3. QED
        BY <4>1, <4>2
    <3>4. draft[p].graph \in Graphs
      BY <1>4 DEF Version
    <3>5. Entry(saved', events', n + 1) =
              [graph  |-> draft[p].graph,
               events |-> IF n = 0 THEN {} ELSE Compute(saved[n].graph, draft[p].graph)]
      BY <3>2, <3>3
    <3>6. m = n + 1
      BY <2>2, <2>6
    <3>7. QED
      BY <1>6, <2>4, <3>4, <3>5, <3>6
  <2>7. QED
    BY <2>5, <2>6
<1>9. CASE SaveEvents(p)
  <2>1. /\ pc[p] = "saveEvents" /\ pc'[p] = "returned" /\ saved' = saved
        /\ events' = events \cup found[p]
    BY <1>4, <1>9 DEF SaveEvents
  <2>2. Len(saved) = n + 1 /\ m = n + 1 /\ n # 0
    BY <1>3, <1>4, <2>1 DEF Logged, InSequence
  <2>3. draft[p] = saved[n + 1] /\ found[p] = EventsBetween(saved[n], draft[p])
    <3>1. Len(saved) - 1 = n
      BY <2>2
    <3>2. QED
      BY <2>1, <2>2, <3>1 DEF InSequence
  <2>4. n \in 1..Len(saved) /\ n + 1 \in 1..Len(saved) /\ \A i \in 1..n : i \in 1..Len(saved) /\ i < n + 1
    BY <2>2
  <2>5. \A e \in found[p] : e.to = draft[p].id
    <3>1. saved[n] \in Version /\ draft[p] \in Version
      BY <1>4, <2>4, SavedIs
    <3>2. QED
      BY <2>3, <3>1, EventsBetweenType
  <2>6. \A i \in 1..n : Entry(saved', events', i) = Entry(saved, events, i)
    <3>1. ASSUME NEW i \in 1..n PROVE saved[i].id # draft[p].id
      <4>1. saved[i] \in Versions /\ saved[n + 1] \in Versions
        BY <1>4, <2>4, SavedIs
      <4>2. saved[i].created < saved[n + 1].created
        BY <1>4, <2>4 DEF InSequence
      <4>3. saved[i].created \in Int
        BY <1>4, <2>4, SavedIs
      <4>4. saved[i] # saved[n + 1]
        BY <4>2, <4>3
      <4>5. QED
        BY <2>3, <4>1, <4>4 DEF IInv, IDsUnique
    <3>2. \A i \in 1..n : {f \in events' : f.to = saved[i].id} = {f \in events : f.to = saved[i].id}
      BY <2>1, <2>5, <3>1
    <3>3. QED
      BY <2>1, <3>2 DEF Entry
  <2>7. Entry(saved', events', n + 1) =
            [graph |-> draft[p].graph, events |-> Compute(saved[n].graph, draft[p].graph)]
    <3>1. \A e \in events : e.to # draft[p].id
      BY <2>1 DEF IInv, EventsJoin
    <3>2. {f \in events' : f.to = draft[p].id} = found[p]
      BY <2>1, <2>5, <3>1
    <3>3. {e.change : e \in found[p]} = Compute(saved[n].graph, draft[p].graph)
      <4>1. ASSUME NEW v, NEW w
            PROVE  {e.change : e \in EventsBetween(v, w)} = Compute(v.graph, w.graph)
        <5>1. \A e \in EventsBetween(v, w) : e.change \in Compute(v.graph, w.graph)
          BY DEF EventsBetween
        <5>2. ASSUME NEW c \in Compute(v.graph, w.graph)
              PROVE  \E e \in EventsBetween(v, w) : e.change = c
          <6>1. [from |-> v.id, to |-> w.id, change |-> c] \in EventsBetween(v, w)
            BY <5>2 DEF EventsBetween
          <6>2. [from |-> v.id, to |-> w.id, change |-> c].change = c
            OBVIOUS
          <6>3. QED
            BY <6>1, <6>2, Zenon
        <5>3. QED
          BY <5>1, <5>2, Zenon
      <4>2. QED
        BY <2>3, <4>1
    <3>4. QED
      BY <2>1, <2>3, <3>2, <3>3 DEF Entry
  <2>8. draft[p].graph \in Graphs
    BY <1>4 DEF Version
  <2>9. Entry(saved', events', n + 1) =
            [graph  |-> draft[p].graph,
             events |-> IF n = 0 THEN {} ELSE Compute(saved[n].graph, draft[p].graph)]
    BY <2>2, <2>7
  <2>10. QED
    BY <1>6, <2>2, <2>6, <2>8, <2>9
<1>10. CASE Deploy \/ UNCHANGED vars
  BY <1>7, <1>10 DEF Deploy, vars, storeVars, processVars, countVars
<1>11. CASE Discover(p) \/ Build(p) \/ CheckBaseline(p) \/ ReadLatest(p) \/ Return(p)
  <2>1. UNCHANGED <<saved, events>>
    BY <1>11 DEF Discover, Build, CheckBaseline, ReadLatest, Return, storeVars
  <2>2. pc[p] # "saveEvents" /\ pc'[p] # "saveEvents"
    BY <1>4, <1>11 DEF Discover, Build, CheckBaseline, ReadLatest, Return, Forget
  <2>3. QED
    BY <1>7, <2>1, <2>2
<1>12. CASE Fail(p)
  BY <1>12 DEF Fail, Serial, InSequence
<1>13. QED
  BY <1>2, <1>8, <1>9, <1>10, <1>11, <1>12 DEF Next, Progress

(* One snapshotter without failures implements the abstract log: every     *)
(* version stored with its events is one record of it, for any graphs,     *)
(* either store and any clock that is not set back                         *)
(* (contract.SnapshotWithAttribution).                                     *)
THEOREM SerialImplementsLog == ASSUME Serial PROVE Spec => ImplementsLog
<1>1. Init => InSequence /\ Log!Init
  BY SequenceInit, LogInit
<1>2. IInv /\ InSequence /\ [Next]_vars => InSequence'
  BY SequenceStep
<1>3. IInv /\ InSequence /\ IInv' /\ InSequence' /\ [Next]_vars => [Log!Next]_LogOf
  BY LogStep
<1>4. QED
  BY <1>1, <1>2, <1>3, Inductive, PTL DEF Spec, ImplementsLog, Log!Spec, LogOf

(***************************************************************************)
(* The differ: what its silence and its events say.                        *)
(***************************************************************************)

(* What two graphs agree on when the differ is silent about them: a value  *)
(* that was not learnt on one side agrees with any on the other.           *)
Agree(from, to) ==
    /\ from.audiences = to.audiences /\ from.issuers = to.issuers
    /\ from.algorithms = to.algorithms /\ from.requiredClaims = to.requiredClaims
    /\ from.clockSkew = to.clockSkew
    /\ from.refresh = to.refresh \/ NotKnown \in {from.refresh, to.refresh}
    /\ from.cacheTTL = to.cacheTTL \/ NoTTL \in {from.cacheTTL, to.cacheTTL}

(* The differ is silent about two graphs when, and only when, they have    *)
(* the same consumers and these agree on all that it compares (Compute):   *)
(* no event is made up and none is left out.                               *)
THEOREM SilenceIsAgreement ==
    ASSUME NEW g \in Graphs, NEW h \in Graphs
    PROVE  Compute(g, h) = {} <=> /\ DOMAIN g = DOMAIN h
                                  /\ \A id \in DOMAIN g : Agree(g[id], h[id])
<1>1. ASSUME NEW id, NEW field, NEW from, NEW to, NEW owner
      PROVE  DiffSet(id, field, from, to, owner) = {} <=> from \ to = {} /\ to \ from = {}
  BY DEF DiffSet
<1>2. ASSUME NEW id, NEW field, NEW from, NEW to, NEW owner
      PROVE  DiffNumber(id, field, from, to, owner) = {} <=> from = to
  BY DEF DiffNumber
<1>3. ASSUME NEW id, NEW from \in Consumer, NEW to \in Consumer
      PROVE  DiffExpectations(id, from, to) \cup DiffJWKS(id, from, to) = {} <=> Agree(from, to)
  <2>1. DiffExpectations(id, from, to) = {} <=>
           /\ from.audiences = to.audiences /\ from.issuers = to.issuers
           /\ from.algorithms = to.algorithms /\ from.requiredClaims = to.requiredClaims
           /\ from.clockSkew = to.clockSkew
    <3>1. \A s, t : s \ t = {} /\ t \ s = {} <=> s \subseteq t /\ t \subseteq s
      OBVIOUS
    <3>2. /\ from.audiences \subseteq to.audiences /\ to.audiences \subseteq from.audiences
             <=> from.audiences = to.audiences
          /\ from.issuers \subseteq to.issuers /\ to.issuers \subseteq from.issuers
             <=> from.issuers = to.issuers
          /\ from.algorithms \subseteq to.algorithms /\ to.algorithms \subseteq from.algorithms
             <=> from.algorithms = to.algorithms
          /\ from.requiredClaims \subseteq to.requiredClaims /\ to.requiredClaims \subseteq from.requiredClaims
             <=> from.requiredClaims = to.requiredClaims
      OBVIOUS
    <3>3. QED
      BY <1>1, <1>2, <3>1, <3>2 DEF DiffExpectations
  <2>2. DiffJWKS(id, from, to) = {} <=>
           /\ from.refresh = to.refresh \/ NotKnown \in {from.refresh, to.refresh}
           /\ from.cacheTTL = to.cacheTTL \/ NoTTL \in {from.cacheTTL, to.cacheTTL}
    BY <1>2 DEF DiffJWKS
  <2>3. QED
    BY <2>1, <2>2 DEF Agree
<1>4. /\ \A id \in DOMAIN g : g[id] \in Consumer
      /\ \A id \in DOMAIN h : h[id] \in Consumer
  BY GraphsAssumption
<1> DEFINE gone    == {Change(id, g[id], FieldConsumer, "consumer_del", NoValue) : id \in DOMAIN g \ DOMAIN h}
           new     == {Change(id, h[id], FieldConsumer, "consumer_add", NoValue) : id \in DOMAIN h \ DOMAIN g}
           between(id) == DiffExpectations(id, g[id], h[id]) \cup DiffJWKS(id, g[id], h[id])
           changed == UNION {between(id) : id \in DOMAIN g \cap DOMAIN h}
<1>5. Compute(g, h) = {} <=> gone = {} /\ new = {} /\ changed = {}
  <2>1. Compute(g, h) = gone \cup new \cup changed
    BY DEF Compute
  <2> HIDE DEF gone, new, changed
  <2>2. QED
    BY <2>1
<1>6. (gone = {} <=> DOMAIN g \subseteq DOMAIN h) /\ (new = {} <=> DOMAIN h \subseteq DOMAIN g)
  OBVIOUS
<1>7. changed = {} <=> \A id \in DOMAIN g \cap DOMAIN h : Agree(g[id], h[id])
  <2>1. \A id \in DOMAIN g \cap DOMAIN h : between(id) = {} <=> Agree(g[id], h[id])
    BY <1>3, <1>4
  <2>2. changed = {} <=> \A id \in DOMAIN g \cap DOMAIN h : between(id) = {}
    <3> HIDE DEF between
    <3>1. QED
      OBVIOUS
  <2>3. QED
    BY <2>1, <2>2
<1> HIDE DEF gone, new, changed
<1>8. DOMAIN g = DOMAIN h <=> DOMAIN g \subseteq DOMAIN h /\ DOMAIN h \subseteq DOMAIN g
  OBVIOUS
<1>9. QED
  BY <1>5, <1>6, <1>7, <1>8

(* The values reported of a consumer's field. *)
Reported(delta, id, field, op) ==
    {c.value : c \in {d \in delta : d.consumer = id /\ d.field = field /\ d.op = op}}

(* The changes of a list of values: what is reported as added, ... *)
LEMMA ReportedAdded ==
    ASSUME NEW id, NEW field, NEW from, NEW to, NEW owner, NEW delta,
           DiffSet(id, field, from, to, owner) \subseteq delta,
           \A c \in delta : c.consumer = id /\ c.field = field => c \in DiffSet(id, field, from, to, owner)
    PROVE  Reported(delta, id, field, "add") = to \ from
<1>1. \A o, v : LET c == Change(id, owner, field, o, v)
                IN  c.consumer = id /\ c.field = field /\ c.op = o /\ c.value = v
  BY DEF Change
<1>2. \A c \in DiffSet(id, field, from, to, owner) :
         \/ \E v \in to \ from : c = Change(id, owner, field, "add", v)
         \/ \E v \in from \ to : c = Change(id, owner, field, "remove", v)
  BY Zenon DEF DiffSet
<1>3. \A v \in to \ from : Change(id, owner, field, "add", v) \in delta
  BY DEF DiffSet
<1>4. ASSUME NEW c \in delta, c.consumer = id, c.field = field, c.op = "add"
      PROVE  c.value \in to \ from
  BY <1>1, <1>2, <1>4
<1>5. ASSUME NEW v \in to \ from
      PROVE  \E c \in delta : c.consumer = id /\ c.field = field /\ c.op = "add" /\ c.value = v
  BY <1>1, <1>3
<1>6. QED
  BY <1>4, <1>5 DEF Reported

(* ... and as removed. *)
LEMMA ReportedRemoved ==
    ASSUME NEW id, NEW field, NEW from, NEW to, NEW owner, NEW delta,
           DiffSet(id, field, from, to, owner) \subseteq delta,
           \A c \in delta : c.consumer = id /\ c.field = field => c \in DiffSet(id, field, from, to, owner)
    PROVE  Reported(delta, id, field, "remove") = from \ to
<1>1. \A o, v : LET c == Change(id, owner, field, o, v)
                IN  c.consumer = id /\ c.field = field /\ c.op = o /\ c.value = v
  BY DEF Change
<1>2. \A c \in DiffSet(id, field, from, to, owner) :
         \/ \E v \in to \ from : c = Change(id, owner, field, "add", v)
         \/ \E v \in from \ to : c = Change(id, owner, field, "remove", v)
  BY Zenon DEF DiffSet
<1>3. \A v \in from \ to : Change(id, owner, field, "remove", v) \in delta
  BY DEF DiffSet
<1>4. ASSUME NEW c \in delta, c.consumer = id, c.field = field, c.op = "remove"
      PROVE  c.value \in from \ to
  BY <1>1, <1>2, <1>4
<1>5. ASSUME NEW v \in from \ to
      PROVE  \E c \in delta : c.consumer = id /\ c.field = field /\ c.op = "remove" /\ c.value = v
  BY <1>1, <1>3
<1>6. QED
  BY <1>4, <1>5 DEF Reported

(* The changes of a consumer in both graphs are about it, and those of a   *)
(* list are the differ's for that list.                                    *)
LEMMA ChangesOfConsumer ==
    ASSUME NEW id, NEW from, NEW to, NEW c \in DiffExpectations(id, from, to) \cup DiffJWKS(id, from, to)
    PROVE  /\ c.consumer = id /\ c.op \notin {"consumer_add", "consumer_del"} /\ c.field # FieldConsumer
           /\ c.field = FieldAudiences => c \in DiffSet(id, FieldAudiences, from.audiences, to.audiences, to)
           /\ c.field = FieldIssuers => c \in DiffSet(id, FieldIssuers, from.issuers, to.issuers, to)
           /\ c.field = FieldAlgorithms => c \in DiffSet(id, FieldAlgorithms, from.algorithms, to.algorithms, to)
           /\ c.field = FieldRequiredClaims =>
                 c \in DiffSet(id, FieldRequiredClaims, from.requiredClaims, to.requiredClaims, to)
<1> DEFINE A == DiffSet(id, FieldAudiences, from.audiences, to.audiences, to)
           I == DiffSet(id, FieldIssuers, from.issuers, to.issuers, to)
           G == DiffSet(id, FieldAlgorithms, from.algorithms, to.algorithms, to)
           R == DiffSet(id, FieldRequiredClaims, from.requiredClaims, to.requiredClaims, to)
           S == DiffNumber(id, FieldClockSkew, from.clockSkew, to.clockSkew, to)
           J == DiffJWKS(id, from, to)
<1>1. c \in A \/ c \in I \/ c \in G \/ c \in R \/ c \in S \/ c \in J
  BY DEF DiffExpectations
<1>2. /\ \A d \in A : d.field = FieldAudiences
      /\ \A d \in I : d.field = FieldIssuers
      /\ \A d \in G : d.field = FieldAlgorithms
      /\ \A d \in R : d.field = FieldRequiredClaims
      /\ \A d \in A \cup I \cup G \cup R : d.consumer = id /\ d.op \in {"add", "remove"}
  BY DEF DiffSet, Change
<1>3. \A d \in S : d.consumer = id /\ d.field = FieldClockSkew /\ d.op \in {"increase", "decrease"}
  BY DEF DiffNumber, Change
<1>4. \A d \in J : /\ d.consumer = id /\ d.field \in {FieldRefreshUnknown, FieldCacheTTL}
                   /\ d.op \in {"true_false", "false_true", "increase", "decrease"}
  BY DEF DiffJWKS, DiffNumber, Change
<1> HIDE DEF A, I, G, R, S, J
<1>5. c.consumer = id /\ c.op \notin {"consumer_add", "consumer_del"}
  BY <1>1, <1>2, <1>3, <1>4
<1>6. /\ c.field # FieldConsumer
      /\ c.field = FieldAudiences => c \in A
      /\ c.field = FieldIssuers => c \in I
      /\ c.field = FieldAlgorithms => c \in G
      /\ c.field = FieldRequiredClaims => c \in R
  BY <1>1, <1>2, <1>3, <1>4
  DEF FieldConsumer, FieldAudiences, FieldIssuers, FieldAlgorithms, FieldRequiredClaims, FieldClockSkew,
      FieldRefreshUnknown, FieldCacheTTL
<1>7. QED
  BY <1>5, <1>6 DEF A, I, G, R

(* The consumers that are new, or gone, according to the changes.          *)
Subjects(delta, op) == {c.consumer : c \in {d \in delta : d.op = op}}

(* A list as it was, with the changes made to it.                          *)
Replayed(before, delta, id, field) ==
    (before \ Reported(delta, id, field, "remove")) \cup Reported(delta, id, field, "add")

(* The events tell the whole story: made to the older graph, the changes   *)
(* give the consumers of the newer one and every list of what each expects *)
(* (Compute, diffExpectations), so a history of events can be replayed.    *)
THEOREM ChangesReplay ==
    ASSUME NEW g \in Graphs, NEW h \in Graphs
    PROVE  LET delta == Compute(g, h)
           IN  /\ DOMAIN h = (DOMAIN g \ Subjects(delta, "consumer_del")) \cup Subjects(delta, "consumer_add")
               /\ \A id \in DOMAIN g \cap DOMAIN h :
                     /\ h[id].audiences = Replayed(g[id].audiences, delta, id, FieldAudiences)
                     /\ h[id].issuers = Replayed(g[id].issuers, delta, id, FieldIssuers)
                     /\ h[id].algorithms = Replayed(g[id].algorithms, delta, id, FieldAlgorithms)
                     /\ h[id].requiredClaims = Replayed(g[id].requiredClaims, delta, id, FieldRequiredClaims)
<1>0. PICK delta : delta = Compute(g, h)
  OBVIOUS
<1> DEFINE gone    == {Change(id, g[id], FieldConsumer, "consumer_del", NoValue) : id \in DOMAIN g \ DOMAIN h}
           new     == {Change(id, h[id], FieldConsumer, "consumer_add", NoValue) : id \in DOMAIN h \ DOMAIN g}
           between(id) == DiffExpectations(id, g[id], h[id]) \cup DiffJWKS(id, g[id], h[id])
<1>1. /\ delta = gone \cup new \cup UNION {between(id) : id \in DOMAIN g \cap DOMAIN h}
      /\ \A id \in DOMAIN g \cap DOMAIN h :
            between(id) = DiffExpectations(id, g[id], h[id]) \cup DiffJWKS(id, g[id], h[id])
  BY <1>0 DEF Compute
<1>2. /\ \A c \in gone : c.op = "consumer_del" /\ c.field = FieldConsumer /\ c.consumer \in DOMAIN g \ DOMAIN h
      /\ \A c \in new : c.op = "consumer_add" /\ c.field = FieldConsumer /\ c.consumer \in DOMAIN h \ DOMAIN g
      /\ \A id \in DOMAIN g \ DOMAIN h : \E c \in gone : c.consumer = id /\ c.op = "consumer_del"
      /\ \A id \in DOMAIN h \ DOMAIN g : \E c \in new : c.consumer = id /\ c.op = "consumer_add"
  <2>1. \A id, owner, op : LET c == Change(id, owner, FieldConsumer, op, NoValue)
                           IN  c.consumer = id /\ c.field = FieldConsumer /\ c.op = op
    BY DEF Change
  <2>2. /\ \A id \in DOMAIN g \ DOMAIN h : Change(id, g[id], FieldConsumer, "consumer_del", NoValue) \in gone
        /\ \A id \in DOMAIN h \ DOMAIN g : Change(id, h[id], FieldConsumer, "consumer_add", NoValue) \in new
    OBVIOUS
  <2>3. /\ \A c \in gone : \E id \in DOMAIN g \ DOMAIN h : c = Change(id, g[id], FieldConsumer, "consumer_del", NoValue)
        /\ \A c \in new : \E id \in DOMAIN h \ DOMAIN g : c = Change(id, h[id], FieldConsumer, "consumer_add", NoValue)
    OBVIOUS
  <2> HIDE DEF gone, new
  <2>4. QED
    BY <2>1, <2>2, <2>3
<1> HIDE DEF gone, new, between
<1>3. \A c \in delta : \/ c \in gone \/ c \in new
                         \/ \E id \in DOMAIN g \cap DOMAIN h : c \in between(id)
  BY <1>1
<1>4. gone \subseteq delta /\ new \subseteq delta /\ \A id \in DOMAIN g \cap DOMAIN h : between(id) \subseteq delta
  BY <1>1
<1>5. \A id \in DOMAIN g \cap DOMAIN h : \A c \in between(id) :
         c.consumer = id /\ c.op \notin {"consumer_add", "consumer_del"} /\ c.field # FieldConsumer
  BY <1>1, ChangesOfConsumer
<1>6. /\ \A id : id \in Subjects(delta, "consumer_del") <=> id \in DOMAIN g \ DOMAIN h
      /\ \A id : id \in Subjects(delta, "consumer_add") <=> id \in DOMAIN h \ DOMAIN g
  <2>1. \A c \in delta : /\ c.op = "consumer_del" => c.consumer \in DOMAIN g \ DOMAIN h
                         /\ c.op = "consumer_add" => c.consumer \in DOMAIN h \ DOMAIN g
    BY <1>2, <1>3, <1>5
  <2>2. /\ \A id \in DOMAIN g \ DOMAIN h : \E c \in delta : c.consumer = id /\ c.op = "consumer_del"
        /\ \A id \in DOMAIN h \ DOMAIN g : \E c \in delta : c.consumer = id /\ c.op = "consumer_add"
    BY <1>2, <1>4
  <2>3. QED
    BY <2>1, <2>2 DEF Subjects
<1>7. DOMAIN h = (DOMAIN g \ Subjects(delta, "consumer_del")) \cup Subjects(delta, "consumer_add")
  BY <1>6
<1>8. ASSUME NEW id \in DOMAIN g \cap DOMAIN h, NEW field, NEW from, NEW to, NEW owner, field # FieldConsumer,
             DiffSet(id, field, from, to, owner) \subseteq between(id),
             \A c \in between(id) : c.field = field => c \in DiffSet(id, field, from, to, owner)
      PROVE  to = Replayed(from, delta, id, field)
  <2>1. \A c \in delta : c.consumer = id /\ c.field = field => c \in DiffSet(id, field, from, to, owner)
    BY <1>2, <1>3, <1>5, <1>8
  <2>2. DiffSet(id, field, from, to, owner) \subseteq delta
    BY <1>4, <1>8
  <2>3. /\ Reported(delta, id, field, "add") = to \ from
        /\ Reported(delta, id, field, "remove") = from \ to
    <3>1. Reported(delta, id, field, "add") = to \ from
      BY <2>1, <2>2, ReportedAdded
    <3>2. Reported(delta, id, field, "remove") = from \ to
      BY <2>1, <2>2, ReportedRemoved
    <3>3. QED
      BY <3>1, <3>2
  <2>4. Replayed(from, delta, id, field) = (from \ (from \ to)) \cup (to \ from)
    BY <2>3 DEF Replayed
  <2>5. \A S, T : (S \ (S \ T)) \cup (T \ S) = T
    <3>1. ASSUME NEW S, NEW T PROVE (S \ (S \ T)) \cup (T \ S) = T
      OBVIOUS
    <3>2. QED
      BY <3>1
  <2>6. QED
    BY <2>4, <2>5
<1>9. ASSUME NEW id \in DOMAIN g \cap DOMAIN h
      PROVE  /\ h[id].audiences = Replayed(g[id].audiences, delta, id, FieldAudiences)
             /\ h[id].issuers = Replayed(g[id].issuers, delta, id, FieldIssuers)
             /\ h[id].algorithms = Replayed(g[id].algorithms, delta, id, FieldAlgorithms)
             /\ h[id].requiredClaims = Replayed(g[id].requiredClaims, delta, id, FieldRequiredClaims)
  <2>1. /\ DiffSet(id, FieldAudiences, g[id].audiences, h[id].audiences, h[id]) \subseteq between(id)
        /\ DiffSet(id, FieldIssuers, g[id].issuers, h[id].issuers, h[id]) \subseteq between(id)
        /\ DiffSet(id, FieldAlgorithms, g[id].algorithms, h[id].algorithms, h[id]) \subseteq between(id)
        /\ DiffSet(id, FieldRequiredClaims, g[id].requiredClaims, h[id].requiredClaims, h[id]) \subseteq between(id)
    BY <1>1 DEF DiffExpectations
  <2>2. \A c \in between(id) :
           /\ c.field = FieldAudiences => c \in DiffSet(id, FieldAudiences, g[id].audiences, h[id].audiences, h[id])
           /\ c.field = FieldIssuers => c \in DiffSet(id, FieldIssuers, g[id].issuers, h[id].issuers, h[id])
           /\ c.field = FieldAlgorithms => c \in DiffSet(id, FieldAlgorithms, g[id].algorithms, h[id].algorithms, h[id])
           /\ c.field = FieldRequiredClaims =>
                 c \in DiffSet(id, FieldRequiredClaims, g[id].requiredClaims, h[id].requiredClaims, h[id])
    BY <1>1, ChangesOfConsumer
  <2>3. FieldConsumer \notin {FieldAudiences, FieldIssuers, FieldAlgorithms, FieldRequiredClaims}
    BY DEF FieldConsumer, FieldAudiences, FieldIssuers, FieldAlgorithms, FieldRequiredClaims
  <2>4. h[id].audiences = Replayed(g[id].audiences, delta, id, FieldAudiences)
    BY <1>8, <2>1, <2>2, <2>3
  <2>5. h[id].issuers = Replayed(g[id].issuers, delta, id, FieldIssuers)
    BY <1>8, <2>1, <2>2, <2>3
  <2>6. h[id].algorithms = Replayed(g[id].algorithms, delta, id, FieldAlgorithms)
    BY <1>8, <2>1, <2>2, <2>3
  <2>7. h[id].requiredClaims = Replayed(g[id].requiredClaims, delta, id, FieldRequiredClaims)
    BY <1>8, <2>1, <2>2, <2>3
  <2>8. QED
    BY <2>4, <2>5, <2>6, <2>7
<1>10. QED
  BY <1>0, <1>7, <1>9
=============================================================================
