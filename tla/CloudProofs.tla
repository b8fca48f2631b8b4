----------------------------- MODULE CloudProofs -----------------------------
(* Theorems about Cloud: any users, handlers, repositories, projects and   *)
(* analyses, and restarts at any time.                                     *)
EXTENDS Cloud, Collections

(***************************************************************************)
(* What is in the store, and what a handler has in hand.                   *)
(***************************************************************************)

Files == UNION Worlds
Paths == {f.path : f \in Files}

EveryChange == UNION {Drift[pair] : pair \in Readable \X Readable}

Records ==
    [id : Nat, project : Nat, created : Nat, ref : Nat \cup {None}, files : SUBSET Files,
     baseline : BOOLEAN, changes : SUBSET EveryChange, seen : Nat]

Stages == {"get latest", "list", "delete", "analyze", "list tree", "fetch", "read previous", "derive"}

Handlings ==
    [at : Stages, user : Users, project : Nat, dead : {FALSE}, ref : Nat \cup {None},
     pending : SUBSET Paths, files : SUBSET Files, prev : SUBSET Records, seen : Nat]

Checks == [at : {"check owner"}, user : Users, dead : BOOLEAN, analysis : Records]
Saves  == [at : {"save"}, user : Users, dead : {FALSE}, analysis : Records]

Forms == {Idle} \cup Handlings \cup Checks \cup Saves

Tracked == [owner : Users, latest : Nat \cup {None}]

CloudTypes ==
    /\ projects \in [DOMAIN projects -> Tracked]
    /\ repo \in Seq(SUBSET Files) /\ repo # <<>>
    /\ clock \in Nat
    /\ saved \subseteq Records /\ IsFiniteSet(saved)
    /\ worker \in [Workers -> Forms]

(* Analyses and projects are numbered as they are made. *)
Numbered ==
    /\ \A a \in saved : 1 <= a.id /\ a.id <= Cardinality(saved)
    /\ \A a, b \in saved : a.id = b.id => a = b
    /\ \E n \in Nat : DOMAIN owners = 1..n
    /\ deleted \subseteq DOMAIN owners

(* The store loses no analysis of a project that is not deleted. *)
LiveKept ==
    \A a \in saved : a.project \notin deleted => a.id \in DOMAIN analyses /\ analyses[a.id] = a

(***************************************************************************)
(* What holds of each analysis, and of each handler at every step.         *)
(***************************************************************************)

(* Those an analysis could see. *)
Earlier(project, seen) == {b \in saved : b.project = project /\ b.id <= seen}

NewestOf(b, S) == b \in S /\ \A c \in S : c.created <= b.created

Read(ref, files) == ref # None => ref \in DOMAIN repo /\ files \subseteq repo[ref]

Explained(a) ==
    \/ a.project \in deleted
    \/ Earlier(a.project, a.seen) = {} /\ a.baseline /\ a.changes = {}
    \/ /\ ~a.baseline
       /\ \E b \in Earlier(a.project, a.seen) :
             /\ NewestOf(b, Earlier(a.project, a.seen))
             /\ a.changes = Drift[<<b.files, a.files>>]

Rooted(a) ==
    /\ a.project \in DOMAIN owners
    /\ Read(a.ref, a.files)
    /\ a.seen <= Cardinality(saved)
    /\ Explained(a)

(* The analysis before, as a handler has read it. *)
Based(r) ==
    /\ r.seen <= Cardinality(saved)
    /\ \/ r.project \in deleted
       \/ Earlier(r.project, r.seen) = {} /\ r.prev = {}
       \/ \E b \in Earlier(r.project, r.seen) : r.prev = {b} /\ NewestOf(b, Earlier(r.project, r.seen))

Fit(r) ==
    /\ r \in Handlings =>
          /\ r.project \in DOMAIN owners /\ owners[r.project] = r.user
          /\ Read(r.ref, r.files)
          /\ r.at = "analyze" => r.ref = None /\ r.files = {}
          /\ r.at = "derive" => Based(r)
    /\ r \in Checks => r.analysis \in saved /\ (r.dead => r.analysis.project \in deleted)
    /\ r \in Saves => Rooted(r.analysis) /\ owners[r.analysis.project] = r.user

AllRooted == \A a \in saved : Rooted(a)
AllFit    == \A w \in Workers : Fit(worker[w])

(* The inductive invariant. *)
CInv ==
    /\ CloudTypes
    /\ TypeOK
    /\ Numbered
    /\ LiveKept
    /\ AllRooted
    /\ AllFit

(***************************************************************************)
(* Handlers.                                                               *)
(***************************************************************************)

LEMMA IdleFits == Idle \in Forms /\ Fit(Idle) /\ Fit(Idle)'
<1>1. Idle.at = "idle" /\ "idle" \notin Stages
  BY DEF Idle, Stages
<1>2. Idle \notin Handlings /\ Idle \notin Checks /\ Idle \notin Saves
  BY <1>1 DEF Handlings, Checks, Saves
<1>3. QED
  BY <1>2 DEF Forms, Fit

(* What a handler holds, by the step it is at. *)
LEMMA FormOf ==
    ASSUME NEW r \in Forms
    PROVE  /\ r.at \in Stages => r \in Handlings
           /\ r.at = "check owner" => r \in Checks
           /\ r.at = "save" => r \in Saves
           /\ r \in Handlings => r \notin Checks /\ r \notin Saves
           /\ r \in Checks => r \notin Saves
<1>1. Idle.at = "idle"
  BY DEF Idle
<1>2. /\ \A s \in Handlings : s.at \in Stages
      /\ \A s \in Checks : s.at = "check owner"
      /\ \A s \in Saves : s.at = "save"
  BY DEF Handlings, Checks, Saves
<1>3. "idle" \notin Stages /\ "check owner" \notin Stages /\ "save" \notin Stages
  BY DEF Stages
<1>4. QED
  BY <1>1, <1>2, <1>3 DEF Forms

LEMMA WorkerIs ==
    ASSUME CInv, NEW w \in Workers
    PROVE  worker[w] \in Forms /\ Fit(worker[w])
BY DEF CInv, CloudTypes, AllFit

(***************************************************************************)
(* What grows while the server is up.                                      *)
(***************************************************************************)

Grows ==
    /\ \A p \in DOMAIN owners : p \in DOMAIN owners' /\ owners'[p] = owners[p]
    /\ deleted \subseteq deleted'
    /\ saved \subseteq saved'
    /\ \A b \in saved' : b \in saved \/ b.id > Cardinality(saved)
    /\ Cardinality(saved) \in Nat /\ Cardinality(saved') \in Nat
    /\ Cardinality(saved) <= Cardinality(saved')
    /\ \A i \in DOMAIN repo : i \in DOMAIN repo' /\ repo'[i] = repo[i]

LEMMA EarlierStays ==
    ASSUME Grows, NEW project, NEW seen \in Nat, seen <= Cardinality(saved),
           \A b \in saved' : b.id \in Nat
    PROVE  Earlier(project, seen)' = Earlier(project, seen)
BY DEF Grows, Earlier

LEMMA RootedStays ==
    ASSUME Grows, NEW a, a.seen \in Nat, Rooted(a), \A b \in saved' : b.id \in Nat
    PROVE  Rooted(a)'
<1>1. a.seen <= Cardinality(saved) /\ a.seen <= Cardinality(saved')
  BY DEF Rooted, Grows
<1>2. Earlier(a.project, a.seen)' = Earlier(a.project, a.seen)
  BY <1>1, EarlierStays
<1>3. Explained(a)'
  BY <1>2 DEF Rooted, Explained, NewestOf, Grows
<1>4. Read(a.ref, a.files)'
  BY DEF Rooted, Read, Grows
<1>5. QED
  BY <1>1, <1>3, <1>4 DEF Rooted, Grows

LEMMA FitStays ==
    ASSUME Grows, NEW r \in Forms, Fit(r), \A b \in saved' : b.id \in Nat
    PROVE  Fit(r)'
<1>1. ASSUME r \in Handlings
      PROVE  /\ r.project \in DOMAIN owners' /\ owners'[r.project] = r.user
             /\ Read(r.ref, r.files)'
             /\ r.at = "derive" => Based(r)'
  <2>1. r.project \in DOMAIN owners' /\ owners'[r.project] = r.user
    BY <1>1 DEF Fit, Grows
  <2>2. Read(r.ref, r.files)'
    BY <1>1 DEF Fit, Read, Grows
  <2>3. ASSUME r.at = "derive" PROVE Based(r)'
    <3>1. Based(r) /\ r.seen \in Nat
      BY <1>1, <2>3 DEF Fit, Handlings
    <3>2. r.seen <= Cardinality(saved) /\ r.seen <= Cardinality(saved')
      BY <3>1 DEF Based, Grows
    <3>3. Earlier(r.project, r.seen)' = Earlier(r.project, r.seen)
      BY <3>1, <3>2, EarlierStays
    <3>4. QED
      BY <3>1, <3>2, <3>3 DEF Based, NewestOf, Grows
  <2>4. QED
    BY <2>1, <2>2, <2>3
<1>2. ASSUME r \in Checks
      PROVE  r.analysis \in saved' /\ (r.dead => r.analysis.project \in deleted')
  BY <1>2 DEF Fit, Grows
<1>3. ASSUME r \in Saves
      PROVE  Rooted(r.analysis)' /\ owners'[r.analysis.project] = r.user
  <2>1. r.analysis \in Records
    BY <1>3 DEF Saves
  <2>2. r.analysis.seen \in Nat
    BY <2>1 DEF Records
  <2>3. Rooted(r.analysis) /\ owners[r.analysis.project] = r.user
    BY <1>3 DEF Fit
  <2>4. Rooted(r.analysis)'
    BY <2>2, <2>3, RootedStays
  <2>5. QED
    BY <2>3, <2>4 DEF Rooted, Grows
<1>4. QED
  BY <1>1, <1>2, <1>3 DEF Fit, Handlings, Checks, Saves

LEMMA AllStay ==
    ASSUME CInv, Grows, CloudTypes'
    PROVE  /\ \A a \in saved : Rooted(a)'
           /\ \A r \in Forms : Fit(r) => Fit(r)'
<1>1. \A b \in saved' : b.id \in Nat
  BY DEF CloudTypes, Records
<1>2. ASSUME NEW a \in saved PROVE Rooted(a)'
  <2>1. a.seen \in Nat /\ Rooted(a)
    BY DEF CInv, CloudTypes, Records, AllRooted
  <2>2. QED
    BY <1>1, <2>1, RootedStays
<1>3. ASSUME NEW r \in Forms, Fit(r) PROVE Fit(r)'
  BY <1>1, <1>3, FitStays
<1>4. QED
  BY <1>2, <1>3

(***************************************************************************)
(* Steps of a handler that leave the store as it is.                       *)
(***************************************************************************)

LEMMA SameStore ==
    ASSUME UNCHANGED <<repo, owners, deleted, saved>>, IsFiniteSet(saved)
    PROVE  Grows
<1>1. Cardinality(saved) \in Nat
  BY FS_CardinalityType
<1>2. QED
  BY <1>1 DEF Grows

LEMMA LocalStep ==
    ASSUME CInv, NEW w \in Workers, NEW r \in Forms, Fit(r),
           worker' = [worker EXCEPT ![w] = r],
           UNCHANGED <<repo, store, tokens, owners, deleted, saved>>, clock' \in Nat
    PROVE  CInv'
<1>1. CloudTypes'
  BY DEF CInv, CloudTypes, store
<1>2. Grows
  BY SameStore DEF CInv, CloudTypes
<1>3. TypeOK'
  BY DEF CInv, TypeOK, AnalysesOf, store
<1>4. Numbered' /\ LiveKept'
  BY DEF CInv, Numbered, LiveKept, store
<1>5. AllRooted'
  BY <1>1, <1>2, AllStay DEF AllRooted
<1>6. AllFit'
  <2> SUFFICES ASSUME NEW v \in Workers PROVE Fit(worker[v])'
    BY DEF AllFit
  <2>1. PICK s \in Forms : s = worker'[v]
    BY <1>1 DEF CloudTypes
  <2>2. Fit(s)
    <3>1. CASE v = w
      BY <2>1, <3>1 DEF CInv, CloudTypes
    <3>2. CASE v # w
      BY <2>1, <3>2, WorkerIs DEF CInv, CloudTypes
    <3>3. QED
      BY <3>1, <3>2
  <2>3. Fit(s)'
    BY <1>1, <1>2, <2>2, AllStay
  <2>4. QED
    BY <2>1, <2>3
<1>7. QED
  BY <1>1, <1>3, <1>4, <1>5, <1>6 DEF CInv

(***************************************************************************)
(* What a handler reads.                                                   *)
(***************************************************************************)

(* The store holds what was saved, under its own number. *)
LEMMA StoredIs ==
    ASSUME CInv, NEW a \in DOMAIN analyses
    PROVE  /\ analyses[a] \in saved /\ analyses[a] \in Records /\ analyses[a].id = a
           /\ a \in 1..Cardinality(saved) /\ a \in Nat
           /\ Rooted(analyses[a])
<1>1. analyses[a] \in saved /\ analyses[a].id = a
  BY DEF CInv, TypeOK
<1>2. analyses[a] \in Records /\ a \in Nat
  BY <1>1 DEF CInv, CloudTypes, Records
<1>3. 1 <= a /\ a <= Cardinality(saved) /\ Cardinality(saved) \in Nat
  BY <1>1, FS_CardinalityType DEF CInv, CloudTypes, Numbered
<1>4. QED
  BY <1>1, <1>2, <1>3 DEF CInv, AllRooted

(* The latest analysis is the newest in the store. *)
LEMMA LatestIs ==
    ASSUME CInv, NEW p
    PROVE  \/ AnalysesOf(p) = {} /\ LatestAnalysis(p) = {}
           \/ \E a \in AnalysesOf(p) :
                 /\ LatestAnalysis(p) = {analyses[a]}
                 /\ \A b \in AnalysesOf(p) : analyses[b].created <= analyses[a].created
<1> DEFINE ids == AnalysesOf(p)
           newest == CHOOSE a \in ids : \A b \in ids : analyses[b].created <= analyses[a].created
<1>1. CASE ids = {}
  BY <1>1 DEF LatestAnalysis, Newest
<1>2. CASE ids # {}
  <2>1. \A a \in ids : a \in DOMAIN analyses
    BY DEF AnalysesOf
  <2>2. IsFiniteSet(ids)
    <3>1. Cardinality(saved) \in Nat
      BY FS_CardinalityType DEF CInv, CloudTypes
    <3>2. IsFiniteSet(1..Cardinality(saved))
      BY <3>1, FS_Interval
    <3>3. ids \subseteq 1..Cardinality(saved)
      BY <2>1, StoredIs
    <3> HIDE DEF ids
    <3>4. QED
      BY <3>2, <3>3, FS_Subset
  <2> DEFINE f == [a \in ids |-> analyses[a].created]
             S == {f[a] : a \in ids}
  <2>3. f \in [ids -> Nat]
    <3>1. \A a \in ids : analyses[a].created \in Nat
      BY <2>1, StoredIs DEF Records
    <3>2. QED
      BY <3>1
  <2>4. IsFiniteSet(S)
    <3> HIDE DEF ids, f
    <3>1. QED
      BY <2>2, <2>3, FiniteImage
  <2>5. S \subseteq Int /\ S # {}
    BY <1>2, <2>3
  <2>6. PICK m \in S : \A x \in S : x <= m
    <3> HIDE DEF S
    <3>1. QED
      BY <2>4, <2>5, FiniteMax
  <2>7. PICK a \in ids : f[a] = m
    BY <2>6
  <2>8. \A b \in ids : analyses[b].created <= analyses[a].created
    BY <2>6, <2>7
  <2>9. newest \in ids /\ \A b \in ids : analyses[b].created <= analyses[newest].created
    BY <2>7, <2>8
  <2>10. LatestAnalysis(p) = {analyses[newest]}
    BY <1>2 DEF LatestAnalysis, Newest
  <2> HIDE DEF newest
  <2>11. QED
    BY <2>9, <2>10
<1>3. QED
  BY <1>1, <1>2

(* The newest of all that a live project ever had. *)
LEMMA LatestBased ==
    ASSUME CInv, NEW p
    PROVE  /\ LatestAnalysis(p) \in SUBSET Records /\ LatestAnalysis(p) \subseteq saved
           /\ Cardinality(saved) \in Nat
           /\ \/ p \in deleted
              \/ Earlier(p, Cardinality(saved)) = {} /\ LatestAnalysis(p) = {}
              \/ \E b \in Earlier(p, Cardinality(saved)) :
                    /\ LatestAnalysis(p) = {b}
                    /\ NewestOf(b, Earlier(p, Cardinality(saved)))
<1> DEFINE before == Earlier(p, Cardinality(saved))
<1>1. \A a \in AnalysesOf(p) : analyses[a] \in saved /\ analyses[a] \in Records /\ analyses[a].project = p
  BY StoredIs DEF AnalysesOf
<1>2. LatestAnalysis(p) \in SUBSET Records /\ LatestAnalysis(p) \subseteq saved
  BY <1>1, LatestIs
<1>3. Cardinality(saved) \in Nat
  BY FS_CardinalityType DEF CInv, CloudTypes
<1>4. ASSUME p \notin deleted
      PROVE  \/ before = {} /\ LatestAnalysis(p) = {}
             \/ \E b \in before : LatestAnalysis(p) = {b} /\ NewestOf(b, before)
  <2>1. \A b \in before : b.id \in AnalysesOf(p) /\ analyses[b.id] = b
    BY <1>4 DEF CInv, LiveKept, Earlier, AnalysesOf
  <2>2. \A a \in AnalysesOf(p) : analyses[a] \in before
    BY <1>1 DEF CInv, Numbered, Earlier
  <2>3. CASE AnalysesOf(p) = {}
    BY <2>1, <2>3, LatestIs
  <2>4. CASE AnalysesOf(p) # {}
    <3>1. PICK a \in AnalysesOf(p) :
            /\ LatestAnalysis(p) = {analyses[a]}
            /\ \A b \in AnalysesOf(p) : analyses[b].created <= analyses[a].created
      BY <2>4, LatestIs
    <3>2. NewestOf(analyses[a], before)
      <4>1. \A b \in before : b.created <= analyses[a].created
        BY <2>1, <3>1
      <4>2. QED
        BY <2>2, <4>1 DEF NewestOf
    <3>3. QED
      BY <2>2, <3>1, <3>2
  <2>5. QED
    BY <2>3, <2>4
<1>5. QED
  BY <1>2, <1>3, <1>4

(* The files of a commit. *)
LEMMA CommitFiles ==
    ASSUME CInv
    PROVE  /\ Len(repo) \in Nat /\ Len(repo) \in DOMAIN repo /\ DOMAIN repo = 1..Len(repo)
           /\ \A i \in DOMAIN repo : repo[i] \subseteq Files
           /\ Last(repo) \subseteq Files
           /\ \A ref, files : Read(ref, files) =>
                 FilesAt(ref) \subseteq Files /\ (ref # None => FilesAt(ref) = repo[ref])
<1>1. repo \in Seq(SUBSET Files) /\ repo # <<>>
  BY DEF CInv, CloudTypes
<1>2. Len(repo) \in Nat /\ DOMAIN repo = 1..Len(repo) /\ Len(repo) # 0
  BY <1>1, EmptySeq, LenProperties
<1>3. \A i \in DOMAIN repo : repo[i] \subseteq Files
  BY <1>1, <1>2, ElementOfSeq
<1>4. Len(repo) \in DOMAIN repo
  BY <1>2
<1>5. Last(repo) \subseteq Files
  BY <1>3, <1>4 DEF Last
<1>6. QED
  BY <1>2, <1>3, <1>4, <1>5 DEF Read, FilesAt

(***************************************************************************)
(* The steps of an analysis.                                               *)
(***************************************************************************)

LEMMA GoesStep ==
    ASSUME CInv, NEW w \in Workers, NEW r, r \in Forms, Fit(r), worker' = [worker EXCEPT ![w] = r],
           UNCHANGED <<repo, store, tokens, clock, history>>
    PROVE  CInv'
<1>1. UNCHANGED <<repo, store, tokens, owners, deleted, saved>> /\ clock' \in Nat
  BY DEF history, CInv, CloudTypes
<1>2. QED
  BY <1>1, LocalStep

(* A handler that goes on with the project it has. *)
LEMMA ProceedStep ==
    ASSUME CInv, NEW w \in Workers, NEW r, Proceed(w, r), worker[w] \in Handlings,
           r \in Handlings, r.project = worker[w].project, r.user = worker[w].user,
           Read(r.ref, r.files), r.at # "analyze", r.at = "derive" => Based(r)
    PROVE  CInv'
<1>1. r \in Forms /\ r \notin Checks /\ r \notin Saves
  BY FormOf DEF Forms
<1>2. Fit(r)
  BY <1>1, WorkerIs DEF Fit
<1>3. QED
  BY <1>1, <1>2, GoesStep DEF Proceed, Goes

(* Where a handler is that is at one of its stages. *)
LEMMA AtStage ==
    ASSUME CInv, NEW w \in Workers, worker[w].at \in Stages
    PROVE  /\ worker[w] \in Handlings
           /\ worker[w].project \in DOMAIN owners /\ worker[w].project \in Nat
           /\ owners[worker[w].project] = worker[w].user
           /\ Read(worker[w].ref, worker[w].files)
           /\ worker[w].at = "analyze" => worker[w].ref = None /\ worker[w].files = {}
           /\ worker[w].at = "derive" => Based(worker[w])
           /\ worker[w].files \in SUBSET Files /\ worker[w].ref \in Nat \cup {None}
           /\ worker[w].pending \in SUBSET Paths /\ worker[w].dead = FALSE
           /\ worker[w].user \in Users
<1>1. worker[w] \in Handlings
  BY WorkerIs, FormOf
<1>2. /\ worker[w].project \in Nat /\ worker[w].files \in SUBSET Files
      /\ worker[w].ref \in Nat \cup {None} /\ worker[w].pending \in SUBSET Paths
      /\ worker[w].dead = FALSE /\ worker[w].user \in Users
  BY <1>1 DEF Handlings
<1>3. QED
  BY <1>1, <1>2, WorkerIs DEF Fit

LEMMA ProjectStep ==
    ASSUME CInv, NEW w \in Workers, NEW u \in Users, NEW p,
           NEW next \in Stages \ {"derive"}, Project(w, u, p, next)
    PROVE  CInv'
<1> DEFINE r == Handling(next, u, p)
<1>1. p \in DOMAIN owners /\ p \in DOMAIN projects /\ projects[p].owner = u
  BY DEF Project, Owns
<1>2. p \in Nat
  BY <1>1 DEF CInv, Numbered
<1>3. p \notin deleted /\ owners[p] = u
  BY <1>1 DEF CInv, TypeOK
<1>4. /\ r \in Handlings /\ r.project = p /\ r.user = u /\ r.ref = None /\ r.files = {}
      /\ r.at # "derive"
  <2>1. r = [at |-> next, user |-> u, project |-> p, dead |-> FALSE, ref |-> None,
             pending |-> {}, files |-> {}, prev |-> {}, seen |-> 0]
    <3>1. (p \in deleted) = FALSE
      BY <1>3
    <3>2. r = [at |-> next, user |-> u, project |-> p, dead |-> (p \in deleted), ref |-> None,
               pending |-> {}, files |-> {}, prev |-> {}, seen |-> 0]
      BY Zenon DEF Handling
    <3>3. QED
      BY <3>1, <3>2, Zenon
  <2>2. next \in Stages /\ FALSE \in {FALSE} /\ None \in Nat \cup {None} /\ 0 \in Nat
    OBVIOUS
  <2>3. {} \in SUBSET Paths /\ {} \in SUBSET Files /\ {} \in SUBSET Records
    OBVIOUS
  <2> HIDE DEF r
  <2>4. r \in Handlings
    BY <1>2, <2>1, <2>2, <2>3 DEF Handlings
  <2>5. QED
    BY <2>1, <2>4
<1> HIDE DEF r
<1>5. r \in Forms /\ Fit(r)
  BY <1>1, <1>3, <1>4, FormOf DEF Forms, Fit, Read
<1>6. QED
  BY <1>5, GoesStep DEF Project, Goes, r

LEMMA UploadStep ==
    ASSUME CInv, NEW w \in Workers, Upload(w)
    PROVE  CInv'
<1>1. PICK files \in {Last(repo), CollectManifests(Last(repo))} :
        Proceed(w, [worker[w] EXCEPT !.at = "read previous", !.files = files])
  BY DEF Upload
<1>2. worker[w].at = "analyze" /\ worker[w].at \in Stages
  BY DEF Upload, Stages
<1>3. files \in SUBSET Files
  BY <1>1, CommitFiles DEF CollectManifests
<1> DEFINE s == worker[w]
           r == [s EXCEPT !.at = "read previous", !.files = files]
<1>4. s \in Handlings
  BY <1>2, AtStage
<1> HIDE DEF s
<1>5. /\ r \in Handlings /\ r.project = s.project /\ r.user = s.user /\ r.ref = s.ref
      /\ r.files = files /\ r.at = "read previous"
  BY <1>3, <1>4 DEF Handlings, Stages
<1> HIDE DEF r
<1>6. Read(r.ref, r.files)
  BY <1>2, <1>5, AtStage DEF Upload, Read, s
<1>7. QED
  BY <1>1, <1>4, <1>5, <1>6, ProceedStep DEF r, s

LEMMA ResolveRefStep ==
    ASSUME CInv, NEW w \in Workers, ResolveRef(w)
    PROVE  CInv'
<1> DEFINE s == worker[w]
<1>1. PICK sha \in {Len(repo), None} : Proceed(w, [s EXCEPT !.at = "list tree", !.ref = sha])
  BY DEF ResolveRef
<1>2. s.at = "analyze" /\ s.at \in Stages
  BY DEF ResolveRef, Stages
<1>3. sha \in Nat \cup {None} /\ (sha # None => sha \in DOMAIN repo)
  BY <1>1, CommitFiles
<1>4. s \in Handlings /\ s.files = {}
  BY <1>2, AtStage
<1> HIDE DEF s
<1> DEFINE r == [s EXCEPT !.at = "list tree", !.ref = sha]
<1>5. /\ r \in Handlings /\ r.project = s.project /\ r.user = s.user /\ r.ref = sha
      /\ r.files = s.files /\ r.at = "list tree"
  BY <1>3, <1>4 DEF Handlings, Stages
<1> HIDE DEF r
<1>6. Read(r.ref, r.files)
  BY <1>3, <1>4, <1>5 DEF Read
<1>7. QED
  BY <1>1, <1>4, <1>5, <1>6, ProceedStep DEF r, s

LEMMA ListTreeStep ==
    ASSUME CInv, NEW w \in Workers, ListTree(w)
    PROVE  CInv'
<1> DEFINE s == worker[w]
           listed == {f \in FilesAt(s.ref) : IsManifestFile(f)}
           paths == {f.path : f \in listed}
<1>1. Proceed(w, [s EXCEPT !.at = "fetch", !.pending = paths]) /\ s.at = "list tree"
  BY DEF ListTree
<1>2. s.at \in Stages
  BY <1>1 DEF Stages
<1>3. s \in Handlings /\ Read(s.ref, s.files)
  BY <1>2, AtStage
<1>4. paths \in SUBSET Paths
  <2>1. FilesAt(s.ref) \subseteq Files
    BY <1>3, CommitFiles
  <2>2. listed \subseteq Files
    BY <2>1
  <2> HIDE DEF listed
  <2>3. QED
    BY <2>2 DEF Paths
<1> HIDE DEF s, paths
<1> DEFINE r == [s EXCEPT !.at = "fetch", !.pending = paths]
<1>5. /\ r \in Handlings /\ r.project = s.project /\ r.user = s.user /\ r.ref = s.ref
      /\ r.files = s.files /\ r.at = "fetch"
  BY <1>3, <1>4 DEF Handlings, Stages
<1> HIDE DEF r
<1>6. Read(r.ref, r.files)
  BY <1>3, <1>5
<1>7. QED
  BY <1>1, <1>3, <1>5, <1>6, ProceedStep DEF r, s

LEMMA FetchFileStep ==
    ASSUME CInv, NEW w \in Workers, FetchFile(w)
    PROVE  CInv'
<1> DEFINE s == worker[w]
           path == NextPath(s.pending)
<1>1. PICK got \in {Content(s.ref, path), {}} :
        Proceed(w, [s EXCEPT !.pending = s.pending \ {path}, !.files = s.files \cup got])
  BY DEF FetchFile
<1>2. s.at = "fetch" /\ s.at \in Stages
  BY DEF FetchFile, Stages
<1>3. s \in Handlings /\ Read(s.ref, s.files) /\ s.files \in SUBSET Files /\ s.pending \in SUBSET Paths
  BY <1>2, AtStage
<1>4. got \subseteq FilesAt(s.ref)
  BY <1>1 DEF Content
<1>5. FilesAt(s.ref) \subseteq Files /\ (s.ref # None => FilesAt(s.ref) = repo[s.ref])
  BY <1>3, CommitFiles
<1> HIDE DEF s, path
<1> DEFINE pending == s.pending \ {path}
           files == s.files \cup got
           r == [s EXCEPT !.pending = pending, !.files = files]
<1>6. pending \in SUBSET Paths /\ files \in SUBSET Files
  BY <1>3, <1>4, <1>5
<1>7. Read(s.ref, files)
  BY <1>3, <1>4, <1>5 DEF Read
<1> HIDE DEF pending, files
<1>8. /\ r \in Handlings /\ r.project = s.project /\ r.user = s.user /\ r.ref = s.ref
      /\ r.files = files /\ r.at = "fetch"
  BY <1>2, <1>3, <1>6 DEF Handlings, Stages
<1> HIDE DEF r
<1>9. Read(r.ref, r.files)
  BY <1>7, <1>8
<1>10. QED
  BY <1>1, <1>3, <1>8, <1>9, ProceedStep DEF r, s, pending, files

LEMMA FetchDoneStep ==
    ASSUME CInv, NEW w \in Workers, FetchDone(w)
    PROVE  CInv'
<1> DEFINE s == worker[w]
<1>1. Proceed(w, [s EXCEPT !.at = "read previous"]) /\ s.at = "fetch" /\ s.at \in Stages
  BY DEF FetchDone, Stages
<1>2. s \in Handlings /\ Read(s.ref, s.files)
  BY <1>1, AtStage
<1> HIDE DEF s
<1> DEFINE r == [s EXCEPT !.at = "read previous"]
<1>3. /\ r \in Handlings /\ r.project = s.project /\ r.user = s.user /\ r.ref = s.ref
      /\ r.files = s.files /\ r.at = "read previous"
  BY <1>2 DEF Handlings, Stages
<1> HIDE DEF r
<1>4. QED
  BY <1>1, <1>2, <1>3, ProceedStep DEF r, s

LEMMA ReadPreviousStep ==
    ASSUME CInv, NEW w \in Workers, ReadPrevious(w)
    PROVE  CInv'
<1> DEFINE s == worker[w]
           latest == LatestAnalysis(s.project)
           n == Cardinality(saved)
<1>1. Proceed(w, [s EXCEPT !.at = "derive", !.prev = latest, !.seen = n]) /\ s.at = "read previous"
  BY DEF ReadPrevious
<1>2. s.at \in Stages
  BY <1>1 DEF Stages
<1>3. s \in Handlings /\ Read(s.ref, s.files)
  BY <1>2, AtStage
<1>4. /\ latest \in SUBSET Records /\ n \in Nat
      /\ \/ s.project \in deleted
         \/ Earlier(s.project, n) = {} /\ latest = {}
         \/ \E b \in Earlier(s.project, n) : latest = {b} /\ NewestOf(b, Earlier(s.project, n))
  BY LatestBased
<1> HIDE DEF s, latest, n
<1> DEFINE r == [s EXCEPT !.at = "derive", !.prev = latest, !.seen = n]
<1>5. /\ r \in Handlings /\ r.project = s.project /\ r.user = s.user /\ r.ref = s.ref
      /\ r.files = s.files /\ r.at = "derive" /\ r.prev = latest /\ r.seen = n
  BY <1>3, <1>4 DEF Handlings, Stages
<1> HIDE DEF r
<1>6. Based(r)
  BY <1>4, <1>5 DEF Based, n
<1>7. QED
  BY <1>1, <1>3, <1>5, <1>6, ProceedStep DEF r, s, latest, n

(* The changes of an analysis are the diff from the one before. *)
LEMMA ChangesAre ==
    ASSUME NEW prev \in SUBSET Records, NEW files \in SUBSET Files
    PROVE  /\ Changes(prev, files) \in SUBSET EveryChange
           /\ prev = {} => Changes(prev, files) = {}
           /\ \A b : prev = {b} => Changes(prev, files) = Drift[<<b.files, files>>]
<1>1. ASSUME NEW b \in prev PROVE Drift[<<b.files, files>>] \subseteq EveryChange
  <2>1. b.files \in Readable /\ files \in Readable
    BY DEF Records, Readable, Files
  <2>2. <<b.files, files>> \in Readable \X Readable
    BY <2>1
  <2>3. QED
    BY <2>2 DEF EveryChange
<1>2. Changes(prev, files) = UNION {Drift[<<b.files, files>>] : b \in prev}
  BY DEF Changes
<1>3. \A x \in Changes(prev, files) : \E b \in prev : x \in Drift[<<b.files, files>>]
  BY <1>2
<1>4. \A b \in prev : \A x \in Drift[<<b.files, files>>] : x \in Changes(prev, files)
  BY <1>2
<1>5. Changes(prev, files) \in SUBSET EveryChange
  BY <1>1, <1>3
<1>6. ASSUME prev = {} PROVE Changes(prev, files) = {}
  BY <1>3, <1>6
<1>7. ASSUME NEW b, prev = {b} PROVE Changes(prev, files) = Drift[<<b.files, files>>]
  <2>1. PICK diff : diff = Drift[<<b.files, files>>]
    OBVIOUS
  <2>2. Changes(prev, files) = UNION {diff}
    <3>1. {Drift[<<c.files, files>>] : c \in prev} = {diff}
      BY <1>7, <2>1
    <3>2. QED
      BY <1>2, <3>1
  <2>3. UNION {diff} = diff
    OBVIOUS
  <2>4. QED
    BY <2>1, <2>2, <2>3
<1>8. QED
  BY <1>5, <1>6, <1>7

(* What Derive makes of a handler: an analysis to be saved. *)
LEMMA Derived ==
    ASSUME CInv, NEW s \in Handlings, s.at = "derive", s.project \in DOMAIN owners,
           Read(s.ref, s.files), Based(s), NEW files \in Survivors(s.files),
           NEW a, a = [id |-> 0, project |-> s.project, created |-> clock + 1, ref |-> s.ref,
                       files |-> files, baseline |-> s.prev = {}, changes |-> Changes(s.prev, files),
                       seen |-> s.seen]
    PROVE  a \in Records /\ Rooted(a)
<1>1. /\ s.prev \in SUBSET Records /\ s.files \in SUBSET Files /\ s.seen \in Nat
      /\ s.project \in Nat /\ s.ref \in Nat \cup {None}
  BY DEF Handlings
<1>2. files \in SUBSET Files /\ files \subseteq s.files
  BY <1>1 DEF Survivors
<1>3. PICK baseline \in BOOLEAN : baseline = (s.prev = {})
  OBVIOUS
<1>4. PICK changes : changes = Changes(s.prev, files)
  OBVIOUS
<1>5. a = [id |-> 0, project |-> s.project, created |-> clock + 1, ref |-> s.ref, files |-> files,
           baseline |-> baseline, changes |-> changes, seen |-> s.seen]
  BY <1>3, <1>4, Zenon
<1>6. changes \in SUBSET EveryChange /\ 0 \in Nat /\ clock + 1 \in Nat
  BY <1>1, <1>2, <1>4, ChangesAre DEF CInv, CloudTypes
<1>7. a \in Records
  BY <1>1, <1>2, <1>5, <1>6 DEF Records
<1>8. /\ a.project = s.project /\ a.ref = s.ref /\ a.files = files /\ a.baseline = baseline
      /\ a.changes = changes /\ a.seen = s.seen
  BY <1>5
<1>9. Explained(a)
  <2> DEFINE before == Earlier(s.project, s.seen)
  <2>1. CASE s.project \in deleted
    BY <1>8, <2>1 DEF Explained
  <2>2. CASE before = {} /\ s.prev = {}
    <3>1. changes = {} /\ baseline
      BY <1>1, <1>2, <1>3, <1>4, <2>2, ChangesAre
    <3>2. QED
      BY <1>8, <2>2, <3>1 DEF Explained
  <2>3. ASSUME NEW b \in before, s.prev = {b}, NewestOf(b, before) PROVE Explained(a)
    <3>1. changes = Drift[<<b.files, files>>]
      BY <1>1, <1>2, <1>4, <2>3, ChangesAre
    <3>2. ~baseline
      <4>1. s.prev # {}
        BY <2>3
      <4>2. QED
        BY <1>3, <4>1
    <3>3. QED
      BY <1>8, <2>3, <3>1, <3>2 DEF Explained
  <2>4. QED
    BY <2>1, <2>2, <2>3 DEF Based
<1>10. Read(a.ref, a.files)
  BY <1>2, <1>8 DEF Read
<1>11. QED
  BY <1>7, <1>8, <1>9, <1>10 DEF Rooted, Based

LEMMA DeriveStep ==
    ASSUME CInv, NEW w \in Workers, Derive(w)
    PROVE  CInv'
<1>1. worker[w].at = "derive" /\ worker[w].at \in Stages
  BY DEF Derive, Stages
<1>2. PICK s \in Handlings : s = worker[w]
  BY <1>1, AtStage
<1>3. /\ s.at = "derive" /\ s.project \in DOMAIN owners /\ Read(s.ref, s.files) /\ Based(s)
      /\ s.user \in Users /\ s.dead = FALSE /\ owners[s.project] = s.user
  BY <1>1, <1>2, AtStage
<1>4. UNCHANGED <<repo, store, tokens, owners, deleted, saved>>
  BY DEF Derive, history
<1>5. clock \in Nat /\ clock + 1 \in Nat
  BY DEF CInv, CloudTypes
<1>6. PICK a :
        \E files \in Survivors(s.files) :
            /\ a = [id |-> 0, project |-> s.project, created |-> clock + 1, ref |-> s.ref,
                    files |-> files, baseline |-> s.prev = {}, changes |-> Changes(s.prev, files),
                    seen |-> s.seen]
            /\ \/ worker' = [worker EXCEPT ![w] = Idle] /\ clock' = clock
               \/ /\ worker' = [worker EXCEPT ![w] = [at |-> "save", user |-> s.user, dead |-> FALSE,
                                                        analysis |-> a]]
                  /\ clock' = clock + 1
  BY <1>2, <1>3 DEF Derive, Goes
<1>7. CASE worker' = [worker EXCEPT ![w] = Idle] /\ clock' = clock
  BY <1>4, <1>5, <1>7, IdleFits, LocalStep
<1>8. CASE /\ worker' = [worker EXCEPT ![w] = [at |-> "save", user |-> s.user, dead |-> FALSE,
                                                        analysis |-> a]]
           /\ clock' = clock + 1
  <2> DEFINE r == [at |-> "save", user |-> s.user, dead |-> FALSE, analysis |-> a]
  <2>1. a \in Records /\ Rooted(a) /\ owners[a.project] = s.user
    BY <1>3, <1>6, Derived
  <2>2. r \in Saves /\ r.analysis = a /\ r.user = s.user
    BY <1>3, <2>1 DEF Saves
  <2> HIDE DEF r
  <2>3. r \in Forms /\ Fit(r)
    BY <2>1, <2>2, FormOf DEF Forms, Fit
  <2>4. QED
    BY <1>4, <1>5, <1>8, <2>3, LocalStep DEF r
<1>9. QED
  BY <1>6, <1>7, <1>8

(***************************************************************************)
(* Steps that end a request, and the read of one analysis.                 *)
(***************************************************************************)

LEMMA AnswerStep ==
    ASSUME CInv, NEW w \in Workers, worker' = [worker EXCEPT ![w] = Idle],
           UNCHANGED <<repo, store, tokens, clock, history>>
    PROVE  CInv'
BY IdleFits, GoesStep

LEMMA CheckOwnerStep ==
    ASSUME CInv, NEW w \in Workers, CheckOwner(w)
    PROVE  CInv'
<1>1. worker' = [worker EXCEPT ![w] = Idle] /\ UNCHANGED <<repo, store, tokens, clock, history>>
  BY DEF CheckOwner, Answer, Goes
<1>2. QED
  BY <1>1, AnswerStep

LEMMA GetAnalysisStep ==
    ASSUME CInv, NEW w \in Workers, NEW u \in Users, NEW a, GetAnalysis(w, u, a)
    PROVE  CInv'
<1>1. a \in DOMAIN analyses /\ UNCHANGED <<repo, store, tokens, clock, history>>
  BY DEF GetAnalysis
<1>2. PICK b : b = analyses[a]
  OBVIOUS
<1>3. b \in saved /\ b \in Records
  BY <1>1, <1>2, StoredIs
<1>4. PICK dead \in BOOLEAN : dead = (b.project \in deleted)
  <2>1. CASE b.project \in deleted
    <3>1. (b.project \in deleted) = TRUE
      BY <2>1
    <3>2. QED
      BY <3>1, Zenon
  <2>2. CASE b.project \notin deleted
    <3>1. (b.project \in deleted) = FALSE
      BY <2>2
    <3>2. QED
      BY <3>1, Zenon
  <2>3. QED
    BY <2>1, <2>2
<1> DEFINE r == [at |-> "check owner", user |-> u, dead |-> dead, analysis |-> b]
<1>5. worker' = [worker EXCEPT ![w] = r]
  <2>1. worker' = [worker EXCEPT ![w] =
                      [at |-> "check owner", user |-> u, dead |-> analyses[a].project \in deleted,
                       analysis |-> analyses[a]]]
    BY Zenon DEF GetAnalysis, Goes
  <2>2. worker' = [worker EXCEPT ![w] =
                      [at |-> "check owner", user |-> u, dead |-> b.project \in deleted,
                       analysis |-> b]]
    BY <1>2, <2>1, Zenon
  <2>3. QED
    BY <1>4, <2>2, Zenon
<1>6. r \in Checks /\ r.analysis = b /\ r.dead = dead
  BY <1>3, <1>4 DEF Checks
<1> HIDE DEF r
<1>7. r \in Forms /\ r \notin Handlings /\ r \notin Saves
  BY <1>6, FormOf DEF Forms
<1>8. Fit(r)
  <2>1. r.dead => r.analysis.project \in deleted
    <3>1. dead => b.project \in deleted
      BY <1>4
    <3>2. QED
      BY <1>6, <3>1
  <2>2. QED
    BY <1>3, <1>6, <1>7, <2>1 DEF Fit
<1>9. QED
  BY <1>1, <1>5, <1>7, <1>8, GoesStep

(***************************************************************************)
(* Steps on the repository and the store.                                  *)
(***************************************************************************)

(* What stands when analyses are only added. *)
LEMMA Grown ==
    ASSUME CInv, Grows, CloudTypes', TypeOK', Numbered', LiveKept',
           \A a \in saved' \ saved : Rooted(a)',
           \A v \in Workers : worker'[v] = worker[v] \/ worker'[v] = Idle
    PROVE  CInv'
<1>1. AllRooted'
  BY AllStay DEF AllRooted
<1>2. AllFit'
  <2> SUFFICES ASSUME NEW v \in Workers PROVE Fit(worker[v])'
    BY DEF AllFit
  <2>1. PICK s \in Forms : s = worker[v]
    BY DEF CInv, CloudTypes
  <2>2. CASE worker'[v] = worker[v]
    <3>1. Fit(s)
      BY <2>1, WorkerIs
    <3>2. Fit(s)'
      BY <3>1, AllStay
    <3>3. QED
      BY <2>1, <2>2, <3>2
  <2>3. CASE worker'[v] = Idle
    BY <2>3, IdleFits
  <2>4. QED
    BY <2>2, <2>3
<1>3. QED
  BY <1>1, <1>2 DEF CInv

LEMMA CommitStep ==
    ASSUME CInv, Commit
    PROVE  CInv'
<1>1. PICK w \in Worlds : repo' = Append(repo, w)
  BY DEF Commit
<1>2. UNCHANGED <<users, projects, analyses, tokens, worker, clock, owners, deleted, saved>>
  BY DEF Commit, store, history
<1>3. w \in SUBSET Files /\ repo \in Seq(SUBSET Files)
  BY DEF Files, CInv, CloudTypes
<1>4. /\ repo' \in Seq(SUBSET Files) /\ Len(repo') = Len(repo) + 1 /\ Len(repo) \in Nat
      /\ \A i \in 1..Len(repo) : repo'[i] = repo[i]
  BY <1>1, <1>3, AppendProperties, LenProperties
<1>5. DOMAIN repo = 1..Len(repo) /\ DOMAIN repo' = 1..Len(repo')
  BY <1>3, <1>4, LenProperties
<1>6. Grows
  <2>1. Cardinality(saved) \in Nat
    BY FS_CardinalityType DEF CInv, CloudTypes
  <2>2. \A i \in DOMAIN repo : i \in DOMAIN repo' /\ repo'[i] = repo[i]
    BY <1>4, <1>5
  <2>3. QED
    BY <1>2, <2>1, <2>2 DEF Grows
<1>7. CloudTypes'
  <2>1. repo' # <<>>
    BY <1>3, <1>4, EmptySeq
  <2>2. QED
    BY <1>2, <1>4, <2>1 DEF CInv, CloudTypes
<1>8. TypeOK' /\ Numbered' /\ LiveKept'
  BY <1>2 DEF CInv, TypeOK, Numbered, LiveKept, AnalysesOf
<1>9. QED
  BY <1>2, <1>6, <1>7, <1>8, Grown

LEMMA LoginStep ==
    ASSUME CInv, NEW u \in Users, Login(u)
    PROVE  CInv'
<1>1. UNCHANGED <<repo, projects, analyses, worker, clock, owners, deleted, saved>>
  BY DEF Login, history
<1>2. Grows
  BY <1>1, SameStore DEF CInv, CloudTypes
<1>3. TypeOK'
  BY <1>1 DEF CInv, TypeOK, AnalysesOf, Login, UpsertUser, SignToken
<1>4. CloudTypes' /\ Numbered' /\ LiveKept'
  BY <1>1 DEF CInv, CloudTypes, Numbered, LiveKept
<1>5. QED
  BY <1>1, <1>2, <1>3, <1>4, Grown

LEMMA CreateProjectStep ==
    ASSUME CInv, NEW w \in Workers, NEW u \in Users, CreateProject(w, u)
    PROVE  CInv'
<1>1. PICK n \in Nat : DOMAIN owners = 1..n
  BY DEF CInv, Numbered
<1>2. Cardinality(DOMAIN owners) = n
  BY <1>1, FS_Interval
<1>3. PICK p \in Nat : p = n + 1
  BY <1>1
<1> DEFINE new == [owner |-> u, latest |-> None]
<1>4. /\ projects' = With(projects, p, new)
      /\ owners' = With(owners, p, u)
      /\ UNCHANGED <<repo, analyses, users, tokens, worker, clock, deleted, saved>>
  BY <1>2, <1>3 DEF CreateProject
<1>5. p \notin DOMAIN owners /\ p \notin deleted /\ p \notin DOMAIN projects
  BY <1>1, <1>3 DEF CInv, Numbered, TypeOK
<1>6. /\ DOMAIN owners' = DOMAIN owners \cup {p} /\ owners'[p] = u
      /\ \A q \in DOMAIN owners : owners'[q] = owners[q]
  BY <1>4, <1>5 DEF With
<1>7. /\ DOMAIN projects' = DOMAIN projects \cup {p} /\ projects'[p] = new
      /\ \A q \in DOMAIN projects : projects'[q] = projects[q]
  BY <1>4, <1>5 DEF With
<1>8. new.owner = u /\ new.latest = None /\ new \in Tracked
  BY DEF Tracked
<1> HIDE DEF new
<1>9. Grows
  <2>1. Cardinality(saved) \in Nat
    BY FS_CardinalityType DEF CInv, CloudTypes
  <2>2. QED
    BY <1>4, <1>6, <2>1 DEF Grows
<1>10. TypeOK'
  <2>1. DOMAIN projects' = DOMAIN owners' \ deleted'
    BY <1>4, <1>5, <1>6, <1>7 DEF CInv, TypeOK
  <2>2. ASSUME NEW q \in DOMAIN projects'
        PROVE  projects'[q].owner = owners'[q] /\ projects'[q].latest \in AnalysesOf(q)' \cup {None}
    <3>1. CASE q = p
      BY <1>6, <1>7, <1>8, <3>1
    <3>2. CASE q # p
      <4>1. q \in DOMAIN projects /\ q \in DOMAIN owners
        BY <1>7, <2>2, <3>2 DEF CInv, TypeOK
      <4>2. projects[q].owner = owners[q] /\ projects[q].latest \in AnalysesOf(q) \cup {None}
        BY <4>1 DEF CInv, TypeOK
      <4>3. AnalysesOf(q)' = AnalysesOf(q)
        BY <1>4 DEF AnalysesOf
      <4>4. QED
        BY <1>6, <1>7, <4>1, <4>2, <4>3
    <3>3. QED
      BY <3>1, <3>2
  <2>3. QED
    BY <1>4, <2>1, <2>2 DEF CInv, TypeOK
<1>11. Numbered'
  <2>1. DOMAIN owners' = 1..(n + 1) /\ n + 1 \in Nat
    BY <1>1, <1>3, <1>6
  <2>2. deleted' \subseteq DOMAIN owners'
    BY <1>4, <1>6 DEF CInv, Numbered
  <2>3. QED
    BY <1>4, <2>1, <2>2 DEF CInv, Numbered
<1>12. CloudTypes' /\ LiveKept'
  <2>1. projects' \in [DOMAIN projects' -> Tracked]
    <3>1. \A q \in DOMAIN projects' : projects'[q] \in Tracked
      BY <1>7, <1>8 DEF CInv, CloudTypes
    <3>2. projects' = [q \in DOMAIN projects' |-> projects'[q]]
      BY <1>4 DEF With
    <3>3. QED
      BY <3>1, <3>2
  <2>2. QED
    BY <1>4, <2>1 DEF CInv, CloudTypes, LiveKept
<1>13. QED
  BY <1>4, <1>9, <1>10, <1>11, <1>12, Grown

LEMMA DeleteStep ==
    ASSUME CInv, NEW w \in Workers, Delete(w)
    PROVE  CInv'
<1>1. worker[w].at = "delete" /\ worker[w].at \in Stages
  BY DEF Delete, Stages
<1>2. PICK p : p = worker[w].project /\ p \in DOMAIN owners
  BY <1>1, AtStage
<1>3. /\ projects' = Without(projects, {p})
      /\ analyses' = IF p \in DOMAIN projects THEN Without(analyses, AnalysesOf(p)) ELSE analyses
      /\ deleted' = deleted \cup {p}
      /\ worker' = [worker EXCEPT ![w] = Idle]
      /\ UNCHANGED <<repo, users, tokens, clock, owners, saved>>
  BY <1>2 DEF Delete, Goes
<1>4. /\ DOMAIN projects' = DOMAIN projects \ {p}
      /\ \A q \in DOMAIN projects' : projects'[q] = projects[q]
  BY <1>3 DEF Without
<1>5. /\ DOMAIN analyses' \subseteq DOMAIN analyses
      /\ \A a \in DOMAIN analyses' : analyses'[a] = analyses[a]
      /\ \A a \in DOMAIN analyses : analyses[a].project # p => a \in DOMAIN analyses'
  <2>1. CASE p \in DOMAIN projects
    BY <1>3, <2>1 DEF Without, AnalysesOf
  <2>2. CASE p \notin DOMAIN projects
    BY <1>3, <2>2
  <2>3. QED
    BY <2>1, <2>2
<1>6. Grows
  <2>1. Cardinality(saved) \in Nat
    BY FS_CardinalityType DEF CInv, CloudTypes
  <2>2. QED
    BY <1>3, <2>1 DEF Grows
<1>7. TypeOK'
  <2>1. DOMAIN projects' = DOMAIN owners' \ deleted'
    BY <1>3, <1>4 DEF CInv, TypeOK
  <2>2. ASSUME NEW q \in DOMAIN projects'
        PROVE  projects'[q].owner = owners'[q] /\ projects'[q].latest \in AnalysesOf(q)' \cup {None}
    <3>1. q \in DOMAIN projects /\ q # p /\ projects'[q] = projects[q]
      BY <1>4, <2>2
    <3>2. projects[q].owner = owners[q] /\ projects[q].latest \in AnalysesOf(q) \cup {None}
      BY <3>1 DEF CInv, TypeOK
    <3>3. AnalysesOf(q) \subseteq AnalysesOf(q)'
      BY <1>5, <3>1 DEF AnalysesOf
    <3>4. QED
      BY <1>3, <3>1, <3>2, <3>3
  <2>3. \A a \in DOMAIN analyses' : analyses'[a] \in saved' /\ analyses'[a].id = a
    BY <1>3, <1>5 DEF CInv, TypeOK
  <2>4. QED
    BY <1>3, <2>1, <2>2, <2>3 DEF CInv, TypeOK
<1>8. LiveKept'
  BY <1>3, <1>5 DEF CInv, LiveKept
<1>9. Numbered'
  BY <1>2, <1>3 DEF CInv, Numbered
<1>10. CloudTypes'
  <2>1. projects' \in [DOMAIN projects' -> Tracked]
    <3>1. \A q \in DOMAIN projects' : projects'[q] \in Tracked
      BY <1>4 DEF CInv, CloudTypes
    <3>2. projects' = [q \in DOMAIN projects' |-> projects'[q]]
      BY <1>3 DEF Without
    <3>3. QED
      BY <3>1, <3>2
  <2>2. QED
    BY <1>3, <2>1, IdleFits DEF CInv, CloudTypes
<1>11. \A v \in Workers : worker'[v] = worker[v] \/ worker'[v] = Idle
  BY <1>3 DEF CInv, CloudTypes
<1>12. QED
  BY <1>3, <1>6, <1>7, <1>8, <1>9, <1>10, <1>11, Grown

LEMMA SaveAnalysisStep ==
    ASSUME CInv, NEW w \in Workers, SaveAnalysis(w)
    PROVE  CInv'
<1>1. worker[w].at = "save"
  BY DEF SaveAnalysis
<1>2. PICK d \in Records : d = worker[w].analysis /\ Rooted(d)
  <2>1. worker[w] \in Saves /\ Fit(worker[w])
    BY <1>1, WorkerIs, FormOf
  <2>2. QED
    BY <2>1 DEF Saves, Fit
<1>3. PICK n \in Nat : n = Cardinality(saved)
  BY FS_CardinalityType DEF CInv, CloudTypes
<1>4. PICK id \in Nat : id = n + 1
  BY <1>3
<1> DEFINE a == [d EXCEPT !.id = id]
<1>5. /\ analyses' = With(analyses, id, a)
      /\ projects' = IF a.project \in DOMAIN projects
                     THEN [projects EXCEPT ![a.project].latest = id] ELSE projects
      /\ saved' = saved \cup {a}
      /\ worker' = [worker EXCEPT ![w] = Idle]
      /\ UNCHANGED <<repo, users, tokens, clock, owners, deleted>>
  BY <1>2, <1>3, <1>4 DEF SaveAnalysis, Answer
<1>6. /\ a \in Records /\ a.id = id /\ a.project = d.project /\ a.ref = d.ref /\ a.files = d.files
      /\ a.baseline = d.baseline /\ a.changes = d.changes /\ a.seen = d.seen /\ d.seen \in Nat
  BY <1>2, <1>4 DEF Records
<1> HIDE DEF a
<1>7. /\ \A b \in saved : 1 <= b.id /\ b.id <= n /\ b.id \in Nat
      /\ a \notin saved
  BY <1>3, <1>4, <1>6 DEF CInv, Numbered, CloudTypes, Records
<1>8. IsFiniteSet(saved') /\ Cardinality(saved') = n + 1
  BY <1>3, <1>5, <1>7, FS_AddElement DEF CInv, CloudTypes
<1>9. Grows
  <2>1. Cardinality(saved) \in Nat /\ Cardinality(saved') \in Nat
        /\ Cardinality(saved) <= Cardinality(saved')
    BY <1>3, <1>8
  <2>2. \A b \in saved' : b \in saved \/ b.id > Cardinality(saved)
    BY <1>3, <1>4, <1>5, <1>6
  <2>3. QED
    BY <1>5, <2>1, <2>2 DEF Grows
<1>10. CloudTypes'
  <2>1. projects' \in [DOMAIN projects' -> Tracked]
    BY <1>5 DEF CInv, CloudTypes, Tracked
  <2>2. QED
    BY <1>5, <1>6, <1>8, <2>1, IdleFits DEF CInv, CloudTypes
<1>11. /\ id \notin DOMAIN analyses
       /\ DOMAIN analyses' = DOMAIN analyses \cup {id} /\ analyses'[id] = a
       /\ \A b \in DOMAIN analyses : analyses'[b] = analyses[b]
  <2>1. id \notin DOMAIN analyses
    BY <1>3, <1>4, <1>7, StoredIs
  <2>2. QED
    BY <1>5, <2>1 DEF With
<1>12. TypeOK'
  <2>1. /\ DOMAIN projects' = DOMAIN projects
        /\ \A q \in DOMAIN projects :
              /\ projects'[q].owner = projects[q].owner
              /\ projects'[q].latest # projects[q].latest => projects'[q].latest = id /\ q = a.project
    <3>1. \A q \in DOMAIN projects : projects[q] \in Tracked
      BY DEF CInv, CloudTypes
    <3>2. CASE a.project \notin DOMAIN projects
      BY <1>5, <3>2
    <3>3. CASE a.project \in DOMAIN projects
      BY <1>5, <3>1, <3>3 DEF Tracked
    <3>4. QED
      BY <3>2, <3>3
  <2>2. ASSUME NEW q \in DOMAIN projects
        PROVE  projects'[q].owner = owners'[q] /\ projects'[q].latest \in AnalysesOf(q)' \cup {None}
    <3>1. projects[q].owner = owners[q] /\ projects[q].latest \in AnalysesOf(q) \cup {None}
      BY DEF CInv, TypeOK
    <3>2. AnalysesOf(q) \subseteq AnalysesOf(q)'
      BY <1>11 DEF AnalysesOf
    <3>3. q = a.project => id \in AnalysesOf(q)'
      BY <1>11 DEF AnalysesOf
    <3>4. QED
      BY <1>5, <2>1, <3>1, <3>2, <3>3
  <2>3. \A b \in DOMAIN analyses' : analyses'[b] \in saved' /\ analyses'[b].id = b
    BY <1>5, <1>6, <1>11 DEF CInv, TypeOK
  <2>4. QED
    BY <1>5, <2>1, <2>2, <2>3 DEF CInv, TypeOK
<1>13. Numbered'
  <2>1. \A b \in saved' : 1 <= b.id /\ b.id <= n + 1
    BY <1>4, <1>5, <1>6, <1>7
  <2>2. \A b, c \in saved' : b.id = c.id => b = c
    BY <1>4, <1>5, <1>6, <1>7 DEF CInv, Numbered
  <2>3. QED
    BY <1>5, <1>8, <2>1, <2>2 DEF CInv, Numbered
<1>14. LiveKept'
  BY <1>5, <1>6, <1>11 DEF CInv, LiveKept
<1>15. Rooted(a)'
  <2>1. Rooted(d)'
    <3>1. \A b \in saved' : b.id \in Nat
      BY <1>10 DEF CloudTypes, Records
    <3>2. QED
      BY <1>2, <1>6, <1>9, <3>1, RootedStays
  <2>2. QED
    BY <1>6, <2>1 DEF Rooted, Explained, Read
<1>16. \A v \in Workers : worker'[v] = worker[v] \/ worker'[v] = Idle
  BY <1>5 DEF CInv, CloudTypes
<1>17. \A b \in saved' \ saved : Rooted(b)'
  BY <1>5, <1>15
<1>18. QED
  BY <1>9, <1>10, <1>12, <1>13, <1>14, <1>16, <1>17, Grown

(***************************************************************************)
(* The invariant.                                                          *)
(***************************************************************************)

(* Nothing is known of an empty store but its types. *)
LEMMA EmptyStore ==
    ASSUME users = {}, projects = <<>>, analyses = <<>>, owners = <<>>, deleted = {}, saved = {},
           clock = 0, worker = [w \in Workers |-> Idle], tokens \subseteq Users,
           repo \in Seq(SUBSET Files), repo # <<>>
    PROVE  CInv
<1>1. DOMAIN projects = {} /\ DOMAIN owners = {} /\ DOMAIN analyses = {}
  OBVIOUS
<1>2. IsFiniteSet(saved) /\ Cardinality(saved) = 0
  BY FS_EmptySet
<1>3. CloudTypes
  <2>1. projects \in [DOMAIN projects -> Tracked]
    BY <1>1
  <2>2. QED
    BY <1>2, <2>1, IdleFits DEF CloudTypes
<1>4. TypeOK /\ LiveKept /\ AllRooted
  BY <1>1 DEF TypeOK, LiveKept, AllRooted
<1>5. Numbered
  <2>1. DOMAIN owners = 1..0
    BY <1>1
  <2>2. QED
    BY <1>1, <2>1 DEF Numbered
<1>6. AllFit
  BY IdleFits DEF AllFit
<1>7. QED
  BY <1>3, <1>4, <1>5, <1>6 DEF CInv

LEMMA InitHolds == Init => CInv
<1> SUFFICES ASSUME Init PROVE CInv
  OBVIOUS
<1>1. PICK w \in Origins : repo = <<w>>
  BY DEF Init
<1>2. w \in SUBSET Files
  BY CloudAssumption DEF Files
<1>3. repo \in Seq(SUBSET Files) /\ repo # <<>>
  BY <1>1, <1>2
<1>4. QED
  BY <1>3, EmptyStore DEF Init

LEMMA StepHolds ==
    ASSUME CInv, NEW w \in Workers, Request(w) \/ Step(w)
    PROVE  CInv'
<1>1. ASSUME NEW u \in Users, NEW p,
             GetProject(w, u, p) \/ ListAnalyses(w, u, p) \/ DeleteProject(w, u, p) \/ StartAnalysis(w, u, p)
      PROVE  CInv'
  <2>1. \E next \in Stages \ {"derive"} : Project(w, u, p, next)
    BY <1>1 DEF GetProject, ListAnalyses, DeleteProject, StartAnalysis, Stages
  <2>2. QED
    BY <2>1, ProjectStep
<1>2. ASSUME GetLatest(w) \/ List(w) \/ FetchFails(w) PROVE CInv'
  <2>1. worker' = [worker EXCEPT ![w] = Idle] /\ UNCHANGED <<repo, store, tokens, clock, history>>
    BY <1>2 DEF GetLatest, List, FetchFails, Answer, Goes
  <2>2. QED
    BY <2>1, AnswerStep
<1>3. QED
  BY <1>1, <1>2, CreateProjectStep, GetAnalysisStep, DeleteStep, CheckOwnerStep, UploadStep,
     ResolveRefStep, ListTreeStep, FetchFileStep, FetchDoneStep, ReadPreviousStep, DeriveStep,
     SaveAnalysisStep DEF Request, Step

LEMMA NextHolds == CInv /\ [Next]_vars => CInv'
<1> SUFFICES ASSUME CInv, [Next]_vars PROVE CInv'
  OBVIOUS
<1>1. CASE Commit
  BY <1>1, CommitStep
<1>2. CASE Restart
  <2>1. tokens' \subseteq Users /\ repo' \in Seq(SUBSET Files) /\ repo' # <<>>
    BY <1>2 DEF Restart, CInv, TypeOK, CloudTypes
  <2>2. (/\ users = {} /\ projects = <<>> /\ analyses = <<>> /\ owners = <<>> /\ deleted = {}
         /\ saved = {} /\ clock = 0 /\ worker = [w \in Workers |-> Idle] /\ tokens \subseteq Users
         /\ repo \in Seq(SUBSET Files) /\ repo # <<>>)'
    BY <1>2, <2>1 DEF Restart
  <2>3. QED
    BY <2>2, EmptyStore, PTL
<1>3. CASE \E u \in Users : Login(u)
  BY <1>3, LoginStep
<1>4. CASE \E w \in Workers : Request(w) \/ Step(w)
  BY <1>4, StepHolds
<1>5. CASE UNCHANGED vars
  <2>1. UNCHANGED <<repo, users, projects, analyses, tokens, worker, clock, owners, deleted, saved>>
    BY <1>5 DEF vars
  <2>2. Grows
    BY <2>1, SameStore DEF CInv, CloudTypes
  <2>3. CloudTypes' /\ TypeOK' /\ Numbered' /\ LiveKept'
    BY <2>1 DEF CInv, CloudTypes, TypeOK, AnalysesOf, Numbered, LiveKept
  <2>4. QED
    BY <2>1, <2>2, <2>3, Grown
<1>6. QED
  BY <1>1, <1>2, <1>3, <1>4, <1>5 DEF Next

(* The store's types, numbers and references hold, whatever handlers were  *)
(* overtaken by saves, by deletions and by restarts (cloud/store).         *)
THEOREM CloudInductive == Spec => []CInv
<1>1. QED
  BY InitHolds, NextHolds, PTL DEF Spec

(* A project belongs to who created it and was not deleted, and its latest *)
(* analysis is stored under it (DeleteProject and SaveAnalysis in any      *)
(* order, from any number of handlers).                                    *)
THEOREM CloudTypeCorrect == Spec => []TypeOK
<1>1. CInv => TypeOK
  BY DEF CInv
<1>2. QED
  BY <1>1, CloudInductive, PTL

(* A sync that records a commit has read that commit alone, for any        *)
(* repository and any pushes during the fetches (FetchManifests).          *)
THEOREM SyncsArePinned == Spec => []PinnedSync
<1>1. CInv => PinnedSync
  BY DEF CInv, AllRooted, Rooted, Read, PinnedSync
<1>2. QED
  BY <1>1, CloudInductive, PTL

(* The drift of every analysis of a project that is not deleted is the     *)
(* whole diff from the newest one it had when the handler looked, for any  *)
(* number of overlapping handlers (handleAnalyze).                         *)
THEOREM DriftIsExplained == Spec => []DriftExplained
<1>1. CInv => DriftExplained
  <2> SUFFICES ASSUME CInv, NEW a \in saved
               PROVE  \/ a.project \in deleted
                      \/ Earlier(a.project, a.seen) = {} /\ a.baseline /\ a.changes = {}
                      \/ /\ ~a.baseline
                         /\ \E b \in Earlier(a.project, a.seen) :
                               /\ \A c \in Earlier(a.project, a.seen) : c.created <= b.created
                               /\ a.changes = Drift[<<b.files, a.files>>]
    BY DEF DriftExplained, Earlier
  <2>1. Explained(a)
    BY DEF CInv, AllRooted, Rooted
  <2>2. QED
    BY <2>1 DEF Explained, NewestOf
<1>2. QED
  BY <1>1, CloudInductive, PTL

(***************************************************************************)
(* Tenants.                                                                *)
(***************************************************************************)

(* What is sent to one who has passed the owner's check. *)
LEMMA SentToOwner ==
    ASSUME CInv, NEW w \in Workers, GetLatest(w) \/ List(w) \/ CheckOwner(w) \/ SaveAnalysis(w)
    PROVE  ServedToOwner'
<1>1. ASSUME GetLatest(w) \/ List(w) PROVE ServedToOwner'
  <2>1. worker[w].at \in Stages
    BY <1>1 DEF GetLatest, List, Stages
  <2>2. PICK p, user : /\ p = worker[w].project /\ user = worker[w].user
                       /\ owners[p] = user /\ worker[w].dead = FALSE
    BY <2>1, AtStage
  <2>3. PICK shown : sent' = [shown |-> shown, user |-> user, dead |-> FALSE]
                     /\ shown \subseteq {analyses[a] : a \in AnalysesOf(p)}
    <3>1. LatestAnalysis(p) \subseteq {analyses[a] : a \in AnalysesOf(p)}
      BY LatestIs
    <3>2. PICK shown : /\ shown \in {LatestAnalysis(p), {analyses[a] : a \in AnalysesOf(p)}}
                       /\ sent' = [shown |-> shown, user |-> worker[w].user, dead |-> worker[w].dead]
      BY <1>1, <2>2 DEF GetLatest, List, Answer
    <3>3. QED
      BY <2>2, <3>1, <3>2
  <2>4. \A a \in shown : a.project = p
    BY <2>3 DEF AnalysesOf
  <2>5. UNCHANGED owners
    BY <1>1 DEF GetLatest, List, history
  <2>6. QED
    BY <2>2, <2>3, <2>4, <2>5 DEF ServedToOwner
<1>2. ASSUME CheckOwner(w) PROVE ServedToOwner'
  <2>1. worker[w] \in Checks /\ Fit(worker[w])
    BY <1>2, WorkerIs, FormOf DEF CheckOwner
  <2>2. PICK r \in Checks : r = worker[w]
    BY <2>1
  <2>3. r.dead \in BOOLEAN /\ (r.dead => r.analysis.project \in deleted)
    BY <2>1, <2>2 DEF Checks, Fit
  <2>4. UNCHANGED owners
    BY <1>2 DEF CheckOwner, history
  <2>5. CASE Owns(r.user, r.analysis.project)
    <3>1. sent' = [shown |-> {r.analysis}, user |-> r.user, dead |-> r.dead]
      BY <1>2, <2>2, <2>5 DEF CheckOwner, Answer
    <3>2. owners[r.analysis.project] = r.user /\ r.analysis.project \notin deleted
      BY <2>5 DEF Owns, CInv, TypeOK
    <3>3. r.dead = FALSE
      BY <2>3, <3>2
    <3>4. QED
      BY <2>4, <3>1, <3>2, <3>3 DEF ServedToOwner
  <2>6. CASE ~Owns(r.user, r.analysis.project)
    <3>1. ~Owns(worker[w].user, worker[w].analysis.project)
      BY <2>2, <2>6
    <3>2. sent' = Nothing
      BY <1>2, <3>1, Zenon DEF CheckOwner, Goes
    <3>3. QED
      BY <3>2 DEF Nothing, ServedToOwner
  <2>7. QED
    BY <2>5, <2>6
<1>3. ASSUME SaveAnalysis(w) PROVE ServedToOwner'
  <2>1. worker[w] \in Saves /\ Fit(worker[w])
    BY <1>3, WorkerIs, FormOf DEF SaveAnalysis
  <2>2. PICK r \in Saves : r = worker[w]
    BY <2>1
  <2>3. r.analysis \in Records /\ r.dead = FALSE /\ owners[r.analysis.project] = r.user
    BY <2>1, <2>2 DEF Saves, Fit
  <2>4. PICK a : /\ a = [r.analysis EXCEPT !.id = Cardinality(saved) + 1]
                 /\ sent' = [shown |-> {a}, user |-> r.user, dead |-> r.dead]
    BY <1>3, <2>2 DEF SaveAnalysis, Answer
  <2>5. a.project = r.analysis.project
    BY <2>3, <2>4 DEF Records
  <2>6. UNCHANGED owners
    BY <1>3 DEF SaveAnalysis
  <2>7. QED
    BY <2>3, <2>4, <2>5, <2>6 DEF ServedToOwner
<1>4. QED
  BY <1>1, <1>2, <1>3

(* Tenants are isolated: a response shows an analysis only to the owner of *)
(* its project, and none of a project deleted before the request, for any  *)
(* number of users and handlers (handleGetProject, handleListAnalyses,     *)
(* handleGetAnalysis, and handleAnalyze, which answers with its own).      *)
THEOREM TenantsAreIsolated == Spec => []ServedToOwner
<1>1. Init => ServedToOwner
  BY DEF Init, Nothing, ServedToOwner
<1>2. CInv /\ ServedToOwner /\ [Next]_vars => ServedToOwner'
  <2> SUFFICES ASSUME CInv, ServedToOwner, [Next]_vars PROVE ServedToOwner'
    OBVIOUS
  <2>1. CASE sent' = Nothing
    BY <2>1 DEF Nothing, ServedToOwner
  <2>2. CASE \E w \in Workers : GetLatest(w) \/ List(w) \/ CheckOwner(w) \/ SaveAnalysis(w)
    BY <2>2, SentToOwner
  <2>3. CASE UNCHANGED vars
    BY <2>3 DEF vars, ServedToOwner
  <2>4. Next => \/ sent' = Nothing
                \/ \E w \in Workers : GetLatest(w) \/ List(w) \/ CheckOwner(w) \/ SaveAnalysis(w)
    <3>1. Commit \/ Restart \/ (\E u \in Users : Login(u)) => sent' = Nothing
      BY DEF Commit, Restart, Login
    <3>2. ASSUME NEW w \in Workers, Request(w) PROVE sent' = Nothing
      BY <3>2 DEF Request, CreateProject, GetProject, ListAnalyses, DeleteProject, StartAnalysis,
                  GetAnalysis, Project, Goes
    <3>3. ASSUME NEW w \in Workers, Step(w)
          PROVE  sent' = Nothing \/ GetLatest(w) \/ List(w) \/ CheckOwner(w) \/ SaveAnalysis(w)
      BY <3>3 DEF Step, Delete, Upload, ResolveRef, ListTree, FetchFile, FetchDone, FetchFails,
                  ReadPrevious, Derive, Proceed, Goes
    <3>4. QED
      BY <3>1, <3>2, <3>3 DEF Next
  <2>5. QED
    BY <2>1, <2>2, <2>3, <2>4
<1>3. QED
  BY <1>1, <1>2, CloudInductive, PTL DEF Spec

(***************************************************************************)
(* Consumers, and two merged.                                              *)
(***************************************************************************)

(* The fields of a consumer, as the adapters fill them in. *)
ConsumerFields ==
    {"id", "aliases", "kind", "name", "ns", "owner", "endpoints", "issuers", "audiences", "claims",
     "cacheTTL", "jwksURI", "confidence", "probeable"}

(* A confidence an adapter gives is a number, positive where the differ reads it. *)
Rated(confidence) ==
    /\ \A f \in DOMAIN confidence : confidence[f] \in Nat
    /\ \A f \in Fields \cap DOMAIN confidence : confidence[f] > 0

(* What Merge takes and makes. *)
Shaped(c) ==
    /\ DOMAIN c = ConsumerFields
    /\ IsList(c.aliases) /\ IsList(c.issuers) /\ IsList(c.audiences)
    /\ Rated(c.confidence)

(* One record has all another expects. *)
Holds(r, c) ==
    /\ ToSet(c.issuers) \subseteq ToSet(r.issuers)
    /\ ToSet(c.audiences) \subseteq ToSet(r.audiences)
    /\ c.claims \subseteq r.claims /\ c.endpoints \subseteq r.endpoints
    /\ \A f \in Fields : f \in DOMAIN c.confidence =>
            f \in DOMAIN r.confidence /\ r.confidence[f] >= c.confidence[f]

(* The higher confidence of two is kept. *)
LEMMA ConfidenceMerges ==
    ASSUME NEW a, NEW b, Rated(a), Rated(b)
    PROVE  /\ Rated(MergeConfidence(a, b))
           /\ \A f \in DOMAIN a : f \in DOMAIN MergeConfidence(a, b) /\ MergeConfidence(a, b)[f] >= a[f]
           /\ \A f \in Fields \cap DOMAIN b :
                 f \in DOMAIN MergeConfidence(a, b) /\ MergeConfidence(a, b)[f] >= b[f]
<1> DEFINE Of(f, k) == IF k \in DOMAIN f THEN f[k] ELSE 0
           m == MergeConfidence(a, b)
           D == DOMAIN a \cup {j \in DOMAIN b : b[j] > 0}
<1>1. m = [k \in D |-> IF Of(b, k) > Of(a, k) THEN Of(b, k) ELSE Of(a, k)]
  <2>1. \A k \in D : Of(b, k) > Of(a, k) => b[k] = Of(b, k)
    BY DEF Rated
  <2>2. QED
    BY <2>1 DEF MergeConfidence
<1>2. \A k : Of(a, k) \in Nat /\ Of(b, k) \in Nat
  BY DEF Rated
<1>3. DOMAIN m = D /\ \A k \in D : m[k] \in Nat /\ m[k] >= Of(a, k) /\ m[k] >= Of(b, k)
  BY <1>1, <1>2
<1>4. \A f \in DOMAIN a : f \in D /\ Of(a, f) = a[f]
  OBVIOUS
<1>5. \A f \in Fields \cap DOMAIN b : f \in D /\ Of(b, f) = b[f]
  BY DEF Rated
<1>6. ASSUME NEW f \in Fields \cap D PROVE m[f] > 0
  <2>1. CASE f \in DOMAIN a
    <3>1. a[f] > 0 /\ a[f] \in Nat /\ m[f] \in Nat /\ m[f] >= a[f]
      BY <1>3, <1>4, <2>1 DEF Rated
    <3>2. QED
      BY <3>1
  <2>2. CASE f \in DOMAIN b
    <3>1. b[f] > 0 /\ b[f] \in Nat /\ m[f] \in Nat /\ m[f] >= b[f]
      BY <1>3, <1>5, <2>2 DEF Rated
    <3>2. QED
      BY <3>1
  <2>3. QED
    BY <2>1, <2>2
<1> HIDE DEF m, D, Of
<1>7. Rated(m)
  BY <1>3, <1>6 DEF Rated
<1>8. QED
  BY <1>3, <1>4, <1>5, <1>7 DEF m

(* A merged record has the identity of the first and all that both expect. *)
LEMMA MergedIs ==
    ASSUME NEW a, NEW b, Shaped(a), Shaped(b)
    PROVE  LET m == MergeConsumers(a, b)
           IN  /\ Shaped(m) /\ m.id = a.id
               /\ ToSet(m.aliases) = ToSet(a.aliases) \cup ToSet(b.aliases) \cup ({b.id} \ {a.id})
               /\ ToSet(m.issuers) = ToSet(a.issuers) \cup ToSet(b.issuers)
               /\ ToSet(m.audiences) = ToSet(a.audiences) \cup ToSet(b.audiences)
               /\ m.claims = a.claims \cup b.claims
               /\ m.endpoints = a.endpoints \cup b.endpoints
               /\ Holds(m, a) /\ Holds(m, b)
<1> DEFINE others == IF b.id = a.id THEN b.aliases ELSE AppendUnique(b.aliases, b.id)
           m == MergeConsumers(a, b)
<1>1. /\ DOMAIN m = ConsumerFields
      /\ m.id = a.id
      /\ m.aliases = UnionAll(a.aliases, others)
      /\ m.issuers = UnionAll(a.issuers, b.issuers)
      /\ m.audiences = UnionAll(a.audiences, b.audiences)
      /\ m.claims = a.claims \cup b.claims
      /\ m.endpoints = a.endpoints \cup b.endpoints
      /\ m.confidence = MergeConfidence(a.confidence, b.confidence)
  BY DEF MergeConsumers, Shaped, ConsumerFields
<1>2. IsList(others) /\ ToSet(others) = ToSet(b.aliases) \cup ({b.id} \ {a.id})
  BY AppendUniqueIs DEF Shaped
<1> HIDE DEF m, others
<1>3. IsList(m.aliases) /\ ToSet(m.aliases) = ToSet(a.aliases) \cup ToSet(b.aliases) \cup ({b.id} \ {a.id})
  BY <1>1, <1>2, UnionAllIs DEF Shaped
<1>4. IsList(m.issuers) /\ ToSet(m.issuers) = ToSet(a.issuers) \cup ToSet(b.issuers)
  BY <1>1, UnionAllIs DEF Shaped
<1>5. IsList(m.audiences) /\ ToSet(m.audiences) = ToSet(a.audiences) \cup ToSet(b.audiences)
  BY <1>1, UnionAllIs DEF Shaped
<1>6. /\ Rated(m.confidence)
      /\ \A f \in Fields : f \in DOMAIN a.confidence =>
            f \in DOMAIN m.confidence /\ m.confidence[f] >= a.confidence[f]
      /\ \A f \in Fields : f \in DOMAIN b.confidence =>
            f \in DOMAIN m.confidence /\ m.confidence[f] >= b.confidence[f]
  BY <1>1, ConfidenceMerges DEF Shaped
<1>7. Shaped(m)
  BY <1>1, <1>3, <1>4, <1>5, <1>6 DEF Shaped
<1>8. Holds(m, a) /\ Holds(m, b)
  BY <1>1, <1>4, <1>5, <1>6 DEF Holds
<1>9. QED
  BY <1>1, <1>3, <1>4, <1>5, <1>7, <1>8 DEF m

(* The identity keys are the StableID and the aliases. *)
LEMMA KeysAre ==
    ASSUME NEW c, Shaped(c)
    PROVE  IsList(IdentityKeys(c)) /\ ToSet(IdentityKeys(c)) = IDsOf(c)
BY OneListed, UnionAllIs DEF IdentityKeys, IDsOf, Shaped

(* A merged record has the identities of both. *)
LEMMA MergedIDs ==
    ASSUME NEW a, NEW b, Shaped(a), Shaped(b)
    PROVE  IDsOf(MergeConsumers(a, b)) = IDsOf(a) \cup IDsOf(b)
<1> DEFINE m == MergeConsumers(a, b)
<1>1. m.id = a.id /\ ToSet(m.aliases) = ToSet(a.aliases) \cup ToSet(b.aliases) \cup ({b.id} \ {a.id})
  BY MergedIs
<1> HIDE DEF m
<1>2. QED
  BY <1>1 DEF IDsOf, m

(* What holds all of a record holds all that one held. *)
LEMMA HoldsOnce ==
    ASSUME NEW r, NEW s, NEW c, Shaped(r), Shaped(s), Shaped(c), Holds(r, s), Holds(s, c)
    PROVE  Holds(r, c)
<1>1. ASSUME NEW f \in Fields, f \in DOMAIN c.confidence
      PROVE  f \in DOMAIN r.confidence /\ r.confidence[f] >= c.confidence[f]
  <2>1. /\ f \in DOMAIN s.confidence /\ s.confidence[f] >= c.confidence[f]
        /\ f \in DOMAIN r.confidence /\ r.confidence[f] >= s.confidence[f]
    BY <1>1 DEF Holds
  <2>2. c.confidence[f] \in Nat /\ s.confidence[f] \in Nat /\ r.confidence[f] \in Nat
    BY <1>1, <2>1 DEF Shaped, Rated
  <2>3. QED
    BY <2>1, <2>2
<1>2. QED
  BY <1>1 DEF Holds

(* A record holds what it has. *)
LEMMA HoldsItself ==
    ASSUME NEW c, Shaped(c)
    PROVE  Holds(c, c)
BY DEF Holds, Shaped, Rated

(***************************************************************************)
(* The loop of Merge.                                                      *)
(***************************************************************************)

(* Clients of a registry and what the mesh shows have no identity in common. *)
Apart(c) ==
    /\ \A x \in IDsOf(c) : x[1] = "oidc" <=> IsOIDC(c)
    /\ IsOIDC(c) => ToSet(c.aliases) = {}

(* A record is made of what was found of its identities. *)
Backed(r, S) ==
    /\ ToSet(r.issuers) \subseteq UNION {ToSet(c.issuers) : c \in Members(r, S)}
    /\ ToSet(r.audiences) \subseteq UNION {ToSet(c.audiences) : c \in Members(r, S)}
    /\ r.claims \subseteq UNION {c.claims : c \in Members(r, S)}
    /\ \A x \in IDsOf(r) : \E c \in S : x \in IDsOf(c) /\ IDsOf(c) \subseteq IDsOf(r)

(* The order lists each record once. *)
InOrder(acc) ==
    /\ IsList(acc.order) /\ NoRepeat(acc.order)
    /\ ToSet(acc.order) = DOMAIN acc.byID

(* Every identity of a record leads to one that has it, and none but those lead anywhere. *)
Known(acc) ==
    /\ \A x : x \in DOMAIN acc.canon <=> \E t \in DOMAIN acc.byID : x \in IDsOf(acc.byID[t])
    /\ \A x \in DOMAIN acc.canon :
          acc.canon[x] \in DOMAIN acc.byID /\ x \in IDsOf(acc.byID[acc.canon[x]])

(* What the loop has made of the consumers it has seen. *)
Sound(acc, S) ==
    /\ InOrder(acc)
    /\ Known(acc)
    /\ \A t \in DOMAIN acc.byID :
          LET r == acc.byID[t]
          IN  Shaped(r) /\ r.id = t /\ Apart(r) /\ Backed(r, S)
    /\ \A c \in S : \E t \in DOMAIN acc.byID :
          IDsOf(c) \subseteq IDsOf(acc.byID[t]) /\ Holds(acc.byID[t], c)

(* How a step of the loop changes what there is. *)
Joins(acc, new, c, t, m) ==
    /\ DOMAIN new.byID = DOMAIN acc.byID \cup {t} /\ new.byID[t] = m
    /\ \A u \in DOMAIN acc.byID : u # t => new.byID[u] = acc.byID[u]
    /\ DOMAIN new.canon = DOMAIN acc.canon \cup IDsOf(m)
    /\ \A x \in DOMAIN new.canon :
          new.canon[x] = IF x \in DOMAIN acc.canon THEN acc.canon[x] ELSE t

(* A consumer none of whose identities is known begins a record. *)
Begins(acc, new, c) ==
    /\ IDsOf(c) \cap DOMAIN acc.canon = {}
    /\ new.order = Append(acc.order, c.id)
    /\ Joins(acc, new, c, c.id, c)

(* One of whose identities a record has joins it. *)
Extends(acc, new, c, t) ==
    /\ t \in DOMAIN acc.byID /\ IDsOf(c) \cap IDsOf(acc.byID[t]) # {}
    /\ new.order = acc.order
    /\ Joins(acc, new, c, t, MergeConsumers(acc.byID[t], c))

(* A step of the loop does one or the other. *)
LEMMA StepIs ==
    ASSUME NEW acc, NEW S, NEW c, Sound(acc, S), Shaped(c)
    PROVE  \/ Begins(acc, MergeStep(acc, c), c)
           \/ \E t : Extends(acc, MergeStep(acc, c), c, t)
<1> DEFINE known  == Among(IdentityKeys(c), DOMAIN acc.canon)
           target == IF known = <<>> THEN c.id ELSE acc.canon[known[1]]
           merged == IF known = <<>> THEN c ELSE MergeConsumers(acc.byID[target], c)
           new    == MergeStep(acc, c)
<1>1. IsList(known) /\ ToSet(known) = IDsOf(c) \cap DOMAIN acc.canon
  BY KeysAre, AmongIs
<1>2. /\ new.order = IF known = <<>> THEN Append(acc.order, c.id) ELSE acc.order
      /\ new.byID = [t \in DOMAIN acc.byID \cup {target} |->
                       IF t = target THEN merged ELSE acc.byID[t]]
      /\ new.canon = [k \in DOMAIN acc.canon \cup ToSet(IdentityKeys(merged)) |->
                        IF k \in DOMAIN acc.canon THEN acc.canon[k] ELSE target]
  BY DEF MergeStep
<1> HIDE DEF known, new
<1>3. CASE known = <<>>
  <2>1. target = c.id /\ merged = c
    BY <1>3
  <2>2. IDsOf(c) \cap DOMAIN acc.canon = {}
    BY <1>1, <1>3, Listed
  <2>3. ToSet(IdentityKeys(merged)) = IDsOf(c)
    BY <2>1, KeysAre
  <2> HIDE DEF target, merged
  <2>4. Joins(acc, new, c, c.id, c)
    BY <1>2, <2>1, <2>3 DEF Joins
  <2>5. QED
    BY <1>2, <1>3, <2>2, <2>4 DEF Begins, new
<1>4. CASE known # <<>>
  <2>1. known[1] \in IDsOf(c) \cap DOMAIN acc.canon
    <3>1. Len(known) # 0
      BY <1>1, <1>4, EmptySeq DEF IsList
    <3>2. 1 \in 1..Len(known)
      BY <1>1, <3>1, Listed
    <3>3. QED
      BY <1>1, <3>2, Listed
  <2>2. target = acc.canon[known[1]] /\ merged = MergeConsumers(acc.byID[target], c)
    BY <1>4
  <2>3. target \in DOMAIN acc.byID /\ known[1] \in IDsOf(acc.byID[target])
    BY <2>1, <2>2 DEF Sound, Known
  <2>4. Shaped(acc.byID[target])
    BY <2>3 DEF Sound
  <2> HIDE DEF target, merged
  <2>5. Shaped(merged)
    BY <2>2, <2>4, MergedIs
  <2>6. ToSet(IdentityKeys(merged)) = IDsOf(merged)
    BY <2>5, KeysAre
  <2>7. Joins(acc, new, c, target, merged)
    BY <1>2, <2>6 DEF Joins
  <2>8. new.order = acc.order
    BY <1>2, <1>4
  <2>9. Extends(acc, new, c, target)
    BY <2>1, <2>2, <2>3, <2>7, <2>8 DEF Extends
  <2>10. QED
    BY <2>9 DEF new
<1>5. QED
  BY <1>3, <1>4

(* A record stays backed when more is found. *)
LEMMA BackedGrows ==
    ASSUME NEW r, NEW S, NEW c, Backed(r, S)
    PROVE  Backed(r, S \cup {c})
<1>1. Members(r, S) \subseteq Members(r, S \cup {c})
  BY DEF Members
<1>2. QED
  BY <1>1 DEF Backed

(* A consumer backs a record of its own. *)
LEMMA BackedAlone ==
    ASSUME NEW c, NEW S
    PROVE  Backed(c, S \cup {c})
<1>1. c \in Members(c, S \cup {c})
  BY DEF Members, IDsOf
<1>2. QED
  BY <1>1 DEF Backed

(* A consumer backs what it adds to a record. *)
LEMMA BackedMerges ==
    ASSUME NEW r, NEW S, NEW c, Shaped(r), Shaped(c), Backed(r, S)
    PROVE  Backed(MergeConsumers(r, c), S \cup {c})
<1> DEFINE m == MergeConsumers(r, c)
<1>1. /\ IDsOf(m) = IDsOf(r) \cup IDsOf(c)
      /\ ToSet(m.issuers) = ToSet(r.issuers) \cup ToSet(c.issuers)
      /\ ToSet(m.audiences) = ToSet(r.audiences) \cup ToSet(c.audiences)
      /\ m.claims = r.claims \cup c.claims
  BY MergedIs, MergedIDs
<1> HIDE DEF m
<1>2. Members(r, S) \subseteq Members(m, S \cup {c}) /\ c \in Members(m, S \cup {c})
  BY <1>1 DEF Members, IDsOf
<1>3. ToSet(m.issuers) \subseteq UNION {ToSet(d.issuers) : d \in Members(m, S \cup {c})}
  BY <1>1, <1>2 DEF Backed
<1>4. ToSet(m.audiences) \subseteq UNION {ToSet(d.audiences) : d \in Members(m, S \cup {c})}
  BY <1>1, <1>2 DEF Backed
<1>5. m.claims \subseteq UNION {d.claims : d \in Members(m, S \cup {c})}
  BY <1>1, <1>2 DEF Backed
<1>6. \A x \in IDsOf(m) : \E d \in S \cup {c} : x \in IDsOf(d) /\ IDsOf(d) \subseteq IDsOf(m)
  BY <1>1 DEF Backed
<1>7. QED
  BY <1>3, <1>4, <1>5, <1>6 DEF Backed, m

(* Two records that meet in an identity are both clients or both not. *)
LEMMA ApartMerges ==
    ASSUME NEW r, NEW c, Shaped(r), Shaped(c), Apart(r), Apart(c), IDsOf(r) \cap IDsOf(c) # {}
    PROVE  Apart(MergeConsumers(r, c))
<1> DEFINE m == MergeConsumers(r, c)
<1>1. /\ IDsOf(m) = IDsOf(r) \cup IDsOf(c)
      /\ m.id = r.id
      /\ ToSet(m.aliases) = ToSet(r.aliases) \cup ToSet(c.aliases) \cup ({c.id} \ {r.id})
  BY MergedIs, MergedIDs
<1> HIDE DEF m
<1>2. PICK x : x \in IDsOf(r) /\ x \in IDsOf(c)
  OBVIOUS
<1>3. IsOIDC(r) <=> IsOIDC(c)
  BY <1>2 DEF Apart
<1>4. IsOIDC(m) <=> IsOIDC(r)
  BY <1>1 DEF IsOIDC
<1>5. IsOIDC(r) => c.id = r.id /\ ToSet(r.aliases) = {} /\ ToSet(c.aliases) = {}
  BY <1>2, <1>3 DEF Apart, IDsOf
<1>6. \A y \in IDsOf(m) : y[1] = "oidc" <=> IsOIDC(m)
  BY <1>1, <1>3, <1>4 DEF Apart
<1>7. QED
  BY <1>1, <1>4, <1>5, <1>6 DEF Apart, m

(* Each kind of step keeps what the loop has made. *)
LEMMA BeginsSound ==
    ASSUME NEW acc, NEW new, NEW S, NEW c, Sound(acc, S), Shaped(c), Apart(c), Begins(acc, new, c)
    PROVE  Sound(new, S \cup {c})
<1>1. /\ IDsOf(c) \cap DOMAIN acc.canon = {} /\ new.order = Append(acc.order, c.id)
      /\ DOMAIN new.byID = DOMAIN acc.byID \cup {c.id} /\ new.byID[c.id] = c
      /\ \A u \in DOMAIN acc.byID : u # c.id => new.byID[u] = acc.byID[u]
      /\ DOMAIN new.canon = DOMAIN acc.canon \cup IDsOf(c)
      /\ \A x \in DOMAIN new.canon :
            new.canon[x] = IF x \in DOMAIN acc.canon THEN acc.canon[x] ELSE c.id
  BY DEF Begins, Joins
<1>2. c.id \notin DOMAIN acc.byID
  <2>1. ASSUME c.id \in DOMAIN acc.byID PROVE c.id \in DOMAIN acc.canon
    <3>1. acc.byID[c.id].id = c.id
      BY <2>1 DEF Sound
    <3>2. QED
      BY <2>1, <3>1 DEF Sound, Known, IDsOf
  <2>2. QED
    BY <1>1, <2>1 DEF IDsOf
<1>3. \A u \in DOMAIN acc.byID : new.byID[u] = acc.byID[u]
  BY <1>1, <1>2
<1>4. InOrder(new)
  <2>1. IsList(acc.order) /\ NoRepeat(acc.order) /\ ToSet(acc.order) = DOMAIN acc.byID
    BY DEF Sound, InOrder
  <2>2. IsList(new.order) /\ ToSet(new.order) = DOMAIN new.byID
    BY <1>1, <2>1, Appended
  <2>3. NoRepeat(new.order)
    BY <1>1, <1>2, <2>1, AppendedOnce
  <2>4. QED
    BY <2>2, <2>3 DEF InOrder
<1>5. Known(new)
  <2>1. \A x : x \in DOMAIN new.canon <=> \E t \in DOMAIN new.byID : x \in IDsOf(new.byID[t])
    BY <1>1, <1>3 DEF Sound, Known
  <2>2. ASSUME NEW x \in DOMAIN new.canon
        PROVE  new.canon[x] \in DOMAIN new.byID /\ x \in IDsOf(new.byID[new.canon[x]])
    <3>1. CASE x \in DOMAIN acc.canon
      BY <1>1, <1>3, <3>1 DEF Sound, Known
    <3>2. CASE x \notin DOMAIN acc.canon
      BY <1>1, <3>2
    <3>3. QED
      BY <3>1, <3>2
  <2>3. QED
    BY <2>1, <2>2 DEF Known
<1>6. ASSUME NEW t \in DOMAIN new.byID
      PROVE  /\ Shaped(new.byID[t]) /\ new.byID[t].id = t /\ Apart(new.byID[t])
             /\ Backed(new.byID[t], S \cup {c})
  <2>1. CASE t = c.id
    BY <1>1, <2>1, BackedAlone
  <2>2. CASE t # c.id
    BY <1>1, <2>2, BackedGrows DEF Sound
  <2>3. QED
    BY <2>1, <2>2
<1>7. ASSUME NEW d \in S \cup {c}
      PROVE  \E t \in DOMAIN new.byID : IDsOf(d) \subseteq IDsOf(new.byID[t]) /\ Holds(new.byID[t], d)
  <2>1. CASE d = c
    BY <1>1, <2>1, HoldsItself
  <2>2. CASE d \in S
    BY <1>1, <1>3, <2>2 DEF Sound
  <2>3. QED
    BY <2>1, <2>2
<1>8. QED
  BY <1>4, <1>5, <1>6, <1>7 DEF Sound

LEMMA ExtendsSound ==
    ASSUME NEW acc, NEW new, NEW S, NEW c, NEW t, Sound(acc, S), Shaped(c), Apart(c),
           \A d \in S : Shaped(d), Extends(acc, new, c, t)
    PROVE  Sound(new, S \cup {c})
<1> DEFINE r == acc.byID[t]
           m == MergeConsumers(r, c)
<1>1. /\ t \in DOMAIN acc.byID /\ IDsOf(c) \cap IDsOf(r) # {} /\ new.order = acc.order
      /\ DOMAIN new.byID = DOMAIN acc.byID /\ new.byID[t] = m
      /\ \A u \in DOMAIN acc.byID : u # t => new.byID[u] = acc.byID[u]
      /\ DOMAIN new.canon = DOMAIN acc.canon \cup IDsOf(m)
      /\ \A x \in DOMAIN new.canon :
            new.canon[x] = IF x \in DOMAIN acc.canon THEN acc.canon[x] ELSE t
  BY DEF Extends, Joins
<1>2. Shaped(r) /\ r.id = t /\ Apart(r) /\ Backed(r, S)
  BY <1>1 DEF Sound
<1>3. /\ Shaped(m) /\ m.id = t /\ Apart(m) /\ Backed(m, S \cup {c})
      /\ IDsOf(m) = IDsOf(r) \cup IDsOf(c) /\ Holds(m, r) /\ Holds(m, c)
  BY <1>1, <1>2, MergedIs, MergedIDs, ApartMerges, BackedMerges
<1> HIDE DEF m
<1>4. InOrder(new)
  BY <1>1 DEF Sound, InOrder
<1>5. \A u \in DOMAIN acc.byID : IDsOf(acc.byID[u]) \subseteq IDsOf(new.byID[u])
  BY <1>1, <1>3
<1>6. Known(new)
  <2>1. \A x : x \in DOMAIN new.canon <=> \E u \in DOMAIN new.byID : x \in IDsOf(new.byID[u])
    <3>1. \A x : x \in DOMAIN acc.canon <=> \E u \in DOMAIN acc.byID : x \in IDsOf(acc.byID[u])
      BY DEF Sound, Known
    <3>2. ASSUME NEW x, NEW u \in DOMAIN new.byID, x \in IDsOf(new.byID[u])
          PROVE  x \in DOMAIN new.canon
      <4>1. CASE u = t
        BY <1>1, <3>2, <4>1
      <4>2. CASE u # t
        BY <1>1, <3>1, <3>2, <4>2
      <4>3. QED
        BY <4>1, <4>2
    <3>3. ASSUME NEW x \in DOMAIN new.canon
          PROVE  \E u \in DOMAIN new.byID : x \in IDsOf(new.byID[u])
      <4>1. CASE x \in IDsOf(m)
        BY <1>1, <4>1
      <4>2. CASE x \in DOMAIN acc.canon
        BY <1>1, <1>5, <3>1, <4>2
      <4>3. QED
        BY <1>1, <4>1, <4>2
    <3>4. QED
      BY <3>2, <3>3
  <2>2. ASSUME NEW x \in DOMAIN new.canon
        PROVE  new.canon[x] \in DOMAIN new.byID /\ x \in IDsOf(new.byID[new.canon[x]])
    <3>1. CASE x \in DOMAIN acc.canon
      BY <1>1, <1>5, <3>1 DEF Sound, Known
    <3>2. CASE x \notin DOMAIN acc.canon
      BY <1>1, <3>2
    <3>3. QED
      BY <3>1, <3>2
  <2>3. QED
    BY <2>1, <2>2 DEF Known
<1>7. ASSUME NEW u \in DOMAIN new.byID
      PROVE  /\ Shaped(new.byID[u]) /\ new.byID[u].id = u /\ Apart(new.byID[u])
             /\ Backed(new.byID[u], S \cup {c})
  <2>1. CASE u = t
    BY <1>1, <1>3, <2>1
  <2>2. CASE u # t
    BY <1>1, <2>2, BackedGrows DEF Sound
  <2>3. QED
    BY <2>1, <2>2
<1>8. ASSUME NEW d \in S \cup {c}
      PROVE  \E u \in DOMAIN new.byID : IDsOf(d) \subseteq IDsOf(new.byID[u]) /\ Holds(new.byID[u], d)
  <2>1. CASE d = c
    BY <1>1, <1>3, <2>1
  <2>2. CASE d \in S
    <3>1. PICK u \in DOMAIN acc.byID : IDsOf(d) \subseteq IDsOf(acc.byID[u]) /\ Holds(acc.byID[u], d)
      BY <2>2 DEF Sound
    <3>2. CASE u = t
      BY <1>1, <1>2, <1>3, <1>5, <2>2, <3>1, <3>2, HoldsOnce
    <3>3. CASE u # t
      BY <1>1, <3>1, <3>3
    <3>4. QED
      BY <3>2, <3>3
  <2>3. QED
    BY <2>1, <2>2
<1>9. QED
  BY <1>4, <1>6, <1>7, <1>8 DEF Sound

(* No two records share an identity, and what a record is made of is linked. *)
Separate(acc, S) ==
    /\ \A t, u \in DOMAIN acc.byID : Linked(acc.byID[t], acc.byID[u]) => t = u
    /\ \A t \in DOMAIN acc.byID : \A c, d \in Members(acc.byID[t], S) : Linked(c, d)

(* Linked either way round. *)
LEMMA LinkedBothWays == \A c, d : Linked(c, d) <=> Linked(d, c)
BY DEF Linked

(* Each kind of step keeps the records separate. *)
LEMMA BeginsSeparate ==
    ASSUME NEW acc, NEW new, NEW S, NEW c, Sound(acc, S), Separate(acc, S), Begins(acc, new, c),
           Transitive(S \cup {c})
    PROVE  Separate(new, S \cup {c})
<1>1. /\ IDsOf(c) \cap DOMAIN acc.canon = {}
      /\ DOMAIN new.byID = DOMAIN acc.byID \cup {c.id} /\ new.byID[c.id] = c
      /\ \A u \in DOMAIN acc.byID : u # c.id => new.byID[u] = acc.byID[u]
  BY DEF Begins, Joins
<1>2. \A u \in DOMAIN acc.byID : ~Linked(c, acc.byID[u]) /\ ~Linked(acc.byID[u], c)
  BY <1>1 DEF Sound, Known, Linked
<1>3. ASSUME NEW t \in DOMAIN new.byID, NEW u \in DOMAIN new.byID, Linked(new.byID[t], new.byID[u])
      PROVE  t = u
  BY <1>1, <1>2, <1>3 DEF Separate
<1>4. ASSUME NEW t \in DOMAIN new.byID, NEW d \in Members(new.byID[t], S \cup {c}),
             NEW e \in Members(new.byID[t], S \cup {c})
      PROVE  Linked(d, e)
  <2>1. d \in S \cup {c} /\ e \in S \cup {c} /\ d.id \in IDsOf(new.byID[t]) /\ e.id \in IDsOf(new.byID[t])
    BY DEF Members
  <2>2. CASE t = c.id
    <3>1. Linked(d, c) /\ Linked(c, e)
      BY <1>1, <2>1, <2>2 DEF Linked, IDsOf
    <3>2. QED
      BY <2>1, <3>1 DEF Transitive
  <2>3. CASE t # c.id
    <3>1. t \in DOMAIN acc.byID /\ new.byID[t] = acc.byID[t]
      BY <1>1, <2>3
    <3>2. c.id \notin IDsOf(acc.byID[t])
      BY <1>2, <3>1 DEF Linked, IDsOf
    <3>3. d \in Members(acc.byID[t], S) /\ e \in Members(acc.byID[t], S)
      BY <2>1, <3>1, <3>2 DEF Members
    <3>4. QED
      BY <3>1, <3>3 DEF Separate
  <2>4. QED
    BY <2>2, <2>3
<1>5. QED
  BY <1>3, <1>4 DEF Separate

LEMMA ExtendsSeparate ==
    ASSUME NEW acc, NEW new, NEW S, NEW c, NEW t, Sound(acc, S), Separate(acc, S), Shaped(c),
           Extends(acc, new, c, t), Transitive(S \cup {c})
    PROVE  Separate(new, S \cup {c})
<1> DEFINE r == acc.byID[t]
           m == MergeConsumers(r, c)
<1>1. /\ t \in DOMAIN acc.byID /\ Linked(c, r)
      /\ DOMAIN new.byID = DOMAIN acc.byID /\ new.byID[t] = m
      /\ \A u \in DOMAIN acc.byID : u # t => new.byID[u] = acc.byID[u]
  BY DEF Extends, Joins, Linked
<1>2. Shaped(r) /\ Backed(r, S)
  BY <1>1 DEF Sound
<1>3. IDsOf(m) = IDsOf(r) \cup IDsOf(c)
  BY <1>2, MergedIDs
<1>4. PICK k : k \in IDsOf(c) /\ k \in IDsOf(r)
  BY <1>1 DEF Linked
<1>5. PICK b \in S : k \in IDsOf(b) /\ IDsOf(b) \subseteq IDsOf(r)
  BY <1>2, <1>4 DEF Backed
<1>6. Linked(b, c) /\ Linked(c, b) /\ b \in Members(r, S)
  BY <1>4, <1>5 DEF Linked, Members, IDsOf
<1> HIDE DEF m
<1>7. ASSUME NEW u \in DOMAIN acc.byID, Linked(m, acc.byID[u]) PROVE u = t
  <2>1. CASE Linked(r, acc.byID[u])
    BY <1>1, <2>1 DEF Separate
  <2>2. CASE ~Linked(r, acc.byID[u])
    <3>1. PICK x : x \in IDsOf(c) /\ x \in IDsOf(acc.byID[u])
      BY <1>3, <1>7, <2>2 DEF Linked
    <3>2. PICK e \in S : x \in IDsOf(e) /\ IDsOf(e) \subseteq IDsOf(acc.byID[u])
      BY <3>1 DEF Sound, Backed
    <3>3. Linked(c, e)
      BY <3>1, <3>2 DEF Linked
    <3>4. Linked(b, e)
      BY <1>6, <3>3 DEF Transitive
    <3>5. Linked(r, acc.byID[u])
      BY <1>5, <3>2, <3>4 DEF Linked
    <3>6. QED
      BY <2>2, <3>5
  <2>3. QED
    BY <2>1, <2>2
<1>8. ASSUME NEW u \in DOMAIN new.byID, NEW v \in DOMAIN new.byID, Linked(new.byID[u], new.byID[v])
      PROVE  u = v
  <2>1. CASE u = t
    <3>1. CASE v = t
      BY <2>1, <3>1
    <3>2. CASE v # t
      BY <1>1, <1>7, <1>8, <2>1, <3>2
    <3>3. QED
      BY <3>1, <3>2
  <2>2. CASE u # t
    <3>1. CASE v = t
      BY <1>1, <1>7, <1>8, <2>2, <3>1, LinkedBothWays
    <3>2. CASE v # t
      BY <1>1, <1>8, <2>2, <3>2 DEF Separate
    <3>3. QED
      BY <3>1, <3>2
  <2>3. QED
    BY <2>1, <2>2
<1>9. ASSUME NEW d \in Members(m, S \cup {c}) PROVE Linked(d, c) /\ d \in S \cup {c}
  <2>1. d \in S \cup {c} /\ (d.id \in IDsOf(r) \/ d.id \in IDsOf(c))
    BY <1>3 DEF Members
  <2>2. CASE d.id \in IDsOf(c)
    BY <2>1, <2>2 DEF Linked, IDsOf
  <2>3. CASE d.id \in IDsOf(r) /\ d \in S
    <3>1. Linked(d, b)
      BY <1>1, <1>6, <2>3 DEF Separate, Members
    <3>2. QED
      BY <1>6, <2>3, <3>1 DEF Transitive
  <2>4. CASE d = c
    BY <2>4 DEF Linked, IDsOf
  <2>5. QED
    BY <2>1, <2>2, <2>3, <2>4
<1>10. ASSUME NEW u \in DOMAIN new.byID, NEW d \in Members(new.byID[u], S \cup {c}),
              NEW e \in Members(new.byID[u], S \cup {c})
       PROVE  Linked(d, e)
  <2>1. CASE u = t
    <3>1. Linked(d, c) /\ Linked(e, c) /\ d \in S \cup {c} /\ e \in S \cup {c}
      BY <1>1, <1>9, <2>1
    <3>2. Linked(c, e)
      BY <3>1, LinkedBothWays
    <3>3. QED
      BY <3>1, <3>2 DEF Transitive
  <2>2. CASE u # t
    <3>1. u \in DOMAIN acc.byID /\ new.byID[u] = acc.byID[u]
      BY <1>1, <2>2
    <3>2. c.id \notin IDsOf(acc.byID[u])
      BY <1>3, <1>7, <2>2, <3>1 DEF Linked, IDsOf
    <3>3. d \in Members(acc.byID[u], S) /\ e \in Members(acc.byID[u], S)
      BY <3>1, <3>2 DEF Members
    <3>4. QED
      BY <3>1, <3>3 DEF Separate
  <2>3. QED
    BY <2>1, <2>2
<1>11. QED
  BY <1>8, <1>10 DEF Separate

(***************************************************************************)
(* All of the loop.                                                        *)
(***************************************************************************)

(* Before the first consumer. *)
Start == [order |-> <<>>, byID |-> <<>>, canon |-> <<>>]

(* The states of the loop, one after each consumer. *)
Loop(f, found) ==
    f = [i \in 0..Len(found) |-> IF i = 0 THEN Start ELSE MergeStep(f[i - 1], found[i])]

(* The recursion of Joined has a function, which goes through those states. *)
LEMMA LoopRuns ==
    ASSUME NEW found, Len(found) \in Nat
    PROVE  \E f : Loop(f, found)
<1> DEFINE n == Len(found)
           Upto(f, m) == /\ DOMAIN f = 0..m /\ f = [i \in 0..m |-> f[i]]
                         /\ \A i \in 0..m :
                               f[i] = IF i = 0 THEN Start ELSE MergeStep(f[i - 1], found[i])
           I == {m \in Nat : \E f : Upto(f, m)}
<1>1. 0 \in I
  <2> DEFINE f == [i \in 0..0 |-> Start]
  <2>1. Upto(f, 0)
    OBVIOUS
  <2> HIDE DEF f, Upto
  <2>2. QED
    BY <2>1
<1>2. ASSUME NEW m \in 1..n, m - 1 \in I PROVE m \in I
  <2>1. PICK f : Upto(f, m - 1)
    BY <1>2
  <2> DEFINE g == [i \in 0..m |-> IF i = m THEN MergeStep(f[m - 1], found[m]) ELSE f[i]]
  <2>2. m \in Nat /\ m # 0 /\ m - 1 \in Nat
    OBVIOUS
  <2>3. \A i \in 0..(m - 1) : i \in 0..m /\ i # m /\ g[i] = f[i]
    BY <2>2
  <2>4. g[m] = MergeStep(f[m - 1], found[m])
    BY <2>2
  <2>5. m - 1 \in 0..(m - 1)
    BY <2>2
  <2>6. DOMAIN g = 0..m /\ g = [i \in 0..m |-> g[i]]
    OBVIOUS
  <2> HIDE DEF g
  <2>7. ASSUME NEW i \in 0..m
        PROVE  g[i] = IF i = 0 THEN Start ELSE MergeStep(g[i - 1], found[i])
    <3>1. CASE i = m
      BY <2>2, <2>3, <2>4, <2>5, <3>1
    <3>2. CASE i # m
      <4>1. i \in 0..(m - 1) /\ (i # 0 => i - 1 \in 0..(m - 1))
        BY <2>2, <3>2
      <4>2. g[i] = f[i] /\ (i # 0 => g[i - 1] = f[i - 1])
        BY <2>3, <4>1
      <4>3. QED
        BY <2>1, <4>1, <4>2
    <3>3. QED
      BY <3>1, <3>2
  <2>8. Upto(g, m)
    BY <2>6, <2>7
  <2> HIDE DEF Upto
  <2>9. QED
    BY <2>2, <2>8
<1> HIDE DEF I
<1>3. n \in I
  <2>1. \A i \in 0..n : i \in I
    BY <1>1, <1>2, Induction
  <2>2. QED
    BY <2>1
<1>4. PICK f : Upto(f, n)
  BY <1>3 DEF I
<1>5. Loop(f, found)
  BY <1>4 DEF Loop
<1>6. QED
  BY <1>5

(* Consumers as the adapters make them. *)
WellFound(found) == IsList(found) /\ \A c \in ToSet(found) : Shaped(c) /\ Apart(c)

(* What the loop makes of the consumers found. *)
Gathered(cs, S) ==
    /\ IsList(cs)
    /\ \A i \in 1..Len(cs) : Shaped(cs[i]) /\ Apart(cs[i]) /\ Backed(cs[i], S)
    /\ \A i, j \in 1..Len(cs) : cs[i].id = cs[j].id => i = j
    /\ \A c \in S : \E i \in 1..Len(cs) : IDsOf(c) \subseteq IDsOf(cs[i]) /\ Holds(cs[i], c)
    /\ Transitive(S) =>
          /\ \A i, j \in 1..Len(cs) : Linked(cs[i], cs[j]) => i = j
          /\ \A i \in 1..Len(cs) : \A c, d \in Members(cs[i], S) : Linked(c, d)

(* By induction over the consumers found. *)
LEMMA LoopSound ==
    ASSUME NEW found, WellFound(found), NEW f, Loop(f, found)
    PROVE  /\ Sound(f[Len(found)], ToSet(found))
           /\ Transitive(ToSet(found)) => Separate(f[Len(found)], ToSet(found))
<1> DEFINE n == Len(found)
           S == ToSet(found)
           Upto(i) == {found[j] : j \in 1..i}
           I == {i \in 0..n : /\ Sound(f[i], Upto(i))
                              /\ Transitive(S) => Separate(f[i], Upto(i))}
<1>1. n \in Nat /\ IsList(found) /\ \A i \in 1..n : Shaped(found[i]) /\ Apart(found[i])
  BY Listed DEF WellFound
<1>2. 0 \in I
  <2>1. 0 \in 0..n /\ f[0] = Start
    BY <1>1 DEF Loop
  <2>2. Upto(0) = {}
    OBVIOUS
  <2>3. Start.order = <<>> /\ DOMAIN Start.byID = {} /\ DOMAIN Start.canon = {}
    BY DEF Start
  <2>4. Sound(Start, {})
    <3>1. InOrder(Start)
      BY <2>3, NoList DEF InOrder, NoRepeat
    <3>2. QED
      BY <2>3, <3>1 DEF Sound, Known
  <2>5. Separate(Start, {})
    BY <2>3 DEF Separate
  <2> HIDE DEF Upto
  <2>6. QED
    BY <2>1, <2>2, <2>4, <2>5
<1>3. ASSUME NEW i \in 1..n, i - 1 \in I PROVE i \in I
  <2>1. i \in Nat /\ i # 0 /\ i \in 0..n
    BY <1>1
  <2>2. f[i] = MergeStep(f[i - 1], found[i])
    BY <2>1 DEF Loop
  <2>3. 1..i = 1..(i - 1) \cup {i}
    BY <2>1
  <2>4. Upto(i) = Upto(i - 1) \cup {found[i]}
    BY <2>3
  <2>5. \A d \in Upto(i) : d \in S
    BY <1>1, Listed
  <2>6. \A d \in Upto(i) : Shaped(d)
    BY <2>5 DEF WellFound
  <2>7. Transitive(S) => Transitive(Upto(i))
    BY <2>5 DEF Transitive
  <2>8. /\ Sound(f[i - 1], Upto(i - 1))
        /\ Transitive(S) => Separate(f[i - 1], Upto(i - 1))
    BY <1>3
  <2>9. Shaped(found[i]) /\ Apart(found[i])
    BY <1>1
  <2> HIDE DEF Upto, S, n
  <2>10. \/ Begins(f[i - 1], f[i], found[i])
         \/ \E t : Extends(f[i - 1], f[i], found[i], t)
    BY <2>2, <2>8, <2>9, StepIs
  <2>11. CASE Begins(f[i - 1], f[i], found[i])
    <3>1. Sound(f[i], Upto(i))
      BY <2>4, <2>8, <2>9, <2>11, BeginsSound
    <3>2. ASSUME Transitive(S) PROVE Separate(f[i], Upto(i))
      <4>1. Separate(f[i - 1], Upto(i - 1)) /\ Transitive(Upto(i - 1) \cup {found[i]})
        BY <2>4, <2>7, <2>8, <3>2
      <4>2. Separate(f[i], Upto(i - 1) \cup {found[i]})
        BY <4>1, <2>8, <2>11, BeginsSeparate
      <4>3. QED
        BY <2>4, <4>2
    <3>3. QED
      BY <2>1, <3>1, <3>2
  <2>12. CASE \E t : Extends(f[i - 1], f[i], found[i], t)
    <3>0. PICK t : Extends(f[i - 1], f[i], found[i], t)
      BY <2>12
    <3>1. Sound(f[i], Upto(i))
      <4>1. \A d \in Upto(i - 1) : Shaped(d)
        BY <2>4, <2>6
      <4>2. Sound(f[i], Upto(i - 1) \cup {found[i]})
        BY <4>1, <2>8, <2>9, <3>0, ExtendsSound
      <4>3. QED
        BY <2>4, <4>2
    <3>2. ASSUME Transitive(S) PROVE Separate(f[i], Upto(i))
      <4>1. Separate(f[i - 1], Upto(i - 1)) /\ Transitive(Upto(i - 1) \cup {found[i]})
        BY <2>4, <2>7, <2>8, <3>2
      <4>2. Separate(f[i], Upto(i - 1) \cup {found[i]})
        BY <4>1, <2>8, <2>9, <3>0, ExtendsSeparate
      <4>3. QED
        BY <2>4, <4>2
    <3>3. QED
      BY <2>1, <3>1, <3>2
  <2>13. QED
    BY <2>10, <2>11, <2>12
<1>4. n \in I
  <2> HIDE DEF I
  <2>1. \A i \in 0..n : i \in I
    BY <1>1, <1>2, <1>3, Induction
  <2>2. QED
    BY <2>1, <1>1
<1>5. Upto(n) = S
  BY <1>1, Listed
<1>6. QED
  BY <1>4, <1>5

(* The records in the order they began. *)
LEMMA JoinedIs ==
    ASSUME NEW found, WellFound(found)
    PROVE  Gathered(Joined(found), ToSet(found))
<1> DEFINE f0 == CHOOSE f : Loop(f, found)
           all == f0[Len(found)]
           cs == [i \in 1..Len(all.order) |-> all.byID[all.order[i]]]
           S == ToSet(found)
<1>1. Joined(found) = cs
  BY DEF Joined, Loop, Start
<1>2. Loop(f0, found)
  <2>1. Len(found) \in Nat
    BY Listed DEF WellFound
  <2>2. QED
    BY <2>1, LoopRuns
<1> HIDE DEF f0
<1>3. Sound(all, S) /\ (Transitive(S) => Separate(all, S))
  BY <1>2, LoopSound
<1> HIDE DEF all
<1>4. /\ IsList(all.order) /\ Len(all.order) \in Nat
      /\ \A i \in 1..Len(all.order) : all.order[i] \in DOMAIN all.byID
      /\ \A t \in DOMAIN all.byID : \E i \in 1..Len(all.order) : all.order[i] = t
  BY <1>3, Listed DEF Sound, InOrder
<1>5. IsList(cs) /\ Len(cs) = Len(all.order)
  BY <1>4, ListOf
<1>6. \A i \in 1..Len(cs) : cs[i] = all.byID[all.order[i]] /\ all.order[i] \in DOMAIN all.byID
  BY <1>4, <1>5
<1>7. \A t \in DOMAIN all.byID : \E i \in 1..Len(cs) : cs[i] = all.byID[t]
  BY <1>4, <1>5
<1> HIDE DEF cs, S
<1>8. \A i \in 1..Len(cs) : Shaped(cs[i]) /\ Apart(cs[i]) /\ Backed(cs[i], S) /\ cs[i].id = all.order[i]
  BY <1>3, <1>6 DEF Sound
<1>9. ASSUME NEW i \in 1..Len(cs), NEW j \in 1..Len(cs), all.order[i] = all.order[j]
      PROVE  i = j
  BY <1>3, <1>5, <1>9 DEF Sound, InOrder, NoRepeat
<1>10. ASSUME NEW c \in S
       PROVE  \E i \in 1..Len(cs) : IDsOf(c) \subseteq IDsOf(cs[i]) /\ Holds(cs[i], c)
  <2>1. PICK t \in DOMAIN all.byID : IDsOf(c) \subseteq IDsOf(all.byID[t]) /\ Holds(all.byID[t], c)
    BY <1>3 DEF Sound
  <2>2. QED
    BY <1>7, <2>1
<1>11. ASSUME Transitive(S)
       PROVE  /\ \A i, j \in 1..Len(cs) : Linked(cs[i], cs[j]) => i = j
              /\ \A i \in 1..Len(cs) : \A c, d \in Members(cs[i], S) : Linked(c, d)
  <2>1. Separate(all, S)
    BY <1>3, <1>11
  <2>2. ASSUME NEW i \in 1..Len(cs), NEW j \in 1..Len(cs), Linked(cs[i], cs[j]) PROVE i = j
    <3>1. all.order[i] = all.order[j]
      BY <1>6, <2>1, <2>2 DEF Separate
    <3>2. QED
      BY <1>9, <3>1
  <2>3. QED
    BY <1>6, <2>1, <2>2 DEF Separate
<1>12. QED
  BY <1>1, <1>5, <1>8, <1>9, <1>10, <1>11 DEF Gathered, S

(***************************************************************************)
(* The fold of registry clients into the mesh.                             *)
(***************************************************************************)

(* The pairs of a record: each issuer with each audience. *)
LEMMA PairsAre ==
    ASSUME NEW c, Shaped(c)
    PROVE  /\ IsList(Pairs(c))
           /\ \A p : p \in ToSet(Pairs(c)) <=>
                        \E x \in ToSet(c.issuers), a \in ToSet(c.audiences) : p = <<x, a>>
<1> DEFINE n == Len(c.issuers)
           m == Len(c.audiences)
           row(i) == [j \in 1..m |-> <<c.issuers[i], c.audiences[j]>>]
           rows == [i \in 1..n |-> row(i)]
<1>1. /\ n \in Nat /\ m \in Nat
      /\ \A x : x \in ToSet(c.issuers) <=> \E i \in 1..n : c.issuers[i] = x
      /\ \A a : a \in ToSet(c.audiences) <=> \E j \in 1..m : c.audiences[j] = a
  BY Listed DEF Shaped
<1>2. ASSUME NEW i \in 1..n
      PROVE  IsList(row(i)) /\ ToSet(row(i)) = {<<c.issuers[i], c.audiences[j]>> : j \in 1..m}
  <2> DEFINE r == row(i)
  <2>1. DOMAIN r = 1..m /\ r = [j \in 1..m |-> r[j]] /\ \A j \in 1..m : r[j] = <<c.issuers[i], c.audiences[j]>>
    OBVIOUS
  <2> HIDE DEF r, m
  <2>2. IsList(r) /\ ToSet(r) = {r[j] : j \in 1..m}
    BY <1>1, <2>1, ListOf
  <2>3. QED
    BY <2>1, <2>2 DEF r
<1>3. IsList(rows) /\ Len(rows) = n /\ \A i \in 1..n : rows[i] = row(i)
  BY <1>1, ListOf
<1>4. Pairs(c) = FlattenSeq(rows)
  BY DEF Pairs
<1> HIDE DEF rows, row
<1>5. /\ IsList(FlattenSeq(rows))
      /\ \A p : p \in ToSet(FlattenSeq(rows)) <=> \E i \in 1..Len(rows) : p \in ToSet(rows[i])
  BY <1>2, <1>3, FlatIs
<1>6. \A p : p \in ToSet(Pairs(c)) <=> \E i \in 1..n, j \in 1..m : p = <<c.issuers[i], c.audiences[j]>>
  BY <1>2, <1>3, <1>4, <1>5
<1> HIDE DEF n, m
<1>7. QED
  BY <1>1, <1>4, <1>5, <1>6

(* Two records that expect an issuer and an audience in common. *)
Meet(c, d) ==
    /\ ToSet(c.issuers) \cap ToSet(d.issuers) # {}
    /\ ToSet(c.audiences) \cap ToSet(d.audiences) # {}

(* The record a client is folded into. *)
Into(cs, c) == Max(MeshWith(cs, Shared(cs, c)[1]))

(* It is one of the mesh, and shares a pair with the client. *)
LEMMA DroppedIs ==
    ASSUME NEW cs, IsList(cs), \A i \in 1..Len(cs) : Shaped(cs[i]), NEW c, Shaped(c)
    PROVE  /\ Dropped(cs, c) <=> IsOIDC(c) /\ \E i \in 1..Len(cs) : ~IsOIDC(cs[i]) /\ Meet(c, cs[i])
           /\ Dropped(cs, c) => /\ Into(cs, c) \in 1..Len(cs)
                                /\ ~IsOIDC(cs[Into(cs, c)]) /\ Meet(c, cs[Into(cs, c)])
<1> DEFINE P == ToSet(Pairs(c))
           K == {p \in P : MeshWith(cs, p) # {}}
           n == Len(cs)
<1>1. n \in Nat /\ DOMAIN cs = 1..n
  BY Listed
<1>2. IsList(Pairs(c)) /\ IsList(Shared(cs, c)) /\ ToSet(Shared(cs, c)) = P \cap K
  BY PairsAre, AmongIs DEF Shared
<1>3. ASSUME NEW i \in 1..n, NEW p
      PROVE  Contains(Pairs(cs[i]), p) <=> p \in ToSet(Pairs(cs[i]))
  <2>1. IsList(Pairs(cs[i]))
    BY PairsAre
  <2>2. QED
    BY <2>1, Listed DEF Contains
<1>4. \A p : MeshWith(cs, p) = {i \in 1..n : ~IsOIDC(cs[i]) /\ p \in ToSet(Pairs(cs[i]))}
  BY <1>1, <1>3 DEF MeshWith
<1>5. ASSUME NEW i \in 1..n
      PROVE  Meet(c, cs[i]) <=> \E p \in P : p \in ToSet(Pairs(cs[i]))
  <2>1. \A p : p \in P <=> \E x \in ToSet(c.issuers), a \in ToSet(c.audiences) : p = <<x, a>>
    BY PairsAre
  <2>2. \A p : p \in ToSet(Pairs(cs[i])) <=>
           \E x \in ToSet(cs[i].issuers), a \in ToSet(cs[i].audiences) : p = <<x, a>>
    BY PairsAre
  <2> HIDE DEF P
  <2>3. ASSUME Meet(c, cs[i]) PROVE \E p \in P : p \in ToSet(Pairs(cs[i]))
    <3>1. PICK x : x \in ToSet(c.issuers) /\ x \in ToSet(cs[i].issuers)
      BY <2>3 DEF Meet
    <3>2. PICK a : a \in ToSet(c.audiences) /\ a \in ToSet(cs[i].audiences)
      BY <2>3 DEF Meet
    <3>3. <<x, a>> \in P /\ <<x, a>> \in ToSet(Pairs(cs[i]))
      BY <2>1, <2>2, <3>1, <3>2
    <3>4. QED
      BY <3>3
  <2>4. ASSUME NEW p \in P, p \in ToSet(Pairs(cs[i])) PROVE Meet(c, cs[i])
    <3>1. PICK x \in ToSet(c.issuers), a \in ToSet(c.audiences) : p = <<x, a>>
      BY <2>1
    <3>2. PICK y \in ToSet(cs[i].issuers), b \in ToSet(cs[i].audiences) : p = <<y, b>>
      BY <2>2, <2>4
    <3>3. x = y /\ a = b
      BY <3>1, <3>2
    <3>4. QED
      BY <3>3 DEF Meet
  <2>5. QED
    BY <2>3, <2>4
<1>6. Shared(cs, c) # <<>> <=> \E p \in P : MeshWith(cs, p) # {}
  BY <1>2, Listed
<1>7. Dropped(cs, c) <=> IsOIDC(c) /\ \E i \in 1..n : ~IsOIDC(cs[i]) /\ Meet(c, cs[i])
  BY <1>4, <1>5, <1>6 DEF Dropped
<1>8. ASSUME Dropped(cs, c)
      PROVE  /\ Into(cs, c) \in 1..n
             /\ ~IsOIDC(cs[Into(cs, c)]) /\ Meet(c, cs[Into(cs, c)])
  <2> DEFINE p == Shared(cs, c)[1]
             M == MeshWith(cs, p)
  <2>1. p \in P /\ M # {}
    <3>1. Len(Shared(cs, c)) # 0
      BY <1>2, <1>8, EmptySeq DEF IsList, Dropped
    <3>2. 1 \in 1..Len(Shared(cs, c))
      BY <1>2, <3>1, Listed
    <3>3. p \in P \cap K
      BY <1>2, <3>2, Listed
    <3>4. QED
      BY <3>3
  <2>2. M \subseteq 1..n
    BY <1>4
  <2>3. IsFiniteSet(M) /\ M \subseteq Int
    <3>1. IsFiniteSet(1..n)
      BY <1>1, FS_Interval
    <3>2. QED
      BY <2>2, <3>1, FS_Subset
  <2> HIDE DEF M
  <2>4. PICK k \in M : \A x \in M : x <= k
    BY <2>1, <2>3, FiniteMax
  <2>5. \A x \in M : k >= x
    BY <2>3, <2>4
  <2>6. Max(M) \in M
    BY <2>4, <2>5 DEF Max
  <2>7. Into(cs, c) \in M
    BY <2>6 DEF Into, M
  <2>8. Into(cs, c) \in 1..n /\ ~IsOIDC(cs[Into(cs, c)]) /\ p \in ToSet(Pairs(cs[Into(cs, c)]))
    BY <1>4, <2>7 DEF M
  <2> HIDE DEF p
  <2>9. QED
    BY <1>5, <2>1, <2>8
<1>9. QED
  BY <1>7, <1>8

(* Two backed records back what they make together. *)
LEMMA BackedBoth ==
    ASSUME NEW r, NEW c, NEW S, Shaped(r), Shaped(c), Backed(r, S), Backed(c, S)
    PROVE  Backed(MergeConsumers(r, c), S)
<1> DEFINE m == MergeConsumers(r, c)
<1>1. /\ IDsOf(m) = IDsOf(r) \cup IDsOf(c)
      /\ ToSet(m.issuers) = ToSet(r.issuers) \cup ToSet(c.issuers)
      /\ ToSet(m.audiences) = ToSet(r.audiences) \cup ToSet(c.audiences)
      /\ m.claims = r.claims \cup c.claims
  BY MergedIs, MergedIDs
<1> HIDE DEF m
<1>2. Members(r, S) \subseteq Members(m, S) /\ Members(c, S) \subseteq Members(m, S)
  BY <1>1 DEF Members
<1>3. ToSet(m.issuers) \subseteq UNION {ToSet(d.issuers) : d \in Members(m, S)}
  BY <1>1, <1>2 DEF Backed
<1>4. ToSet(m.audiences) \subseteq UNION {ToSet(d.audiences) : d \in Members(m, S)}
  BY <1>1, <1>2 DEF Backed
<1>5. m.claims \subseteq UNION {d.claims : d \in Members(m, S)}
  BY <1>1, <1>2 DEF Backed
<1>6. \A x \in IDsOf(m) : \E d \in S : x \in IDsOf(d) /\ IDsOf(d) \subseteq IDsOf(m)
  BY <1>1 DEF Backed
<1>7. QED
  BY <1>3, <1>4, <1>5, <1>6 DEF Backed, m

(* Record j, when clients have been folded into it. *)
Enriched(r, cs, S, j) ==
    /\ Shaped(r) /\ r.id = cs[j].id
    /\ Holds(r, cs[j]) /\ IDsOf(cs[j]) \subseteq IDsOf(r)
    /\ Backed(r, S)
    /\ IsOIDC(cs[j]) => r = cs[j]
    /\ \A x \in IDsOf(r) :
          x \in IDsOf(cs[j]) \/ \E k \in 1..Len(cs) : /\ Dropped(cs, cs[k])
                                                      /\ Into(cs, cs[k]) = j /\ x = cs[k].id

(* The list, after the first i records have been looked at. *)
Folded(cs, list, S, i) ==
    /\ DOMAIN list = 1..Len(cs) /\ list = [j \in 1..Len(cs) |-> list[j]]
    /\ \A j \in 1..Len(cs) : Enriched(list[j], cs, S, j)
    /\ \A k \in 1..i : Dropped(cs, cs[k]) =>
          LET r == list[Into(cs, cs[k])] IN Holds(r, cs[k]) /\ cs[k].id \in IDsOf(r)

(* One more is looked at. *)
LEMMA FoldsIn ==
    ASSUME NEW cs, NEW S, Gathered(cs, S), NEW list, NEW i \in 1..Len(cs), Folded(cs, list, S, i - 1)
    PROVE  Folded(cs, FoldInto(cs, list, cs[i]), S, i)
<1> DEFINE n == Len(cs)
           c == cs[i]
           new == FoldInto(cs, list, c)
<1>1. /\ IsList(cs) /\ n \in Nat /\ i \in Nat /\ DOMAIN list = 1..n
      /\ \A j \in 1..n : Shaped(cs[j]) /\ Apart(cs[j]) /\ Backed(cs[j], S)
  BY Listed DEF Gathered, Folded
<1>2. \A k \in 1..i : k \in 1..(i - 1) \/ k = i
  BY <1>1
<1>3. CASE ~Dropped(cs, c)
  <2>1. new = list
    BY <1>3 DEF FoldInto
  <2>2. QED
    BY <1>2, <1>3, <2>1 DEF Folded
<1>4. CASE Dropped(cs, c)
  <2> DEFINE t == Into(cs, c)
             m == MergeConsumers(list[t], c)
  <2>1. t \in 1..n /\ ~IsOIDC(cs[t]) /\ IsOIDC(c)
    BY <1>1, <1>4, DroppedIs DEF Dropped
  <2>2. new = [list EXCEPT ![t] = m]
    BY <1>4 DEF FoldInto, Into
  <2>3. /\ DOMAIN new = 1..n /\ new = [j \in 1..n |-> new[j]] /\ new[t] = m
        /\ \A j \in 1..n : j # t => new[j] = list[j]
    <3> HIDE DEF n, t, m, new
    <3>1. QED
      BY <1>1, <2>1, <2>2
  <2>4. Enriched(list[t], cs, S, t)
    BY <2>1 DEF Folded
  <2>5. Shaped(list[t]) /\ Shaped(c) /\ Shaped(cs[t]) /\ Backed(c, S) /\ Apart(c)
    BY <1>1, <2>1, <2>4 DEF Enriched
  <2>6. /\ Shaped(m) /\ m.id = list[t].id /\ Holds(m, list[t]) /\ Holds(m, c)
        /\ IDsOf(m) = IDsOf(list[t]) \cup IDsOf(c)
    BY <2>5, MergedIs, MergedIDs
  <2>7. Backed(m, S)
    BY <2>4, <2>5, BackedBoth DEF Enriched
  <2>8. IDsOf(c) = {c.id}
    BY <2>1, <2>5 DEF Apart, IDsOf
  <2> HIDE DEF m, new, t
  <2>9. Holds(m, cs[t])
    BY <2>4, <2>5, <2>6, HoldsOnce DEF Enriched
  <2>10. \A x \in IDsOf(m) :
            x \in IDsOf(cs[t]) \/ \E k \in 1..Len(cs) : /\ Dropped(cs, cs[k])
                                                        /\ Into(cs, cs[k]) = t /\ x = cs[k].id
    <3>1. ASSUME NEW x \in IDsOf(m), x \in IDsOf(c)
          PROVE  \E k \in 1..Len(cs) : Dropped(cs, cs[k]) /\ Into(cs, cs[k]) = t /\ x = cs[k].id
      BY <1>4, <2>8, <3>1 DEF t
    <3>2. QED
      BY <2>4, <2>6, <3>1 DEF Enriched
  <2>11. Enriched(m, cs, S, t)
    BY <2>1, <2>4, <2>6, <2>7, <2>9, <2>10 DEF Enriched
  <2>12. \A j \in 1..n : Enriched(new[j], cs, S, j)
    BY <2>3, <2>11 DEF Folded
  <2>13. ASSUME NEW k \in 1..i, Dropped(cs, cs[k])
         PROVE  Holds(new[Into(cs, cs[k])], cs[k]) /\ cs[k].id \in IDsOf(new[Into(cs, cs[k])])
    <3>0. k \in 1..n /\ Into(cs, cs[k]) \in 1..n
      <4>1. k \in 1..n
        BY <1>1
      <4>2. QED
        BY <1>1, <2>13, <4>1, DroppedIs
    <3>1. CASE k = i
      BY <2>3, <2>6, <2>8, <3>1 DEF t
    <3>2. CASE k # i /\ Into(cs, cs[k]) = t
      <4>1. Holds(list[t], cs[k]) /\ cs[k].id \in IDsOf(list[t])
        BY <1>2, <2>13, <3>2 DEF Folded
      <4>2. Shaped(cs[k])
        BY <1>1, <3>0
      <4>3. QED
        BY <2>3, <2>5, <2>6, <3>2, <4>1, <4>2, HoldsOnce
    <3>3. CASE k # i /\ Into(cs, cs[k]) # t
      BY <1>2, <2>3, <2>13, <3>0, <3>3 DEF Folded
    <3>4. QED
      BY <3>1, <3>2, <3>3
  <2>14. QED
    BY <2>3, <2>12, <2>13 DEF Folded, new
<1>5. QED
  BY <1>3, <1>4

(* The lists of aliasFold, one after each record. *)
FoldLoop(f, cs) ==
    f = [i \in 0..Len(cs) |-> IF i = 0 THEN cs ELSE FoldInto(cs, f[i - 1], cs[i])]

(* Its recursion has a function, which goes through those lists. *)
LEMMA FoldLoopRuns ==
    ASSUME NEW cs, Len(cs) \in Nat
    PROVE  \E f : FoldLoop(f, cs)
<1> DEFINE n == Len(cs)
           Upto(f, m) == /\ DOMAIN f = 0..m /\ f = [i \in 0..m |-> f[i]]
                         /\ \A i \in 0..m :
                               f[i] = IF i = 0 THEN cs ELSE FoldInto(cs, f[i - 1], cs[i])
           I == {m \in Nat : \E f : Upto(f, m)}
<1>1. 0 \in I
  <2> DEFINE f == [i \in 0..0 |-> cs]
  <2>1. Upto(f, 0)
    OBVIOUS
  <2> HIDE DEF f, Upto
  <2>2. QED
    BY <2>1
<1>2. ASSUME NEW m \in 1..n, m - 1 \in I PROVE m \in I
  <2>1. PICK f : Upto(f, m - 1)
    BY <1>2
  <2> DEFINE g == [i \in 0..m |-> IF i = m THEN FoldInto(cs, f[m - 1], cs[m]) ELSE f[i]]
  <2>2. m \in Nat /\ m # 0 /\ m - 1 \in Nat
    OBVIOUS
  <2>3. \A i \in 0..(m - 1) : i \in 0..m /\ i # m /\ g[i] = f[i]
    BY <2>2
  <2>4. g[m] = FoldInto(cs, f[m - 1], cs[m])
    BY <2>2
  <2>5. m - 1 \in 0..(m - 1)
    BY <2>2
  <2>6. DOMAIN g = 0..m /\ g = [i \in 0..m |-> g[i]]
    OBVIOUS
  <2> HIDE DEF g
  <2>7. ASSUME NEW i \in 0..m
        PROVE  g[i] = IF i = 0 THEN cs ELSE FoldInto(cs, g[i - 1], cs[i])
    <3>1. CASE i = m
      BY <2>2, <2>3, <2>4, <2>5, <3>1
    <3>2. CASE i # m
      <4>1. i \in 0..(m - 1) /\ (i # 0 => i - 1 \in 0..(m - 1))
        BY <2>2, <3>2
      <4>2. g[i] = f[i] /\ (i # 0 => g[i - 1] = f[i - 1])
        BY <2>3, <4>1
      <4>3. QED
        BY <2>1, <4>1, <4>2
    <3>3. QED
      BY <3>1, <3>2
  <2>8. Upto(g, m)
    BY <2>6, <2>7
  <2> HIDE DEF Upto
  <2>9. QED
    BY <2>2, <2>8
<1> HIDE DEF I
<1>3. n \in I
  <2>1. \A i \in 0..n : i \in I
    BY <1>1, <1>2, Induction
  <2>2. QED
    BY <2>1
<1>4. PICK f : Upto(f, n)
  BY <1>3 DEF I
<1>5. FoldLoop(f, cs)
  BY <1>4 DEF FoldLoop
<1>6. QED
  BY <1>5

(* The list with every client folded, of which those folded are left out. *)
LEMMA AliasFoldIs ==
    ASSUME NEW cs, NEW S, Gathered(cs, S)
    PROVE  \E list : /\ Folded(cs, list, S, Len(cs)) /\ IsList(list) /\ Len(list) = Len(cs)
                     /\ AliasFold(cs) = Among(list, {c \in ToSet(list) : ~Dropped(cs, c)})
<1> DEFINE n == Len(cs)
           f0 == CHOOSE f : FoldLoop(f, cs)
           list == f0[n]
           I == {i \in 0..n : Folded(cs, f0[i], S, i)}
<1>1. n \in Nat /\ DOMAIN cs = 1..n /\ IsList(cs)
  BY Listed DEF Gathered
<1>2. FoldLoop(f0, cs)
  BY <1>1, FoldLoopRuns
<1>3. AliasFold(cs) = Among(list, {c \in ToSet(list) : ~Dropped(cs, c)})
  BY DEF AliasFold, FoldLoop
<1> HIDE DEF f0
<1>4. 0 \in I
  <2>1. 0 \in 0..n /\ f0[0] = cs /\ 1..0 = {}
    BY <1>1, <1>2 DEF FoldLoop
  <2>2. cs = [j \in 1..n |-> cs[j]]
    <3>1. cs \in Seq(ToSet(cs))
      BY <1>1 DEF IsList
    <3>2. QED
      BY <1>1, <3>1
  <2>3. \A j \in 1..n : Enriched(cs[j], cs, S, j)
    BY HoldsItself DEF Enriched, Gathered
  <2>4. Folded(cs, cs, S, 0)
    BY <1>1, <2>1, <2>2, <2>3 DEF Folded
  <2>5. QED
    BY <2>1, <2>4
<1>5. ASSUME NEW i \in 1..n, i - 1 \in I PROVE i \in I
  <2>1. i \in 0..n /\ i # 0
    BY <1>1
  <2>2. f0[i] = FoldInto(cs, f0[i - 1], cs[i])
    BY <1>2, <2>1 DEF FoldLoop
  <2>3. Folded(cs, f0[i - 1], S, i - 1)
    BY <1>5
  <2>4. QED
    BY <2>1, <2>2, <2>3, FoldsIn
<1>6. Folded(cs, list, S, n)
  <2> HIDE DEF I
  <2>1. \A i \in 0..n : i \in I
    BY <1>1, <1>4, <1>5, Induction
  <2>2. n \in I
    BY <1>1, <2>1
  <2>3. QED
    BY <2>2 DEF I
<1> HIDE DEF list
<1>7. IsList(list) /\ Len(list) = n
  BY <1>1, <1>6, ListOf DEF Folded
<1>8. QED
  BY <1>3, <1>6, <1>7

(* A client is linked to those of its own StableID alone. *)
LEMMA ClientsStandAlone ==
    ASSUME NEW found, WellFound(found),
           NEW c \in ToSet(found), NEW d \in ToSet(found), IsOIDC(c) \/ IsOIDC(d)
    PROVE  Linked(c, d) <=> c.id = d.id
<1>1. Apart(c) /\ Apart(d)
  BY DEF WellFound
<1>2. ASSUME Linked(c, d) PROVE c.id = d.id
  <2>1. PICK x : x \in IDsOf(c) /\ x \in IDsOf(d)
    BY <1>2 DEF Linked
  <2>2. IsOIDC(c) /\ IsOIDC(d)
    BY <1>1, <2>1 DEF Apart
  <2>3. x = c.id /\ x = d.id
    BY <1>1, <2>1, <2>2 DEF Apart, IDsOf
  <2>4. QED
    BY <2>3
<1>3. ASSUME c.id = d.id PROVE Linked(c, d)
  BY <1>3 DEF Linked, IDsOf
<1>4. QED
  BY <1>2, <1>3

(* So what is transitive in the mesh is transitive. *)
LEMMA MeshDecides ==
    ASSUME NEW found, WellFound(found), Transitive(MeshIn(found))
    PROVE  Transitive(ToSet(found))
<1> SUFFICES ASSUME NEW c \in ToSet(found), NEW d \in ToSet(found), NEW e \in ToSet(found),
                    Linked(c, d), Linked(d, e)
             PROVE  Linked(c, e)
  BY DEF Transitive
<1>1. CASE IsOIDC(c) \/ IsOIDC(d) \/ IsOIDC(e)
  <2>1. \A x, y \in ToSet(found) : x.id = y.id => (IsOIDC(x) <=> IsOIDC(y))
    BY DEF IsOIDC
  <2>2. \A x, y \in ToSet(found) : IsOIDC(x) \/ IsOIDC(y) => (Linked(x, y) <=> x.id = y.id)
    BY ClientsStandAlone
  <2>3. IsOIDC(c) /\ IsOIDC(d) /\ IsOIDC(e)
    BY <1>1, <2>1, <2>2
  <2>4. QED
    BY <2>2, <2>3
<1>2. CASE ~IsOIDC(c) /\ ~IsOIDC(d) /\ ~IsOIDC(e)
  BY <1>2 DEF Transitive, MeshIn
<1>3. QED
  BY <1>1, <1>2

(* What the merge makes is faithful to what it is given, for any consumers *)
(* any sources have found, in any order: nothing is lost, nothing made up, *)
(* and no two services are thrown together (discovery.Merge, aliasFold).   *)
THEOREM MergeIsFaithful ==
    ASSUME NEW found, WellFound(found)
    PROVE  Faithful(found, Merge(found))
<1> DEFINE S    == ToSet(found)
           cs   == Joined(found)
           n    == Len(cs)
           out  == Merge(found)
           mesh == MeshIn(found)
<1>1. Gathered(cs, S)
  BY JoinedIs
<1>2. PICK list : /\ Folded(cs, list, S, n) /\ IsList(list) /\ Len(list) = n
                  /\ out = Among(list, {c \in ToSet(list) : ~Dropped(cs, c)})
  BY <1>1, AliasFoldIs DEF Merge
<1>3. IsList(out) /\ ToSet(out) = {c \in ToSet(list) : ~Dropped(cs, c)}
  <2>1. /\ IsList(out)
        /\ ToSet(out) = ToSet(list) \cap {c \in ToSet(list) : ~Dropped(cs, c)}
    BY <1>2, AmongIs
  <2>2. QED
    BY <2>1
<1> HIDE DEF cs, out, n
<1>4. /\ IsList(cs) /\ n \in Nat
      /\ \A j \in 1..n : Shaped(cs[j]) /\ Apart(cs[j]) /\ Backed(cs[j], S)
      /\ \A j \in 1..n : Enriched(list[j], cs, S, j)
      /\ \A c \in S : Shaped(c) /\ Apart(c)
  BY <1>1, <1>2, Listed DEF Gathered, Folded, WellFound, n
<1>5. \A j \in 1..n : Dropped(cs, list[j]) <=> Dropped(cs, cs[j])
  BY <1>4 DEF Enriched, Dropped, IsOIDC
<1>6. \A r : r \in ToSet(out) <=> \E j \in 1..n : r = list[j] /\ ~Dropped(cs, cs[j])
  <2>1. Len(list) = n /\ \A x : x \in ToSet(list) <=> \E j \in 1..n : list[j] = x
    BY <1>2, Listed
  <2>2. QED
    BY <1>3, <1>5, <2>1
<1>7. ASSUME NEW j \in 1..n, Dropped(cs, cs[j])
      PROVE  /\ Into(cs, cs[j]) \in 1..n /\ ~IsOIDC(cs[Into(cs, cs[j])])
             /\ Meet(cs[j], cs[Into(cs, cs[j])]) /\ list[Into(cs, cs[j])] \in ToSet(out)
             /\ IsOIDC(cs[j])
             /\ Holds(list[Into(cs, cs[j])], cs[j]) /\ cs[j].id \in IDsOf(list[Into(cs, cs[j])])
  <2> DEFINE t == Into(cs, cs[j])
  <2>1. t \in 1..n /\ ~IsOIDC(cs[t]) /\ Meet(cs[j], cs[t])
    BY <1>4, <1>7, DroppedIs DEF n
  <2>2. list[t] \in ToSet(out)
    BY <1>6, <2>1 DEF Dropped
  <2>3. Holds(list[t], cs[j]) /\ cs[j].id \in IDsOf(list[t])
    BY <1>2, <1>7 DEF Folded, n
  <2>4. QED
    BY <1>7, <2>1, <2>2, <2>3 DEF Dropped
<1>8. ASSUME NEW c \in S, NEW j \in 1..n, IDsOf(c) \subseteq IDsOf(cs[j]), Holds(cs[j], c)
      PROVE  /\ ~Dropped(cs, cs[j]) => Covers(list[j], c)
             /\ Dropped(cs, cs[j]) => Covers(list[Into(cs, cs[j])], c)
  <2>1. ASSUME ~Dropped(cs, cs[j]) PROVE Holds(list[j], c) /\ c.id \in IDsOf(list[j])
    <3>1. /\ Shaped(list[j]) /\ Shaped(cs[j]) /\ Shaped(c)
          /\ Holds(list[j], cs[j]) /\ IDsOf(cs[j]) \subseteq IDsOf(list[j])
      BY <1>4 DEF Enriched
    <3>2. QED
      BY <1>8, <3>1, HoldsOnce DEF IDsOf
  <2>2. ASSUME Dropped(cs, cs[j])
        PROVE  Holds(list[Into(cs, cs[j])], c) /\ c.id \in IDsOf(list[Into(cs, cs[j])])
    <3> DEFINE t == Into(cs, cs[j])
    <3>1. t \in 1..n /\ IsOIDC(cs[j]) /\ Holds(list[t], cs[j]) /\ cs[j].id \in IDsOf(list[t])
      BY <1>7, <2>2
    <3>2. Shaped(list[t]) /\ Shaped(cs[j]) /\ Shaped(c) /\ Apart(cs[j])
      BY <1>4, <3>1 DEF Enriched
    <3> HIDE DEF t
    <3>3. Holds(list[t], c)
      BY <1>8, <3>1, <3>2, HoldsOnce
    <3>4. c.id = cs[j].id
      BY <1>8, <3>1, <3>2 DEF Apart, IDsOf
    <3>5. QED
      BY <3>1, <3>3, <3>4 DEF t
  <2>3. QED
    BY <2>1, <2>2 DEF Holds, Covers
<1>9. \A c \in S : \E r \in ToSet(out) : Covers(r, c)
  <2> SUFFICES ASSUME NEW c \in S PROVE \E r \in ToSet(out) : Covers(r, c)
    OBVIOUS
  <2>1. PICK j \in 1..n : IDsOf(c) \subseteq IDsOf(cs[j]) /\ Holds(cs[j], c)
    BY <1>1 DEF Gathered, n
  <2>2. QED
    BY <1>6, <1>7, <1>8, <2>1
<1>10. \A r \in ToSet(out) : /\ ToSet(r.issuers) \subseteq IssuersOf(Members(r, S))
                             /\ ToSet(r.audiences) \subseteq AudiencesOf(Members(r, S))
                             /\ r.claims \subseteq UNION {c.claims : c \in Members(r, S)}
  BY <1>4, <1>6 DEF Enriched, Backed, IssuersOf, AudiencesOf
<1>11. \A i, j \in DOMAIN out : out[i].id = out[j].id => i = j
  <2>1. \A i, j \in 1..n : list[i].id = list[j].id => i = j
    BY <1>1, <1>4 DEF Enriched, Gathered, n
  <2>2. NoRepeat(list)
    BY <1>2, <2>1 DEF NoRepeat
  <2>3. NoRepeat(out)
    BY <1>2, <2>2, AmongIs
  <2>4. DOMAIN out = 1..Len(out) /\ \A i \in 1..Len(out) : out[i] \in ToSet(out)
    BY <1>3, Listed
  <2>5. QED
    BY <1>6, <2>1, <2>3, <2>4 DEF NoRepeat
<1>12. ASSUME Transitive(mesh)
       PROVE  /\ \A c, d \in mesh :
                    Linked(c, d) <=> \E r \in ToSet(out) : Covers(r, c) /\ Covers(r, d)
              /\ \A c \in ClientsIn(found), r \in ToSet(out) :
                    /\ c.id \in ToSet(r.aliases) => SharePair(Namesakes(c, found), r, found)
                    /\ c.id = r.id => \A s \in ToSet(out) : ~SharePair(Namesakes(c, found), s, found)
  <2>1. Transitive(S)
    BY <1>12, MeshDecides
  <2>2. /\ \A i, j \in 1..n : Linked(cs[i], cs[j]) => i = j
        /\ \A i \in 1..n : \A c, d \in Members(cs[i], S) : Linked(c, d)
        /\ \A c \in S : \E i \in 1..n : IDsOf(c) \subseteq IDsOf(cs[i]) /\ Holds(cs[i], c)
    BY <1>1, <2>1 DEF Gathered, n
  (* An identity of the mesh in a record was there before the fold. *)
  <2>3. ASSUME NEW c \in S, ~IsOIDC(c), NEW j \in 1..n, c.id \in IDsOf(list[j])
        PROVE  c.id \in IDsOf(cs[j]) /\ ~IsOIDC(cs[j])
    <3>1. c.id[1] # "oidc"
      BY <1>4, <2>3 DEF IsOIDC
    <3>2. ASSUME NEW k \in 1..n, Dropped(cs, cs[k]) PROVE c.id # cs[k].id
      BY <3>1, <3>2 DEF Dropped, IsOIDC
    <3>3. c.id \in IDsOf(cs[j])
      BY <1>4, <2>3, <3>2 DEF Enriched, n
    <3>4. QED
      BY <1>4, <3>1, <3>3 DEF Apart
  (* Where a consumer is, if its identity is there. *)
  <2>4. ASSUME NEW c \in S, NEW j \in 1..n, c.id \in IDsOf(cs[j])
        PROVE  IDsOf(c) \subseteq IDsOf(cs[j]) /\ Holds(cs[j], c)
    <3>1. PICK i \in 1..n : IDsOf(c) \subseteq IDsOf(cs[i]) /\ Holds(cs[i], c)
      BY <2>2
    <3>2. Linked(cs[i], cs[j])
      BY <2>4, <3>1 DEF Linked, IDsOf
    <3>3. QED
      BY <2>2, <3>1, <3>2
  <2>5. ASSUME NEW c \in mesh, NEW d \in mesh, Linked(c, d)
        PROVE  \E r \in ToSet(out) : Covers(r, c) /\ Covers(r, d)
    <3>1. PICK i \in 1..n : IDsOf(c) \subseteq IDsOf(cs[i]) /\ Holds(cs[i], c)
      BY <2>2 DEF MeshIn
    <3>2. PICK j \in 1..n : IDsOf(d) \subseteq IDsOf(cs[j]) /\ Holds(cs[j], d)
      BY <2>2 DEF MeshIn
    <3>3. i = j
      BY <2>2, <2>5, <3>1, <3>2 DEF Linked
    <3>4. ~Dropped(cs, cs[i])
      BY <1>4, <3>1 DEF Dropped, Apart, IDsOf, IsOIDC, MeshIn
    <3>5. Covers(list[i], c) /\ Covers(list[i], d)
      BY <1>8, <3>1, <3>2, <3>3, <3>4 DEF MeshIn
    <3>6. QED
      BY <1>6, <3>4, <3>5
  <2>6. ASSUME NEW c \in mesh, NEW d \in mesh, NEW r \in ToSet(out), Covers(r, c), Covers(r, d)
        PROVE  Linked(c, d)
    <3>1. PICK j \in 1..n : r = list[j]
      BY <1>6
    <3>2. c.id \in IDsOf(cs[j]) /\ d.id \in IDsOf(cs[j])
      BY <2>3, <2>6, <3>1 DEF Covers, MeshIn
    <3>3. QED
      BY <2>2, <3>2 DEF Members, MeshIn
  <2>7. ASSUME NEW c \in ClientsIn(found), NEW r \in ToSet(out), c.id \in ToSet(r.aliases)
        PROVE  SharePair(Namesakes(c, found), r, found)
    <3> DEFINE same == Namesakes(c, found)
               part == Members(r, mesh)
    <3>1. PICK j \in 1..n : r = list[j] /\ ~Dropped(cs, cs[j])
      BY <1>6
    <3>2. c \in S /\ IsOIDC(c) /\ c.id \in IDsOf(list[j])
      BY <2>7, <3>1 DEF IDsOf, ClientsIn
    <3>3. ~IsOIDC(cs[j])
      <4>1. ASSUME IsOIDC(cs[j]) PROVE FALSE
        <5>1. r = cs[j] /\ Apart(cs[j])
          BY <1>4, <3>1, <4>1 DEF Enriched
        <5>2. QED
          BY <2>7, <4>1, <5>1 DEF Apart
      <4>2. QED
        BY <4>1
    <3>4. c.id \notin IDsOf(cs[j])
      BY <1>4, <3>2, <3>3 DEF Apart, IsOIDC
    <3>5. PICK k \in 1..n : Dropped(cs, cs[k]) /\ Into(cs, cs[k]) = j /\ c.id = cs[k].id
      BY <1>4, <3>2, <3>4 DEF Enriched, n
    <3>6. Meet(cs[k], cs[j]) /\ IsOIDC(cs[k])
      BY <1>7, <3>5
    <3>7. Members(cs[k], S) \subseteq same
      <4>1. ASSUME NEW d \in Members(cs[k], S) PROVE d \in same
        <5>1. d \in S /\ d.id = c.id
          BY <1>4, <3>5, <3>6 DEF Members, Apart, IDsOf
        <5>2. IsOIDC(d)
          BY <3>2, <5>1 DEF IsOIDC
        <5>3. QED
          BY <5>1, <5>2 DEF Namesakes, ClientsIn
      <4>2. QED
        BY <4>1
    <3>8. Members(cs[j], S) \subseteq part
      <4>1. ASSUME NEW d \in Members(cs[j], S) PROVE d \in part
        <5>1. d \in S /\ d.id \in IDsOf(cs[j]) /\ IDsOf(cs[j]) \subseteq IDsOf(r)
          BY <1>4, <3>1 DEF Members, Enriched
        <5>2. ~IsOIDC(d)
          BY <1>4, <3>3, <5>1 DEF Apart, IsOIDC
        <5>3. QED
          BY <5>1, <5>2 DEF Members, MeshIn
      <4>2. QED
        BY <4>1
    <3> HIDE DEF same, part
    <3>9. /\ ToSet(cs[k].issuers) \subseteq IssuersOf(same)
          /\ ToSet(cs[k].audiences) \subseteq AudiencesOf(same)
      BY <1>4, <3>7 DEF Backed, IssuersOf, AudiencesOf
    <3>10. /\ ToSet(cs[j].issuers) \subseteq IssuersOf(part)
           /\ ToSet(cs[j].audiences) \subseteq AudiencesOf(part)
      BY <1>4, <3>8 DEF Backed, IssuersOf, AudiencesOf
    <3>11. /\ IssuersOf(same) \cap IssuersOf(part) # {}
           /\ AudiencesOf(same) \cap AudiencesOf(part) # {}
      BY <3>6, <3>9, <3>10 DEF Meet
    <3>12. QED
      BY <3>11 DEF SharePair, same, part
  <2>8. ASSUME NEW c \in ClientsIn(found), NEW r \in ToSet(out), c.id = r.id, NEW s \in ToSet(out),
               SharePair(Namesakes(c, found), s, found)
        PROVE  FALSE
    <3> DEFINE part == Members(s, mesh)
    <3>1. PICK j \in 1..n : r = list[j] /\ ~Dropped(cs, cs[j])
      BY <1>6
    <3>2. cs[j].id = c.id /\ IsOIDC(cs[j])
      BY <1>4, <2>8, <3>1 DEF Enriched, IsOIDC, ClientsIn
    <3>3. ASSUME NEW d \in Namesakes(c, found) PROVE Holds(cs[j], d)
      <4>1. d \in S /\ d.id \in IDsOf(cs[j])
        BY <3>2 DEF Namesakes, ClientsIn, IDsOf
      <4>2. QED
        BY <2>4, <4>1
    <3>4. PICK k \in 1..n : s = list[k]
      BY <1>6
    <3>5. ASSUME NEW d \in part PROVE Holds(cs[k], d) /\ ~IsOIDC(cs[k])
      <4>1. d \in S /\ ~IsOIDC(d) /\ d.id \in IDsOf(list[k])
        BY <3>4 DEF Members, MeshIn
      <4>2. d.id \in IDsOf(cs[k]) /\ ~IsOIDC(cs[k])
        BY <2>3, <4>1
      <4>3. QED
        BY <2>4, <4>1, <4>2
    <3>6. PICK x : \E d \in Namesakes(c, found), e \in part :
                      x \in ToSet(d.issuers) /\ x \in ToSet(e.issuers)
      BY <2>8 DEF SharePair, IssuersOf
    <3>7. PICK a : \E d \in Namesakes(c, found), e \in part :
                      a \in ToSet(d.audiences) /\ a \in ToSet(e.audiences)
      BY <2>8 DEF SharePair, AudiencesOf
    <3> HIDE DEF part
    <3>8. x \in ToSet(cs[j].issuers) /\ x \in ToSet(cs[k].issuers) /\ ~IsOIDC(cs[k])
      BY <3>3, <3>5, <3>6 DEF Holds
    <3>9. a \in ToSet(cs[j].audiences) /\ a \in ToSet(cs[k].audiences)
      BY <3>3, <3>5, <3>7 DEF Holds
    <3>10. Meet(cs[j], cs[k])
      BY <3>8, <3>9 DEF Meet
    <3>11. Dropped(cs, cs[j])
      BY <1>4, <3>2, <3>8, <3>10, DroppedIs DEF n
    <3>12. QED
      BY <3>1, <3>11
  <2> HIDE DEF mesh
  <2>9. QED
    BY <2>5, <2>6, <2>7, <2>8
<1>13. QED
  BY <1>9, <1>10, <1>11, <1>12 DEF Faithful, out

(***************************************************************************)
(* What an adapter makes of the documents is fit to be merged.             *)
(***************************************************************************)

(* A consumer known by its identity alone has all its fields. *)
LEMMA BareIs ==
    ASSUME NEW id, NEW kind, NEW name, NEW ns
    PROVE  DOMAIN Bare(id, kind, name, ns) = ConsumerFields
BY DEF Bare, ConsumerFields

(* No StableID of the mesh reads like a client's (StableID). *)
LEMMA MeshIDs ==
    ASSUME NEW parts
    PROVE  StableID(parts)[1] # "oidc"
<1>1. CASE parts.account # ""
  BY <1>1 DEF StableID
<1>2. CASE parts.account = "" /\ parts.service # ""
  BY <1>2 DEF StableID
<1>3. CASE parts.account = "" /\ ~(parts.service # "")
  BY <1>3 DEF StableID
<1>4. QED
  BY <1>1, <1>2, <1>3

(* What has no such ID is not a client. *)
LEMMA MeshIsApart ==
    ASSUME NEW c, c.id[1] # "oidc", \A x \in ToSet(c.aliases) : x[1] # "oidc"
    PROVE  Apart(c) /\ ~IsOIDC(c)
BY DEF Apart, IDsOf, IsOIDC

(* Declared values are certain. *)
LEMMA DeclaredIsRated == Rated(Declared) /\ \A f \in DOMAIN Declared : Declared[f] = 100
BY DEF Declared, Rated

(* The consumer of a RequestAuthentication. *)
LEMMA RequestAuthenticationIs ==
    ASSUME NEW ra, NEW scope, IsList(ra.rules), \A r \in ToSet(ra.rules) : IsList(r.audiences)
    PROVE  LET c == RequestAuthenticationConsumer(ra, scope)
           IN  Shaped(c) /\ Apart(c) /\ ~IsOIDC(c) /\ c.confidence = Declared
<1> DEFINE ns   == NsOrDefault(ra.ns)
           name == WorkloadName(ra.selector, ra.name)
           id   == ServiceID(scope, ns, "", name)
           bare == Bare(id, "service", name, ns)
           issuerOf == [i \in DOMAIN ra.rules |-> ra.rules[i].issuer]
           audiencesOf == [i \in DOMAIN ra.rules |-> ra.rules[i].audiences]
           uris == NonEmpty([i \in DOMAIN ra.rules |-> ra.rules[i].jwksURI])
           issuers == NonEmpty(issuerOf)
           audiences == NonEmpty(FlattenSeq(audiencesOf))
           uri == IF uris = <<>> THEN "" ELSE uris[1]
           c == RequestAuthenticationConsumer(ra, scope)
<1>1. c = [bare EXCEPT !.owner = OwnerTeam(ra.labels), !.issuers = UnionAll(<<>>, issuers),
                       !.audiences = UnionAll(<<>>, audiences), !.jwksURI = uri,
                       !.confidence = Declared, !.probeable = TRUE]
  BY DEF RequestAuthenticationConsumer
<1>2. IsList(UnionAll(<<>>, issuers))
  <2>1. IsList(issuerOf)
    BY Mapped
  <2> HIDE DEF issuerOf
  <2>2. QED
    BY <2>1, NonEmptyIs, UnionAllIs, NoList
<1>3. IsList(UnionAll(<<>>, audiences))
  <2>1. IsList(audiencesOf) /\ \A i \in 1..Len(audiencesOf) : IsList(audiencesOf[i])
    <3>1. IsList(audiencesOf) /\ Len(audiencesOf) = Len(ra.rules) /\ DOMAIN ra.rules = 1..Len(ra.rules)
      BY Mapped, Listed
    <3>2. \A i \in 1..Len(ra.rules) : ra.rules[i] \in ToSet(ra.rules)
      BY Listed
    <3>3. QED
      BY <3>1, <3>2
  <2> HIDE DEF audiencesOf
  <2>2. IsList(FlattenSeq(audiencesOf))
    BY <2>1, FlatIs
  <2>3. QED
    BY <2>2, NonEmptyIs, UnionAllIs, NoList
<1>4. id[1] # "oidc"
  BY MeshIDs DEF ServiceID
<1> HIDE DEF issuers, audiences, uri, ns, name, id
<1>5. bare.id = id /\ bare.aliases = <<>> /\ DOMAIN bare = ConsumerFields
  BY BareIs DEF Bare
<1> HIDE DEF bare, c
<1>6. /\ DOMAIN c = ConsumerFields /\ c.id = id /\ c.aliases = <<>>
      /\ c.issuers = UnionAll(<<>>, issuers) /\ c.audiences = UnionAll(<<>>, audiences)
      /\ c.confidence = Declared
  BY <1>1, <1>5 DEF ConsumerFields
<1>7. Shaped(c)
  BY <1>2, <1>3, <1>6, NoList, DeclaredIsRated DEF Shaped
<1>8. Apart(c) /\ ~IsOIDC(c)
  BY <1>4, <1>6, NoList, MeshIsApart
<1>9. QED
  BY <1>6, <1>7, <1>8 DEF c

(* What an adapter of the mesh finds. *)
MeshFound(found) == IsList(found) /\ \A c \in ToSet(found) : Shaped(c) /\ Apart(c) /\ ~IsOIDC(c)

(* Documents of some kinds, out of all. *)
LEMMA OfKindIs ==
    ASSUME NEW docs, NEW kinds, WellFormedDocs(docs)
    PROVE  /\ IsList(OfKind(docs, kinds))
           /\ \A d \in ToSet(OfKind(docs, kinds)) : d \in ToSet(docs) /\ d.kind \in kinds /\ WellFormed(d)
<1>1. /\ IsList(OfKind(docs, kinds))
      /\ ToSet(OfKind(docs, kinds)) = ToSet(docs) \cap {d \in ToSet(docs) : d.kind \in kinds}
  BY AmongIs DEF OfKind, WellFormedDocs
<1>2. QED
  BY <1>1 DEF WellFormedDocs

(* Policies add claims to it, which are certain too (assemble). *)
LEMMA AssembleIs ==
    ASSUME NEW docs, NEW scope, WellFormedDocs(docs)
    PROVE  MeshFound(Assemble(docs, scope))
<1> DEFINE found == OfKind(docs, {"RequestAuthentication"})
           kept  == {r \in ToSet(found) : r.rules # <<>> /\ InScope(scope, r.ns)}
           ras   == Among(found, kept)
           policies == {p \in ToSet(OfKind(docs, {"AuthorizationPolicy"})) : InScope(scope, p.ns)}
           Require(c) ==
               LET claims == UNION {RequiredClaims(p) : p \in {q \in policies : Applies(q, c)}}
               IN  IF claims = {} THEN c
                   ELSE [c EXCEPT !.claims = claims,
                                  !.confidence = [f \in DOMAIN @ \cup {FieldRequiredClaims} |->
                                                     IF f = FieldRequiredClaims THEN 100 ELSE @[f]]]
           out == [i \in 1..Len(ras) |-> Require(RequestAuthenticationConsumer(ras[i], scope))]
<1>1. Assemble(docs, scope) = out
  BY DEF Assemble
<1>2. IsList(ras) /\ \A r \in ToSet(ras) : IsList(r.rules) /\ \A q \in ToSet(r.rules) : IsList(q.audiences)
  <2>1. IsList(found) /\ \A r \in ToSet(found) : r.kind = "RequestAuthentication" /\ WellFormed(r)
    BY OfKindIs
  <2>2. IsList(ras) /\ ToSet(ras) = ToSet(found) \cap kept
    <3> HIDE DEF found, kept
    <3>1. QED
      BY <2>1, AmongIs
  <2>3. QED
    BY <2>1, <2>2 DEF WellFormed
<1>3. ASSUME NEW c, Shaped(c), Apart(c), ~IsOIDC(c), c.confidence = Declared
      PROVE  Shaped(Require(c)) /\ Apart(Require(c)) /\ ~IsOIDC(Require(c))
  <2> DEFINE claims == UNION {RequiredClaims(p) : p \in {q \in policies : Applies(q, c)}}
             confidence == [f \in DOMAIN c.confidence \cup {FieldRequiredClaims} |->
                               IF f = FieldRequiredClaims THEN 100 ELSE c.confidence[f]]
             d == [c EXCEPT !.claims = claims, !.confidence = confidence]
  <2>1. Require(c) = IF claims = {} THEN c ELSE d
    OBVIOUS
  <2>2. Rated(confidence)
    BY <1>3, DeclaredIsRated DEF Rated
  <2> HIDE DEF claims, confidence
  <2>3. /\ DOMAIN d = ConsumerFields /\ d.id = c.id /\ d.aliases = c.aliases
        /\ d.issuers = c.issuers /\ d.audiences = c.audiences /\ d.confidence = confidence
    BY <1>3 DEF Shaped, ConsumerFields
  <2> HIDE DEF d
  <2>4. Shaped(d)
    BY <1>3, <2>2, <2>3 DEF Shaped
  <2>5. Apart(d) /\ ~IsOIDC(d)
    BY <1>3, <2>3 DEF Apart, IDsOf, IsOIDC
  <2> HIDE DEF Require
  <2>6. QED
    BY <1>3, <2>1, <2>4, <2>5
<1>4. ASSUME NEW r \in ToSet(ras)
      PROVE  LET c == Require(RequestAuthenticationConsumer(r, scope))
             IN  Shaped(c) /\ Apart(c) /\ ~IsOIDC(c)
  <2> DEFINE c == RequestAuthenticationConsumer(r, scope)
  <2>1. Shaped(c) /\ Apart(c) /\ ~IsOIDC(c) /\ c.confidence = Declared
    BY <1>2, RequestAuthenticationIs
  <2> HIDE DEF c
  <2>2. Shaped(Require(c)) /\ Apart(Require(c)) /\ ~IsOIDC(Require(c))
    BY <1>3, <2>1
  <2>3. QED
    BY <2>2 DEF c
<1> HIDE DEF ras, Require
<1>5. IsList(out) /\ \A c \in ToSet(out) : \E i \in 1..Len(ras) : c = out[i]
  <2>1. Len(ras) \in Nat
    BY <1>2, Listed
  <2>2. QED
    BY <2>1, ListOf
<1>6. \A i \in 1..Len(ras) : ras[i] \in ToSet(ras)
  BY <1>2, Listed
<1>7. \A c \in ToSet(out) : Shaped(c) /\ Apart(c) /\ ~IsOIDC(c)
  BY <1>4, <1>5, <1>6
<1> HIDE DEF out
<1>8. QED
  BY <1>1, <1>5, <1>7 DEF MeshFound

(* Hints of the environment are a list. *)
LEMMA HintsAre ==
    ASSUME NEW w, NEW role, IsList(w.env)
    PROVE  IsList(EnvHints(w, role))
<1> DEFINE hints == Among(w.env, {e \in ToSet(w.env) : e.role = role})
           values == [i \in DOMAIN hints |-> hints[i].value]
<1>1. IsList(hints)
  BY AmongIs
<1> HIDE DEF hints
<1>2. IsList(values)
  BY <1>1, Mapped
<1> HIDE DEF values
<1>3. IsList(UnionAll(<<>>, NonEmpty(values)))
  BY <1>2, NonEmptyIs, UnionAllIs, NoList
<1>4. QED
  BY <1>3 DEF EnvHints, hints, values

(* The consumer of a workload, known by its account or its service. *)
LEMMA WorkloadIs ==
    ASSUME NEW w, NEW docs, NEW scope, IsList(w.env)
    PROVE  LET c == WorkloadConsumer(w, docs, scope)
           IN  Shaped(c) /\ Apart(c) /\ ~IsOIDC(c)
<1> DEFINE ns        == NsOrDefault(w.ns)
           podLabels == w.podLabels @@ w.labels
           hinted    == EnvHints(w, "AUDIENCE")
           issuers   == EnvHints(w, "ISSUER")
           matched   == MatchService(docs, ns, podLabels)
           service   == IF matched = <<>> THEN w.name ELSE matched[1].name
           account   == ProvenAccount(w)
           id        == ServiceID(scope, ns, account, service)
           serviceID == ServiceID(scope, ns, "", service)
           endpoints == IF matched = <<>> THEN {} ELSE ServiceEndpoints(matched[1], ns)
           bare      == Bare(id, "service", service, ns)
           aliases   == IF account # "" /\ serviceID # id THEN <<serviceID>> ELSE <<>>
           audiences == IF ProjectedAudience(w) = "" THEN hinted
                        ELSE AppendUnique(hinted, ProjectedAudience(w))
           confidence == [overall |-> WorkloadConfidence(w, issuers \o hinted)]
           owner == OwnerTeam(podLabels)
           probeable == endpoints # {}
           c == WorkloadConsumer(w, docs, scope)
<1>1. c = [bare EXCEPT !.aliases = aliases, !.owner = owner, !.endpoints = endpoints,
                       !.issuers = issuers, !.audiences = audiences, !.confidence = confidence,
                       !.probeable = probeable]
  BY DEF WorkloadConsumer
<1>2. IsList(issuers) /\ IsList(hinted)
  BY HintsAre
<1>3. IsList(audiences)
  <2> HIDE DEF hinted
  <2>1. QED
    BY <1>2, AppendUniqueIs
<1>4. id[1] # "oidc" /\ serviceID[1] # "oidc"
  BY MeshIDs DEF ServiceID
<1>5. Rated(confidence)
  <2> DEFINE rate == WorkloadConfidence(w, issuers \o hinted)
  <2>1. rate \in {100, 50, 0}
    BY DEF WorkloadConfidence
  <2> HIDE DEF rate
  <2>2. \A f \in DOMAIN [overall |-> rate] : f = "overall" /\ [overall |-> rate][f] = rate
    OBVIOUS
  <2>3. "overall" \notin Fields
    BY DEF Fields, FieldAudiences, FieldIssuers, FieldAlgorithms, FieldRequiredClaims, FieldClockSkew,
           FieldRefreshUnknown, FieldCacheTTL, FieldConsumer
  <2>4. Rated([overall |-> rate])
    BY <2>1, <2>2, <2>3 DEF Rated
  <2>5. QED
    BY <2>4 DEF rate
<1> HIDE DEF ns, podLabels, hinted, issuers, matched, service, account, id, serviceID, endpoints,
             audiences, confidence, owner, probeable
<1>6. IsList(aliases) /\ \A x \in ToSet(aliases) : x[1] # "oidc"
  <2>1. IsList(<<serviceID>>) /\ ToSet(<<serviceID>>) = {serviceID}
    BY OneListed
  <2>2. aliases = <<serviceID>> \/ aliases = <<>>
    OBVIOUS
  <2> HIDE DEF aliases
  <2>3. QED
    BY <1>4, <2>1, <2>2, NoList
<1>7. bare.id = id /\ DOMAIN bare = ConsumerFields
  BY BareIs DEF Bare
<1> HIDE DEF bare, c, aliases
<1>8. /\ DOMAIN c = ConsumerFields /\ c.id = id /\ c.aliases = aliases
      /\ c.issuers = issuers /\ c.audiences = audiences /\ c.confidence = confidence
  BY <1>1, <1>7 DEF ConsumerFields
<1>9. Shaped(c)
  BY <1>2, <1>3, <1>5, <1>6, <1>8 DEF Shaped
<1>10. Apart(c) /\ ~IsOIDC(c)
  BY <1>4, <1>6, <1>8, MeshIsApart
<1>11. QED
  BY <1>9, <1>10 DEF c

(* One for each workload in scope. *)
LEMMA KubernetesIs ==
    ASSUME NEW docs, NEW scope, WellFormedDocs(docs)
    PROVE  MeshFound(Kubernetes(docs, scope))
<1> DEFINE all   == OfKind(docs, Workloads)
           kept  == {w \in ToSet(all) : InScope(scope, w.ns)}
           found == Among(all, kept)
           out   == [i \in 1..Len(found) |-> WorkloadConsumer(found[i], docs, scope)]
<1>1. IsList(all) /\ \A w \in ToSet(all) : IsList(w.env)
  BY OfKindIs DEF WellFormed
<1> HIDE DEF all
<1>2. IsList(found) /\ \A w \in ToSet(found) : IsList(w.env)
  <2>1. IsList(found) /\ ToSet(found) = ToSet(all) \cap kept
    <3> HIDE DEF kept
    <3>1. QED
      BY <1>1, AmongIs
  <2>2. QED
    BY <1>1, <2>1
<1>3. Kubernetes(docs, scope) = out
  BY DEF Kubernetes, all
<1> HIDE DEF found
<1>4. Len(found) \in Nat /\ \A i \in 1..Len(found) : found[i] \in ToSet(found)
  BY <1>2, Listed
<1>5. IsList(out) /\ \A c \in ToSet(out) : \E i \in 1..Len(found) : c = out[i]
  BY <1>4, ListOf
<1>6. \A i \in 1..Len(found) : Shaped(out[i]) /\ Apart(out[i]) /\ ~IsOIDC(out[i])
  BY <1>2, <1>4, WorkloadIs
<1> HIDE DEF out
<1>7. QED
  BY <1>3, <1>5, <1>6 DEF MeshFound

(* The providers kept of a document are some of its providers. *)
LEMMA FindProvidersIs ==
    ASSUME NEW doc, IsList(doc.providers)
    PROVE  /\ IsList(FindProviders(doc))
           /\ ToSet(FindProviders(doc)) \subseteq ToSet(doc.providers)
<1> DEFINE valid  == Among(doc.providers, {p \in ToSet(doc.providers) : p.issuer # ""})
           Firsts == {i \in DOMAIN valid : \A j \in 1..(i - 1) : valid[j].name # valid[i].name}
           first  == {valid[i] : i \in Firsts}
           kept   == Among(valid, first)
<1>1. IsList(valid) /\ ToSet(valid) \subseteq ToSet(doc.providers)
  BY AmongIs
<1>2. FindProviders(doc) = UnionAll(<<>>, kept)
  BY DEF FindProviders
<1> HIDE DEF valid, first
<1>3. IsList(kept) /\ ToSet(kept) = ToSet(valid) \cap first
  BY <1>1, AmongIs
<1> HIDE DEF kept
<1>4. IsList(UnionAll(<<>>, kept)) /\ ToSet(UnionAll(<<>>, kept)) = ToSet(<<>>) \cup ToSet(kept)
  BY <1>3, UnionAllIs, NoList
<1>5. QED
  BY <1>1, <1>2, <1>3, <1>4, NoList

(* The consumer of a provider. *)
LEMMA ProviderIs ==
    ASSUME NEW p, NEW scope, IsList(p.audiences)
    PROVE  LET c == ProviderConsumer(p, scope)
           IN  Shaped(c) /\ Apart(c) /\ ~IsOIDC(c)
<1> DEFINE id   == RouteID("envoy", p.name)
           bare == Bare(id, "gateway_route", p.name, scope.cluster)
           issuers   == <<p.issuer>>
           audiences == NonEmpty(p.audiences)
           c    == ProviderConsumer(p, scope)
<1>1. c = [bare EXCEPT !.issuers = issuers, !.audiences = audiences, !.cacheTTL = p.cacheTTL,
                       !.jwksURI = p.jwksURI, !.confidence = Declared, !.probeable = TRUE]
  BY DEF ProviderConsumer
<1>2. IsList(issuers) /\ IsList(audiences)
  BY OneListed, NonEmptyIs
<1>3. id[1] # "oidc"
  BY MeshIDs DEF RouteID
<1> HIDE DEF id, issuers, audiences
<1>4. bare.id = id /\ bare.aliases = <<>> /\ DOMAIN bare = ConsumerFields
  BY BareIs DEF Bare
<1> HIDE DEF bare, c
<1>5. /\ DOMAIN c = ConsumerFields /\ c.id = id /\ c.aliases = <<>>
      /\ c.issuers = issuers /\ c.audiences = audiences /\ c.confidence = Declared
  BY <1>1, <1>4 DEF ConsumerFields
<1>6. Shaped(c)
  BY <1>2, <1>5, NoList, DeclaredIsRated DEF Shaped
<1>7. Apart(c) /\ ~IsOIDC(c)
  BY <1>3, <1>5, NoList, MeshIsApart
<1>8. QED
  BY <1>6, <1>7 DEF c

(* One for each provider of each document. *)
LEMMA EnvoyIs ==
    ASSUME NEW docs, NEW scope, WellFormedDocs(docs)
    PROVE  MeshFound(Envoy(docs, scope))
<1> DEFINE configs == OfKind(docs, {"Envoy"})
           each  == [i \in 1..Len(configs) |-> FindProviders(configs[i])]
           found == FlattenSeq(each)
           out   == [i \in 1..Len(found) |-> ProviderConsumer(found[i], scope)]
<1>1. /\ IsList(configs)
      /\ \A d \in ToSet(configs) : IsList(d.providers) /\ \A p \in ToSet(d.providers) : IsList(p.audiences)
  BY OfKindIs DEF WellFormed
<1>2. Envoy(docs, scope) = out
  BY DEF Envoy
<1> HIDE DEF configs
<1>3. Len(configs) \in Nat /\ \A i \in 1..Len(configs) : configs[i] \in ToSet(configs)
  BY <1>1, Listed
<1>4. IsList(each) /\ Len(each) = Len(configs)
  BY <1>3, ListOf
<1>5. \A i \in 1..Len(configs) : /\ IsList(each[i])
                                 /\ ToSet(each[i]) \subseteq ToSet(configs[i].providers)
  BY <1>1, <1>3, FindProvidersIs
<1> HIDE DEF each
<1>6. IsList(found) /\ \A p \in ToSet(found) : \E i \in 1..Len(configs) : p \in ToSet(each[i])
  BY <1>4, <1>5, FlatIs
<1> HIDE DEF found
<1>7. \A p \in ToSet(found) : IsList(p.audiences)
  BY <1>1, <1>3, <1>5, <1>6
<1>8. Len(found) \in Nat /\ \A i \in 1..Len(found) : found[i] \in ToSet(found)
  BY <1>6, Listed
<1>9. IsList(out) /\ \A c \in ToSet(out) : \E i \in 1..Len(found) : c = out[i]
  BY <1>8, ListOf
<1>10. \A i \in 1..Len(found) : Shaped(out[i]) /\ Apart(out[i]) /\ ~IsOIDC(out[i])
  BY <1>7, <1>8, ProviderIs
<1> HIDE DEF out
<1>11. QED
  BY <1>2, <1>9, <1>10 DEF MeshFound

(* A client is known by its ID, and its realm. *)
LEMMA ClientIs ==
    ASSUME NEW client, NEW registry, IsList(client.mapped)
    PROVE  LET c == ClientConsumer(client, registry)
           IN  Shaped(c) /\ Apart(c) /\ c.id = <<"oidc", registry.realm, client.id>>
<1> DEFINE id   == <<"oidc", registry.realm, client.id>>
           kind == IF client.public THEN "client" ELSE "service"
           bare == Bare(id, kind, client.id, registry.realm)
           declared  == UnionAll(<<>>, NonEmpty(client.mapped))
           issuers   == <<registry.issuer>>
           audiences == IF client.public THEN declared ELSE AppendUnique(declared, client.id)
           confidence == [overall |-> 90]
           probeable  == ~client.public
           c == ClientConsumer(client, registry)
<1>1. c = [bare EXCEPT !.issuers = issuers, !.audiences = audiences, !.confidence = confidence,
                       !.probeable = probeable]
  BY DEF ClientConsumer
<1>2. IsList(issuers) /\ IsList(audiences)
  <2>1. IsList(declared)
    BY NonEmptyIs, UnionAllIs, NoList
  <2> HIDE DEF declared
  <2>2. QED
    BY <2>1, OneListed, AppendUniqueIs
<1>3. Rated(confidence)
  <2>1. \A f \in DOMAIN confidence : f = "overall" /\ confidence[f] = 90
    OBVIOUS
  <2>2. "overall" \notin Fields
    BY DEF Fields, FieldAudiences, FieldIssuers, FieldAlgorithms, FieldRequiredClaims, FieldClockSkew,
           FieldRefreshUnknown, FieldCacheTTL, FieldConsumer
  <2>3. QED
    BY <2>1, <2>2 DEF Rated
<1>4. bare.id = id /\ bare.aliases = <<>> /\ DOMAIN bare = ConsumerFields
  BY BareIs DEF Bare
<1>5. id[1] = "oidc"
  OBVIOUS
<1> HIDE DEF bare, c, issuers, audiences, confidence, probeable
<1> DEFINE known == id
<1> HIDE DEF known
<1>6. /\ DOMAIN c = ConsumerFields /\ c.id = id /\ c.aliases = <<>>
      /\ c.issuers = issuers /\ c.audiences = audiences /\ c.confidence = confidence
  BY <1>1, <1>4 DEF ConsumerFields
<1>7. Shaped(c)
  BY <1>2, <1>3, <1>6, NoList DEF Shaped
<1>8. Apart(c)
  BY <1>5, <1>6, NoList DEF Apart, IDsOf, IsOIDC
<1>9. QED
  BY <1>6, <1>7, <1>8 DEF c

(* What the adapter of a registry finds. *)
ClientsFound(found) ==
    IsList(found) /\ \A c \in ToSet(found) : Shaped(c) /\ Apart(c)

(* One for each client that validates tokens. *)
LEMMA ClientRegistryIs ==
    ASSUME NEW registry, WellFormedRegistry(registry)
    PROVE  ClientsFound(ClientRegistry(registry))
<1> DEFINE kept  == {c \in ToSet(registry.clients) : ValidatesTokens(c)}
           valid == Among(registry.clients, kept)
           out   == [i \in 1..Len(valid) |-> ClientConsumer(valid[i], registry)]
<1>1. IsList(registry.clients) /\ \A c \in ToSet(registry.clients) : IsList(c.mapped)
  BY DEF WellFormedRegistry
<1>2. ClientRegistry(registry) = out
  BY DEF ClientRegistry
<1>3. IsList(valid) /\ ToSet(valid) \subseteq ToSet(registry.clients)
  BY <1>1, AmongIs
<1> HIDE DEF valid
<1>4. Len(valid) \in Nat /\ \A i \in 1..Len(valid) : valid[i] \in ToSet(registry.clients)
  BY <1>3, Listed
<1>5. IsList(out) /\ \A c \in ToSet(out) : \E i \in 1..Len(valid) : c = out[i]
  BY <1>4, ListOf
<1>6. \A i \in 1..Len(valid) : Shaped(out[i]) /\ Apart(out[i])
  BY <1>1, <1>4, ClientIs
<1> HIDE DEF out
<1>7. QED
  BY <1>2, <1>5, <1>6 DEF ClientsFound

(* A source of files, or one that has what it asks and finds it in order. *)
WellFormedSource(source) ==
    /\ source.kind \in {"istio", "k8s", "envoy", "registry", "cluster"}
    /\ source.kind = "registry" /\ source.at.up => WellFormedRegistry(source.at)
    /\ source.kind = "cluster" /\ source.at.up => WellFormedDocs(source.at.docs)

(* A source finds consumers of the mesh, or is a registry. *)
LEMMA DiscoverIs ==
    ASSUME NEW source, NEW docs, NEW scope, WellFormedDocs(docs), WellFormedSource(source)
    PROVE  MeshFound(Discover(source, docs, scope)) \/ ClientsFound(Discover(source, docs, scope))
<1> DEFINE found == Discover(source, docs, scope)
<1>1. CASE SourceFails(source, docs)
  <2>1. found = <<>>
    BY <1>1 DEF Discover
  <2>2. QED
    BY <2>1, NoList DEF MeshFound
<1>2. CASE ~SourceFails(source, docs) /\ source.kind = "istio"
  <2>1. found = Istio(docs, scope)
    BY <1>2 DEF Discover
  <2>2. QED
    BY <2>1, AssembleIs DEF Istio
<1>3. CASE ~SourceFails(source, docs) /\ source.kind = "k8s"
  <2>1. found = Kubernetes(docs, scope)
    BY <1>3 DEF Discover
  <2>2. QED
    BY <2>1, KubernetesIs
<1>4. CASE ~SourceFails(source, docs) /\ source.kind = "envoy"
  <2>1. found = Envoy(docs, scope)
    BY <1>4 DEF Discover
  <2>2. QED
    BY <2>1, EnvoyIs
<1>5. CASE ~SourceFails(source, docs) /\ source.kind = "registry"
  <2>1. found = ClientRegistry(source.at)
    BY <1>5 DEF Discover
  <2>2. WellFormedRegistry(source.at)
    BY <1>5 DEF SourceFails, WellFormedSource
  <2>3. QED
    BY <2>1, <2>2, ClientRegistryIs
<1>6. CASE ~SourceFails(source, docs) /\ source.kind = "cluster"
  <2>1. found = InCluster(source.at, scope)
    BY <1>6 DEF Discover
  <2>2. WellFormedDocs(source.at.docs)
    BY <1>6 DEF SourceFails, WellFormedSource
  <2>3. QED
    BY <2>1, <2>2, AssembleIs DEF InCluster
<1>7. QED
  BY <1>1, <1>2, <1>3, <1>4, <1>5, <1>6 DEF WellFormedSource

(* The sources of a fleet: the files, its registries and its clusters. *)
LEMMA SourcesAre ==
    ASSUME NEW fleet, WellFormedFleet(fleet)
    PROVE  IsList(AllDiscoverers(fleet)) /\ \A s \in ToSet(AllDiscoverers(fleet)) : WellFormedSource(s)
<1> DEFINE files      == DefaultDiscoverers
           registries == ConfigDiscoverers(fleet.registries)
           clusters   == InClusterDiscoverers(fleet.clusters)
           Kinds      == {[kind |-> "istio"], [kind |-> "k8s"], [kind |-> "envoy"]}
<1>1. IsList(files) /\ \A s \in ToSet(files) : WellFormedSource(s)
  <2>1. files \in Seq(Kinds)
    BY DEF DefaultDiscoverers
  <2>2. \A s \in Kinds : s.kind \in {"istio", "k8s", "envoy"}
    OBVIOUS
  <2>3. IsList(files) /\ ToSet(files) \subseteq Kinds
    BY <2>1, ListIs
  <2>4. QED
    BY <2>2, <2>3 DEF WellFormedSource
<1>2. IsList(registries) /\ \A s \in ToSet(registries) : WellFormedSource(s)
  <2>1. /\ Len(fleet.registries) \in Nat
        /\ \A i \in 1..Len(fleet.registries) :
              fleet.registries[i].up => WellFormedRegistry(fleet.registries[i])
    BY Listed DEF WellFormedFleet
  <2>2. /\ IsList(registries)
        /\ ToSet(registries) = {registries[i] : i \in 1..Len(fleet.registries)}
    BY <2>1, ListOf DEF ConfigDiscoverers
  <2>3. \A i \in 1..Len(fleet.registries) :
           registries[i] = [kind |-> "registry", at |-> fleet.registries[i]]
    BY DEF ConfigDiscoverers
  <2> HIDE DEF registries
  <2>4. ASSUME NEW i \in 1..Len(fleet.registries) PROVE WellFormedSource(registries[i])
    <3> DEFINE source == [kind |-> "registry", at |-> fleet.registries[i]]
    <3>1. registries[i] = source
      BY <2>3
    <3>2. fleet.registries[i].up => WellFormedRegistry(fleet.registries[i])
      BY <2>1
    <3>3. source.kind = "registry" /\ source.at = fleet.registries[i]
      OBVIOUS
    <3> HIDE DEF source
    <3>4. QED
      BY <3>1, <3>2, <3>3 DEF WellFormedSource
  <2>5. QED
    BY <2>2, <2>4
<1>3. IsList(clusters) /\ \A s \in ToSet(clusters) : WellFormedSource(s)
  <2>1. /\ Len(fleet.clusters) \in Nat
        /\ \A i \in 1..Len(fleet.clusters) :
              fleet.clusters[i].up => WellFormedDocs(fleet.clusters[i].docs)
    BY Listed DEF WellFormedFleet
  <2>2. /\ IsList(clusters)
        /\ ToSet(clusters) = {clusters[i] : i \in 1..Len(fleet.clusters)}
    BY <2>1, ListOf DEF InClusterDiscoverers
  <2>3. \A i \in 1..Len(fleet.clusters) :
           clusters[i] = [kind |-> "cluster", at |-> fleet.clusters[i]]
    BY DEF InClusterDiscoverers
  <2> HIDE DEF clusters
  <2>4. ASSUME NEW i \in 1..Len(fleet.clusters) PROVE WellFormedSource(clusters[i])
    <3> DEFINE source == [kind |-> "cluster", at |-> fleet.clusters[i]]
    <3>1. clusters[i] = source
      BY <2>3
    <3>2. fleet.clusters[i].up => WellFormedDocs(fleet.clusters[i].docs)
      BY <2>1
    <3>3. source.kind = "cluster" /\ source.at = fleet.clusters[i]
      OBVIOUS
    <3> HIDE DEF source
    <3>4. QED
      BY <3>1, <3>2, <3>3 DEF WellFormedSource
  <2>5. QED
    BY <2>2, <2>4
<1>4. AllDiscoverers(fleet) = files \o registries \o clusters
  BY DEF AllDiscoverers
<1> HIDE DEF files, registries, clusters
<1>5. IsList(files \o registries) /\ ToSet(files \o registries) = ToSet(files) \cup ToSet(registries)
  BY <1>1, <1>2, Concatenated
<1>6. /\ IsList(AllDiscoverers(fleet))
      /\ ToSet(AllDiscoverers(fleet)) = ToSet(files \o registries) \cup ToSet(clusters)
  BY <1>3, <1>4, <1>5, Concatenated
<1>7. QED
  BY <1>1, <1>2, <1>3, <1>5, <1>6

(* Whatever sources find, any number of them, can be merged. *)
LEMMA FoundIs ==
    ASSUME NEW sources, NEW docs, NEW scope, WellFormedDocs(docs),
           IsList(sources), \A s \in ToSet(sources) : WellFormedSource(s)
    PROVE  WellFound(FoundBy(sources, docs, scope))
<1> DEFINE n     == Len(sources)
           each  == [i \in 1..n |-> Discover(sources[i], docs, scope)]
           found == FoundBy(sources, docs, scope)
<1>1. n \in Nat /\ \A i \in 1..n : sources[i] \in ToSet(sources)
  BY Listed
<1> HIDE DEF n
<1>2. IsList(each) /\ Len(each) = n
  BY <1>1, ListOf
<1>3. found = FlattenSeq(each)
  BY DEF FoundBy, n
<1>4. \A i \in 1..n : IsList(each[i]) /\ \A c \in ToSet(each[i]) : Shaped(c) /\ Apart(c)
  <2> SUFFICES ASSUME NEW i \in 1..n
               PROVE  IsList(each[i]) /\ \A c \in ToSet(each[i]) : Shaped(c) /\ Apart(c)
    OBVIOUS
  <2>1. MeshFound(Discover(sources[i], docs, scope)) \/ ClientsFound(Discover(sources[i], docs, scope))
    BY <1>1, DiscoverIs
  <2>2. each[i] = Discover(sources[i], docs, scope)
    OBVIOUS
  <2>3. QED
    BY <2>1, <2>2 DEF MeshFound, ClientsFound
<1> HIDE DEF each, found
<1>5. IsList(found) /\ \A c : c \in ToSet(found) <=> \E i \in 1..n : c \in ToSet(each[i])
  BY <1>2, <1>3, <1>4, FlatIs
<1>6. QED
  BY <1>4, <1>5 DEF WellFound, found

(* The documents of a directory are those of its files. *)
LEMMA DocumentsAre ==
    ASSUME NEW files, files \subseteq (UNION Worlds) \cup Elsewhere
    PROVE  WellFormedDocs(Documents(files))
<1> DEFINE At(name) == {f \in files : SanitizeName(f.path) = name}
           Docs(name) == IF At(name) = {} THEN <<>> ELSE (CHOOSE f \in At(name) : TRUE).docs
           n == Len(LexicalOrder)
           each == [i \in 1..n |-> Docs(LexicalOrder[i])]
<1>1. Documents(files) = FlattenSeq(each)
  BY DEF Documents
<1>2. n \in Nat
  BY CloudAssumption, Listed
<1>3. WellFormedDocs(<<>>)
  BY NoList DEF WellFormedDocs
<1>4. ASSUME NEW name PROVE WellFormedDocs(Docs(name))
  <2>1. CASE At(name) = {}
    BY <1>3, <2>1
  <2>2. CASE At(name) # {}
    <3>1. (CHOOSE f \in At(name) : TRUE) \in files
      BY <2>2
    <3> DEFINE g == CHOOSE f \in At(name) : TRUE
    <3>2. Docs(name) = g.docs
      BY <2>2
    <3>3. g \in (UNION Worlds) \cup Elsewhere
      BY <3>1
    <3> HIDE DEF g, Docs
    <3>4. WellFormedDocs(g.docs)
      BY <3>3, CloudAssumption
    <3>5. QED
      BY <3>2, <3>4
  <2>3. QED
    BY <2>1, <2>2
<1> HIDE DEF Docs, n
<1>5. \A i \in 1..n : each[i] = Docs(LexicalOrder[i])
  OBVIOUS
<1>6. \A i \in 1..n : WellFormedDocs(each[i])
  BY <1>4, <1>5
<1>7. IsList(each) /\ Len(each) = n
  BY <1>2, ListOf
<1> HIDE DEF each
<1>8. \A i \in 1..n : IsList(each[i]) /\ \A d \in ToSet(each[i]) : WellFormed(d)
  BY <1>6 DEF WellFormedDocs
<1>9. /\ IsList(FlattenSeq(each))
      /\ \A d \in ToSet(FlattenSeq(each)) : \E i \in 1..n : d \in ToSet(each[i])
  BY <1>7, <1>8, FlatIs
<1>10. QED
  BY <1>1, <1>8, <1>9 DEF WellFormedDocs

(* A scan of any files, with any registries, cluster and scope. *)
LEMMA ScanIsFaithful ==
    ASSUME NEW scan, scan.files \subseteq (UNION Worlds) \cup Elsewhere, scan.fleet \in Fleets
    PROVE  Faithful(FoundIn(scan), RecordsOf(scan))
<1> DEFINE docs    == Documents(scan.files)
           sources == AllDiscoverers(scan.fleet)
           found   == FoundBy(sources, docs, scan.scope)
<1>1. WellFormedDocs(docs) /\ WellFormedFleet(scan.fleet)
  BY DocumentsAre, CloudAssumption
<1>2. IsList(sources) /\ \A s \in ToSet(sources) : WellFormedSource(s)
  BY <1>1, SourcesAre
<1>3. FoundIn(scan) = found /\ RecordsOf(scan) = Merge(found)
  BY DEF FoundIn, RecordsOf, Run
<1> HIDE DEF docs, sources
<1>4. WellFound(found)
  BY <1>1, <1>2, FoundIs
<1> HIDE DEF found
<1>5. QED
  BY <1>3, <1>4, MergeIsFaithful

(* So none of those over a commit is unfaithful. *)
LEMMA ScansAreFaithful ==
    ASSUME NEW w \in Worlds
    PROVE  Unfaithful[w] = {}
<1>1. ASSUME NEW scan \in Scans(w)
      PROVE  scan.files \subseteq (UNION Worlds) \cup Elsewhere /\ scan.fleet \in Fleets
  BY DEF Scans
<1>2. \A scan \in Scans(w) : Faithful(FoundIn(scan), RecordsOf(scan))
  BY <1>1, ScanIsFaithful
<1>3. QED
  BY <1>2 DEF Unfaithful

(* Every commit is one of those there may be. *)
Commits == repo \in Seq(Worlds) /\ repo # <<>>

(* The inventory of every scan is faithful to what its sources found, for  *)
(* any files scanned with any commit of the repository, any number of      *)
(* registries, whether or not their realms and clients share names, any    *)
(* live clusters and any scope (allDiscoverers, discovery.Run,             *)
(* discovery.Merge).                                                       *)
THEOREM MergeStaysFaithful == Spec => []MergeFaithful
<1>1. Init => Commits
  <2> SUFFICES ASSUME Init PROVE Commits
    OBVIOUS
  <2>1. PICK w \in Origins : repo = <<w>>
    BY DEF Init
  <2>2. w \in Worlds
    BY CloudAssumption
  <2>3. QED
    BY <2>1, <2>2 DEF Commits
<1>2. Commits /\ [Next]_vars => Commits'
  <2> SUFFICES ASSUME Commits, [Next]_vars PROVE Commits'
    OBVIOUS
  <2>1. CASE repo' = repo
    BY <2>1 DEF Commits
  <2>2. CASE Commit
    <3>1. PICK w \in Worlds : repo' = Append(repo, w)
      BY <2>2 DEF Commit
    <3>2. repo \in Seq(Worlds)
      BY DEF Commits
    <3>3. Append(repo, w) \in Seq(Worlds) /\ Append(repo, w) # <<>>
      BY <3>2
    <3>4. QED
      BY <3>1, <3>3 DEF Commits
  <2>3. Next => Commit \/ repo' = repo
    <3>1. Restart \/ (\E u \in Users : Login(u)) => repo' = repo
      BY DEF Restart, Login
    <3>2. ASSUME NEW w \in Workers, Request(w) PROVE repo' = repo
      BY <3>2 DEF Request, CreateProject, GetProject, ListAnalyses, DeleteProject, StartAnalysis,
                  GetAnalysis, Project, Goes
    <3>3. ASSUME NEW w \in Workers, Step(w) PROVE repo' = repo
      BY <3>3 DEF Step, Delete, Upload, ResolveRef, ListTree, FetchFile, FetchDone, FetchFails,
                  ReadPrevious, Derive, SaveAnalysis, CheckOwner, GetLatest, List, Answer, Proceed, Goes
    <3>4. QED
      BY <3>1, <3>2, <3>3 DEF Next
  <2>4. QED
    BY <2>1, <2>2, <2>3 DEF vars
<1>3. Commits => MergeFaithful
  <2> SUFFICES ASSUME Commits PROVE MergeFaithful
    OBVIOUS
  <2>1. repo \in Seq(Worlds) /\ repo # <<>>
    BY DEF Commits
  <2>2. Last(repo) \in Worlds
    BY <2>1 DEF Last
  <2>3. QED
    BY <2>2, ScansAreFaithful DEF MergeFaithful
<1>4. QED
  BY <1>1, <1>2, <1>3, PTL DEF Spec
=============================================================================
