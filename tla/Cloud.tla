-------------------------------- MODULE Cloud --------------------------------
(***************************************************************************)
(* Keyway Cloud (cloud/): accounts, projects and the history of their      *)
(* analyses over the in-memory store, served by handlers that run          *)
(* concurrently.  A handler is a worker that takes one step per call to    *)
(* the store or to GitHub; commits land in the connected repository        *)
(* between its steps, and the server may restart and lose its store, but   *)
(* not the sessions, which are signed and kept by the browsers.            *)
(*                                                                         *)
(* An analysis derives its contract from manifest files as Discovery says, *)
(* and its changes as Diff says.                                           *)
(***************************************************************************)
EXTENDS Discovery

CONSTANTS
    Users, Workers, None,
    Worlds,             \* the manifest files a commit of the repository may hold
    Elsewhere,          \* files of other places an operator may scan with them
    Fleets, Scopes,     \* the registries and clusters, and the scopes, of a scan
    LexicalOrder,       \* the flattened paths, in the order a directory is walked
    Origins,            \* bound: the first commits among them
    MaxFiles,           \* maxFiles of a sync
    MaxCommits, MaxProjects, MaxAnalyses   \* bounds of the runs

ASSUME CloudAssumption ==
    /\ MaxFiles \in Nat \ {0}
    /\ Origins \subseteq Worlds
    /\ \A w \in Worlds : IsFiniteSet(w)
    /\ IsList(LexicalOrder)
    /\ \A f \in (UNION Worlds) \cup Elsewhere : WellFormedDocs(f.docs)
    /\ \A fleet \in Fleets : WellFormedFleet(fleet)

VARIABLES
    repo,       \* the commits of the connected repository, in order
    users,      \* the accounts in the store
    projects,   \* the store's projects, by ID
    analyses,   \* the store's analyses, by ID
    tokens,     \* the users that hold a session cookie or a CI token
    worker,     \* what each handler is at
    sent,       \* the response of the last step, if it shows analyses
    clock,      \* the last CreatedAt given to an analysis
    owners,     \* history: the owner each project was created with
    deleted,    \* history: the projects deleted
    saved       \* history: every analysis that was ever saved

vars == <<repo, users, projects, analyses, tokens, worker, sent, clock, owners, deleted, saved>>
store == <<users, projects, analyses>>
history == <<owners, deleted, saved>>

ProjectIDs  == 1..MaxProjects
AnalysisIDs == 1..MaxAnalyses

Idle == [at |-> "idle"]
Nothing == [shown |-> {}]

-----------------------------------------------------------------------------
(* Analyze: the files of a sync or an upload are written to one directory, *)
(* their paths flattened, and discovery walks it in order.                 *)

(* A path is the tuple of its names and separators; sanitizeName. *)
SanitizeName(path) ==
    [i \in DOMAIN path |-> IF path[i] \in {"/", "\\"} THEN "__" ELSE path[i]]

IsManifestFile(file) ==
    \A i \in 2..Len(file.path) - 1 : file.path[i] \notin {"node_modules", "vendor"}

Documents(files) ==
    LET At(name) == {f \in files : SanitizeName(f.path) = name}
        Docs(name) == IF At(name) = {} THEN <<>> ELSE (CHOOSE f \in At(name) : TRUE).docs
    IN  FlattenSeq([i \in 1..Len(LexicalOrder) |-> Docs(LexicalOrder[i])])

AnyNamespace == [cluster |-> "", namespaces |-> {}]

(* What a handler can have read: part of one commit, or of several. *)
Readable == SUBSET UNION Worlds

(* The contract of every set of files: a constant, so worked out once. *)
Inventory ==
    [files \in Readable |->
        LET run == Run(DefaultDiscoverers, Documents(files), AnyNamespace)
        IN  [err |-> run.err, graph |-> Graph(run.consumers)]]

(* The diff of each pair of them. *)
Drift ==
    [pair \in Readable \X Readable |-> Compute(Inventory[pair[1]].graph, Inventory[pair[2]].graph)]

(* Each pair of files of one flattened path: one overwrites the other. *)
Survivors(files) ==
    {kept \in SUBSET files :
        /\ \A f \in files : \E g \in kept : SanitizeName(g.path) = SanitizeName(f.path)
        /\ \A f, g \in kept : SanitizeName(g.path) = SanitizeName(f.path) => f = g}

(* The changes since the analysis before, if there is one. *)
Changes(prev, files) == UNION {Drift[<<a.files, files>>] : a \in prev}

-----------------------------------------------------------------------------
(* The store. *)

AnalysesOf(p) == {a \in DOMAIN analyses : analyses[a].project = p}

Newest(ids) ==
    IF ids = {} THEN {}
    ELSE {analyses[CHOOSE a \in ids : \A b \in ids : analyses[b].created <= analyses[a].created]}

(* A plausible bug: the newest analysis of the store is taken. *)
LatestOfAll(p) == Newest(DOMAIN analyses)

(* ListAnalyses newest first, and its head, if it has one. *)
LatestAnalysis(p) == Newest(AnalysesOf(p))

Owns(user, p) == p \in DOMAIN projects /\ projects[p].owner = user

With(f, key, value) == [k \in DOMAIN f \cup {key} |-> IF k = key THEN value ELSE f[k]]
Without(f, keys)    == [k \in DOMAIN f \ keys |-> f[k]]

-----------------------------------------------------------------------------
Init ==
    /\ repo \in {<<w>> : w \in Origins}
    /\ users = {}
    /\ projects = <<>>
    /\ analyses = <<>>
    /\ tokens = {}
    /\ worker = [w \in Workers |-> Idle]
    /\ sent = Nothing
    /\ clock = 0
    /\ owners = <<>>
    /\ deleted = {}
    /\ saved = {}

Commit ==
    /\ Len(repo) <= MaxCommits
    /\ \E w \in Worlds \ {Last(repo)} : repo' = Append(repo, w)
    /\ sent' = Nothing
    /\ UNCHANGED <<store, tokens, worker, clock, history>>

UpsertUser(u) == users' = users \cup {u}

(* A session, or a CI token, which only says who it was given to. *)
SignToken(u)   == tokens' = tokens \cup {u}
VerifyToken(u) == u \in tokens

(* The callback of a login, GitHub's or the development one. *)
Login(u) ==
    /\ UpsertUser(u)
    /\ SignToken(u)
    /\ sent' = Nothing
    /\ UNCHANGED <<repo, projects, analyses, worker, clock, history>>

(* The server starts over an empty store; nobody's token is forgotten.  IDs *)
(* are random, so starting them over is as good.                           *)
Restart ==
    /\ users' = {}
    /\ projects' = <<>>
    /\ analyses' = <<>>
    /\ worker' = [w \in Workers |-> Idle]
    /\ sent' = Nothing
    /\ clock' = 0
    /\ owners' = <<>>
    /\ deleted' = {}
    /\ saved' = {}
    /\ UNCHANGED <<repo, tokens>>

-----------------------------------------------------------------------------
(* requireUser, and the first read of each handler. *)

(* A verified token, whose user the store still knows. *)
Authenticated(u) == VerifyToken(u) /\ u \in users

Free(w) == worker[w].at = "idle"

(* The handler is at its next step, or done. *)
Goes(w, request) ==
    /\ worker' = [worker EXCEPT ![w] = request]
    /\ sent' = Nothing

CreateProject(w, u) ==
    LET p == Cardinality(DOMAIN owners) + 1
    IN  /\ Free(w) /\ Authenticated(u)
        /\ p \in ProjectIDs
        /\ projects' = With(projects, p, [owner |-> u, latest |-> None])
        /\ owners' = With(owners, p, u)
        /\ sent' = Nothing
        /\ UNCHANGED <<repo, users, analyses, tokens, worker, clock, deleted, saved>>

(* A bound: one handler that only reads at a time, for reads do not see    *)
(* each other.                                                             *)
Alone == \A w \in Workers : worker[w].at \notin {"get latest", "list", "check owner"}

(* A request that concerns a project; the fields of an analysis are empty. *)
Handling(next, u, p) ==
    [at |-> next, user |-> u, project |-> p, dead |-> p \in deleted,
     ref |-> None, pending |-> {}, files |-> {}, prev |-> {}, seen |-> 0]

(* project: the handlers that begin with a project check its owner. *)
Project(w, u, p, next) ==
    /\ Free(w) /\ Authenticated(u)
    /\ p \in DOMAIN owners
    /\ Owns(u, p)
    /\ Goes(w, Handling(next, u, p))
    /\ UNCHANGED <<repo, store, tokens, clock, history>>

GetProject(w, u, p)    == Alone /\ Project(w, u, p, "get latest")
ListAnalyses(w, u, p)  == Alone /\ Project(w, u, p, "list")
DeleteProject(w, u, p) == Project(w, u, p, "delete")

Answer(w, shown) ==
    /\ worker' = [worker EXCEPT ![w] = Idle]
    /\ sent' = [shown |-> shown, user |-> worker[w].user, dead |-> worker[w].dead]

(* handleGetProject, after the check. *)
GetLatest(w) ==
    /\ worker[w].at = "get latest"
    /\ Answer(w, LatestAnalysis(worker[w].project))
    /\ UNCHANGED <<repo, store, tokens, clock, history>>

(* handleListAnalyses, after the check. *)
List(w) ==
    /\ worker[w].at = "list"
    /\ Answer(w, {analyses[a] : a \in AnalysesOf(worker[w].project)})
    /\ UNCHANGED <<repo, store, tokens, clock, history>>

(* handleDeleteProject, after the check: an error when it is gone already. *)
Delete(w) ==
    /\ worker[w].at = "delete"
    /\ LET p == worker[w].project
       IN  /\ projects' = Without(projects, {p})
           /\ analyses' = IF p \in DOMAIN projects THEN Without(analyses, AnalysesOf(p)) ELSE analyses
           /\ deleted' = deleted \cup {p}
    /\ Goes(w, Idle)
    /\ UNCHANGED <<repo, users, tokens, clock, owners, saved>>

(* handleGetAnalysis: the analysis is read first, then its project. *)
GetAnalysis(w, u, a) ==
    /\ Free(w) /\ Authenticated(u) /\ Alone
    /\ a \in DOMAIN analyses
    /\ Goes(w, [at |-> "check owner", user |-> u, dead |-> analyses[a].project \in deleted,
                analysis |-> analyses[a]])
    /\ UNCHANGED <<repo, store, tokens, clock, history>>

(* A plausible bug: the analysis is shown to whoever knows its ID. *)
ShowAnalysis(w) ==
    /\ worker[w].at = "check owner"
    /\ Answer(w, {worker[w].analysis})
    /\ UNCHANGED <<repo, store, tokens, clock, history>>

CheckOwner(w) ==
    /\ worker[w].at = "check owner"
    /\ IF Owns(worker[w].user, worker[w].analysis.project)
       THEN Answer(w, {worker[w].analysis})
       ELSE Goes(w, Idle)
    /\ UNCHANGED <<repo, store, tokens, clock, history>>

-----------------------------------------------------------------------------
(* handleAnalyze.  Every project is connected to the repository; one that  *)
(* is not only ever sees the uploads.                                      *)

Analyses == {"analyze", "list tree", "fetch", "read previous", "derive", "save"}
InFlight == {w \in Workers : worker[w].at \in Analyses}

StartAnalysis(w, u, p) ==
    /\ Cardinality(saved) + Cardinality(InFlight) < MaxAnalyses
    /\ Project(w, u, p, "analyze")

Proceed(w, request) ==
    /\ Goes(w, request)
    /\ UNCHANGED <<repo, store, tokens, clock, history>>

(* What `keyway cloud analyze` collects of a checkout: it does not go down *)
(* into the directories that isManifestFile leaves out below the top.      *)
CollectManifests(files) ==
    {f \in files : \A i \in 1..Len(f.path) - 1 : f.path[i] \notin {"node_modules", "vendor"}}

(* The manifests of a checkout come with the request, from the UI, or from *)
(* the CLI, which sends none at all rather than no manifest.               *)
Upload(w) ==
    /\ worker[w].at = "analyze"
    /\ \E files \in {Last(repo), CollectManifests(Last(repo))} \ {{}} :
          Proceed(w, [worker[w] EXCEPT !.at = "read previous", !.files = files])

(* None came, so FetchManifests resolves the branch.  That it fails is     *)
(* ignored: everything is then read from the branch itself.                *)
ResolveRef(w) ==
    /\ worker[w].at = "analyze"
    /\ \E sha \in {Len(repo), None} : Proceed(w, [worker[w] EXCEPT !.at = "list tree", !.ref = sha])

FilesAt(ref) == IF ref = None THEN Last(repo) ELSE repo[ref]

ListTree(w) ==
    /\ worker[w].at = "list tree"
    /\ LET listed == {f \in FilesAt(worker[w].ref) : IsManifestFile(f)}
       IN  Proceed(w, [worker[w] EXCEPT !.at = "fetch", !.pending = {f.path : f \in listed}])

(* The next path of the listing. *)
Rank(path) == CHOOSE i \in DOMAIN LexicalOrder : LexicalOrder[i] = SanitizeName(path)
NextPath(paths) == CHOOSE p \in paths : \A q \in paths : Rank(p) <= Rank(q)

(* A plausible bug: the contents are read from the branch. *)
ContentOfBranch(ref, path) == {f \in Last(repo) : f.path = path}

Content(ref, path) == {f \in FilesAt(ref) : f.path = path}

(* One file: left out when it cannot be read, or is no longer there. *)
FetchFile(w) ==
    /\ worker[w].at = "fetch"
    /\ worker[w].pending # {} /\ Cardinality(worker[w].files) < MaxFiles
    /\ LET path == NextPath(worker[w].pending)
       IN  \E got \in {Content(worker[w].ref, path), {}} :
              Proceed(w, [worker[w] EXCEPT !.pending = @ \ {path}, !.files = @ \cup got])

FetchDone(w) ==
    /\ worker[w].at = "fetch"
    /\ worker[w].pending = {} \/ Cardinality(worker[w].files) >= MaxFiles
    /\ worker[w].files # {}
    /\ Proceed(w, [worker[w] EXCEPT !.at = "read previous"])

(* GitHub does not answer, or has no manifest: the handler answers 400. *)
FetchFails(w) ==
    /\ worker[w].at \in {"list tree", "fetch"}
    /\ worker[w].at = "fetch" => worker[w].pending = {} /\ worker[w].files = {}
    /\ Goes(w, Idle)
    /\ UNCHANGED <<repo, store, tokens, clock, history>>

ReadPrevious(w) ==
    /\ worker[w].at = "read previous"
    /\ Proceed(w, [worker[w] EXCEPT !.at = "derive", !.prev = LatestAnalysis(worker[w].project),
                                     !.seen = Cardinality(saved)])

(* Analyze, and the analysis stamped with the time. *)
Derive(w) ==
    /\ worker[w].at = "derive"
    /\ \E files \in Survivors(worker[w].files) :
          LET a == [id |-> 0, project |-> worker[w].project, created |-> clock + 1, ref |-> worker[w].ref,
                    files |-> files, baseline |-> worker[w].prev = {},
                    changes |-> Changes(worker[w].prev, files), seen |-> worker[w].seen]
          IN  IF Inventory[files].err
              THEN Goes(w, Idle) /\ UNCHANGED clock
              ELSE /\ clock' = clock + 1
                   /\ Goes(w, [at |-> "save", user |-> worker[w].user, dead |-> worker[w].dead,
                                 analysis |-> a])
    /\ UNCHANGED <<repo, store, tokens, history>>

(* A plausible bug: the project's record is written back, or made anew. *)
SaveAnalysisAnew(w) ==
    /\ worker[w].at = "save"
    /\ LET id == Cardinality(saved) + 1
           a  == [worker[w].analysis EXCEPT !.id = id]
       IN  /\ analyses' = With(analyses, id, a)
           /\ projects' = With(projects, a.project, [owner |-> worker[w].user, latest |-> id])
           /\ saved' = saved \cup {a}
           /\ Answer(w, {a})
    /\ UNCHANGED <<repo, users, tokens, clock, owners, deleted>>

(* SaveAnalysis keeps the analysis of a project that is gone as well; the  *)
(* handler answers with it.                                                *)
SaveAnalysis(w) ==
    /\ worker[w].at = "save"
    /\ LET id == Cardinality(saved) + 1
           a  == [worker[w].analysis EXCEPT !.id = id]
       IN  /\ analyses' = With(analyses, id, a)
           /\ projects' = IF a.project \in DOMAIN projects
                          THEN [projects EXCEPT ![a.project].latest = id] ELSE projects
           /\ saved' = saved \cup {a}
           /\ Answer(w, {a})
    /\ UNCHANGED <<repo, users, tokens, clock, owners, deleted>>

-----------------------------------------------------------------------------
Request(w) ==
    \/ \E u \in Users :
         \/ CreateProject(w, u)
         \/ \E p \in ProjectIDs : \/ GetProject(w, u, p) \/ ListAnalyses(w, u, p)
                                  \/ DeleteProject(w, u, p) \/ StartAnalysis(w, u, p)
         \/ \E a \in AnalysisIDs : GetAnalysis(w, u, a)

Step(w) ==
    \/ GetLatest(w) \/ List(w) \/ Delete(w) \/ CheckOwner(w)
    \/ Upload(w) \/ ResolveRef(w) \/ ListTree(w) \/ FetchFile(w) \/ FetchDone(w) \/ FetchFails(w)
    \/ ReadPrevious(w) \/ Derive(w) \/ SaveAnalysis(w)

Next ==
    \/ Commit \/ Restart
    \/ \E u \in Users : Login(u)
    \/ \E w \in Workers : Request(w) \/ Step(w)

Spec == Init /\ [][Next]_vars

-----------------------------------------------------------------------------
(* Properties. *)

(* Type correctness of the store and its references: a project belongs to  *)
(* who created it and was not deleted, and its latest analysis is stored   *)
(* under it, whatever handlers were cut short or overtaken.                *)
TypeOK ==
    /\ users \subseteq Users /\ tokens \subseteq Users
    /\ DOMAIN projects = DOMAIN owners \ deleted
    /\ \A p \in DOMAIN projects :
          /\ projects[p].owner = owners[p]
          /\ projects[p].latest \in AnalysesOf(p) \cup {None}
    /\ \A a \in DOMAIN analyses : analyses[a] \in saved /\ analyses[a].id = a

(* Tenants are isolated, and what is deleted is gone: a response shows an  *)
(* analysis only to the owner of its project, and never of a project that  *)
(* was deleted before the request came, even if an analysis overtaken by   *)
(* the deletion is left in the store (handleGetAnalysis reads the analysis *)
(* before it knows whose it is).                                           *)
ServedToOwner ==
    \A a \in sent.shown : owners[a.project] = sent.user /\ ~sent.dead

(* The drift of an analysis can be relied on: its changes are the complete *)
(* diff from the newest of the analyses its project had when it looked,    *)
(* and it is a baseline exactly when there was none (handleAnalyze).       *)
(* What an overlapping analysis saves in the meantime is not seen, and a   *)
(* project deleted in the meantime has lost its history.                   *)
DriftExplained ==
    \A a \in saved :
        LET before == {b \in saved : b.project = a.project /\ b.id <= a.seen}
        IN  \/ a.project \in deleted
            \/ before = {} /\ a.baseline /\ a.changes = {}
            \/ /\ ~a.baseline
               /\ \E b \in before :
                     /\ \A c \in before : c.created <= b.created
                     /\ a.changes = Drift[<<b.files, a.files>>]

(* A sync that records the commit it analysed has read that commit and no  *)
(* other, whatever is pushed while the files are fetched one by one        *)
(* ("records exactly what was analyzed", FetchManifests).                  *)
PinnedSync ==
    \A a \in saved : a.ref # None => a.files \subseteq repo[a.ref]

-----------------------------------------------------------------------------
(* The merge, against what it promises. *)

IDsOf(c) == {c.id} \cup ToSet(c.aliases)

Linked(c, d) == IDsOf(c) \cap IDsOf(d) # {}

IssuersOf(S)   == UNION {ToSet(c.issuers) : c \in S}
AudiencesOf(S) == UNION {ToSet(c.audiences) : c \in S}

MeshIn(found)    == {c \in ToSet(found) : ~IsOIDC(c)}
ClientsIn(found) == {c \in ToSet(found) : IsOIDC(c)}

(* The consumers found that have an identity of a record. *)
Members(r, S) == {c \in S : c.id \in IDsOf(r)}

(* A record says of a consumer all that was found of it. *)
Covers(r, c) ==
    /\ c.id \in IDsOf(r)
    /\ ToSet(c.issuers) \subseteq ToSet(r.issuers)
    /\ ToSet(c.audiences) \subseteq ToSet(r.audiences)
    /\ c.claims \subseteq r.claims /\ c.endpoints \subseteq r.endpoints
    /\ \A f \in Fields : f \in DOMAIN c.confidence => r.confidence[f] >= c.confidence[f]

(* Clients have an issuer and an audience in common with a record's part   *)
(* in the mesh.                                                            *)
SharePair(clients, r, found) ==
    LET mesh == Members(r, MeshIn(found))
    IN  /\ IssuersOf(clients) \cap IssuersOf(mesh) # {}
        /\ AudiencesOf(clients) \cap AudiencesOf(mesh) # {}

(* The clients of one StableID: one client, unless registries collide. *)
Namesakes(c, found) == {d \in ClientsIn(found) : d.id = c.id}

Transitive(S) == \A c, d, e \in S : Linked(c, d) /\ Linked(d, e) => Linked(c, e)

(* What one scan has found and what was made of it: every consumer found   *)
(* is in a record with all it expects; a record holds nothing but what was *)
(* found of its identities; no two have one StableID; and consumers are in *)
(* one record exactly when their identities intersect, as far as that is   *)
(* transitive, the clients of a StableID besides, when together they share *)
(* an issuer and an audience with consumers of the mesh.                   *)
Faithful(found, out) ==
    /\ \A c \in ToSet(found) : \E r \in ToSet(out) : Covers(r, c)
    /\ \A r \in ToSet(out) :
          LET members == Members(r, ToSet(found))
          IN  /\ ToSet(r.issuers) \subseteq IssuersOf(members)
              /\ ToSet(r.audiences) \subseteq AudiencesOf(members)
              /\ r.claims \subseteq UNION {c.claims : c \in members}
    /\ \A i, j \in DOMAIN out : out[i].id = out[j].id => i = j
    /\ Transitive(MeshIn(found)) =>
          /\ \A c, d \in MeshIn(found) :
                Linked(c, d) <=> \E r \in ToSet(out) : Covers(r, c) /\ Covers(r, d)
          /\ \A c \in ClientsIn(found), r \in ToSet(out) :
                /\ c.id \in ToSet(r.aliases) => SharePair(Namesakes(c, found), r, found)
                /\ c.id = r.id => \A s \in ToSet(out) : ~SharePair(Namesakes(c, found), s, found)

(* The scans of an operator's `keyway discover` beside a commit, what the  *)
(* sources find in one, and the inventory made of it.                      *)
Scans(world) == [files : SUBSET (world \cup Elsewhere), fleet : Fleets, scope : Scopes]

FoundIn(scan) == FoundBy(AllDiscoverers(scan.fleet), Documents(scan.files), scan.scope)

RecordsOf(scan) == Run(AllDiscoverers(scan.fleet), Documents(scan.files), scan.scope).consumers

(* A constant, so worked out once. *)
Unfaithful ==
    [w \in Worlds |-> {scan \in Scans(w) : ~Faithful(FoundIn(scan), RecordsOf(scan))}]

(* The inventory is faithful to what the sources found, for every set of   *)
(* files scanned with the repository's, any number of registries, a live   *)
(* cluster or none, and every scope (discovery.Merge): nothing found is    *)
(* lost, nothing is made up, one service seen by two sources is one        *)
(* record, and two services of the mesh are not thrown together.  Clients  *)
(* of one realm name and one ID are one consumer to the code, whichever    *)
(* issuers they are from.                                                  *)
MergeFaithful == Unfaithful[Last(repo)] = {}
=============================================================================
