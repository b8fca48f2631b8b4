# Keyway: TLA+ verification project

Keyway derives the *contract* between token issuers and the services that
validate their tokens, stores a version of it whenever a snapshot is taken,
diffs each version against the one before, classifies and reports the changes,
and operates canary signing keys to find out whether a key rotation is safe.
This directory holds TLA+ models of the parts of it in which state, ordering
and failure matter, the TLC runs that check them, and proofs of the results
that hold for every value of the constants. Paths below are relative to `src/`.

## 1. The system

| Component | State it keeps | Operations | What makes it correct |
|---|---|---|---|
| Snapshot use case (`internal/app/app.go`, `internal/contract/version.go`, `build.go`) | none of its own; a version and its events on the way to the store | discover, build, baseline check, latest, diff, save version, save events | the first version is a baseline and reports nothing; every event set is the complete diff of two stored versions; no new contract is recorded in silence |
| Contract store (`internal/store/{memory,postgres}`) | versions, change events, probe results | save, latest, baseline, history | latest and baseline are what the flow takes them for |
| Diff and classification (`internal/diff`) | none | Compute, Classify | agrees with the hash about what a change is; widened and narrowed mean what they say |
| Scheduler and leadership (`internal/cli/serve.go`, `internal/coordination`) | advisory lock, held connection, ticker | IsLeader, tick, Close | one replica at a time, a standby takes over, nobody paged about what is not stored |
| Notification (`internal/notify`) | none | ShouldNotify, Notify | a scheduled snapshot's serious changes are delivered |
| Idempotent replay (`internal/api/idempotency.go`, `runs.go`, `internal/coordination`) | a lock per key and node with its reference count, cached responses in a bounded map or a table, the index of recent runs | lock, get, run, put, unlock, index | a retried write runs once per node and gets the first answer; nothing outgrows its cap; no lock is lost or kept |
| Signing keys (`internal/issuer/localkeys`, `internal/issuerregistry`, `internal/keystore`) | key statuses in memory and on disk | generate, announce, promote, retire, sign, persist, import | one key signs; what was announced survives a restart; persisted state never goes backwards |
| Probe engine (`internal/probe`, `internal/attack`) | kill switch, concurrency slots, results per consumer | run, run the corpus, run one consumer, abort | a failed result names a real defect, or a refusal whose status was misread; broken targets are let alone; the switch contains a run; nothing cut off is stored |
| Blast radius (`internal/blastradius`, `internal/libdefaults`) | none (reads the latest version and the probe history) | Resolve, measured window, grace period, Enrich | a consumer called ready is ready at the end of the grace period; nothing that breaks is overlooked |
| Discovery (`internal/discovery`) | none | the adapters, Run, Merge, aliasFold | nothing found is lost or made up; consumers with a common identity are one record as far as that is transitive |
| Agent inspection (`internal/agentauth`) | none | Analyze, the gate | each defect is found, and only it |
| Cloud service (`cloud/`) | users, projects, analyses; sessions in the browsers | log in, create, delete, analyse, list, show | tenants are kept apart; drift is against the analysis before; a sync is of one commit |
| Not modelled | | | see section 7 |

How they interact: the HTTP handlers, the CLI and each replica's scheduler
goroutine call `Deps.Snapshot`, which calls discovery and then the store; all
replicas share one Postgres store and one advisory lock. The scheduler hands a
result's events to the notifier. Probe runs read the latest version, mint with
the signing keys and append to the probe history, which the blast radius reads
together with the latest version before an operator promotes a key. The cloud
service uses discovery, `Build` and the differ as a library, over manifests it
is sent or fetches from GitHub.

What is hard here: snapshots that overlap (nothing is locked across the store
calls), a snapshot cut short between two writes, leadership believed after the
session that backed it is gone, clocks of replicas that disagree, deliveries
that fail, keys that exist in memory and on disk, retries of requests whose
first attempt is still running, evidence about one key used for another,
repositories that move while they are read, and deletions that overtake work.
`PROJECT.json` lists each hazard at its line.

## 2. Modules

| Module | Models | State and actions |
|---|---|---|
| `Diff` | `internal/diff`, `internal/contract/hash.go`, `notify.ShouldNotify` | operators only: `Compute`, `Classify`, `Hash` |
| `ContractLog` | what the comment on `contract.Snapshot` promises | `log`; `Record` |
| `Snapshot` | `Deps.Snapshot`, `SnapshotWithAttribution`, both stores | `saved` is `contract_versions` in insertion order, `events` is `change_events`; `pc`, `draft`, `found` are the local variables of each call in progress; one action per store call, `Fail` for every error return |
| `Scheduler` | `runScheduler`, `pgLeader`, the notifier | extends `Snapshot`; `lock` is what Postgres thinks, `conn` what a replica thinks, `leading` that a tick is under way |
| `KeySet` | `localkeys.KeySet`, `bindStore`, the two key stores | `keys` is each replica's list in memory, `stored` the shared row or file, `pc` and `copy` a caller between its mutation and the end of its save; `Start`, `Crash`, `Announce`, `Promote`, `Retire`, `Export`, `Save`, `SaveError` |
| `Rotation` | `blastradius.Resolve` and `GracePeriod`, `app.ProbeRun`, `HarnessRun`, `BlastRadius`, `libdefaults.Match`, consumers that cache a JWKS | `cache` and `fetched` are a consumer's, `runs` is the probe history in the store, `advice` what an operator took from the last answer; `Announce`, `Fetch`, `ProbeRun`, `HarnessRun`, `BlastRadius`, `Promote`, `Tick` |
| `Idempotency` | the middleware, `keyMutex`, both idempotency stores, `runIndex` | `recs`, `expired`, `order` are the stores, `locks`, `refs`, `holder` the lock map, `index` the run index, `call` where each request is; one action per step that other requests can come between |
| `Tokens` | probe definitions, corpus, minting, the oracle | operators only: `ProbePlan`, `Corpus`, `Verify` |
| `Agent` | `agentauth.Analyze`, `agent inspect`, the API's inspection | operators only: `Analyze`, `AgentInspect`, `HandleAgentInspect` |
| `Probe` | `Engine.Run` and `RunHarness` from `app.go` to the saved results | extends `Agent` and `Tokens`; `loop`, `next` are the loop over the consumers, `phase`, `results`, `failures` a consumer's goroutine; `KillSwitch`, `Admit`, `Start`, `Request`, `Answer`, `Stop`, `Return`, and the environment's `Engage`, `Cancel` |
| `Lists` | `appendUnique`, `unionStrings` and the loops that keep what passes a condition | operators only, their recursions written as functions |
| `Discovery` | the adapters, identities, `Run`, `Merge`, `aliasFold`, `contract.Build` | extends `Diff` and `Lists`; operators only |
| `Cloud` | `cloud/`: handlers, memory store, sessions, GitHub sync, `Analyze`; the upload of `keyway cloud analyze` | extends `Discovery`; `projects`, `analyses`, `users` are the store, `worker` a handler between two calls, `repo` the commits of the connected repository |
| `SnapshotProofs`, `KeySetProofs`, `IdempotencyProofs`, `SchedulerProofs`, `RotationProofs`, `CloudProofs`, `ProbeProofs` | theorems about the module each is named for, in `CloudProofs` about `Discovery` too | the inductive invariant is defined in it; that of `Snapshot` is at the end of `Snapshot` |
| `Collections` | facts about finite sets, lists and recursions over them, for the proofs | extends `Lists` |
| `MCContracts`, and an `MC...` for each module with runs | instances for TLC | |

How they compose: `Scheduler` is built on `Snapshot`, which uses `Diff`; `Cloud`
derives its contracts with `Discovery` and its changes with `Diff`; `Probe`
sends what `Tokens` mints and checks it against what `Agent` says of the same
tokens; `Rotation` takes what a probe run leaves as one record.

Abstractions. A contract graph is a function from StableIDs to consumer
records; a record keeps the fields the differ compares and folds all the others
the hash covers into one field, `metadata`, so that "hash differs, diff is
empty" can happen as it does in the code. The lists of audiences, issuers,
algorithms and claims are sets. Issuers and edges are derived from the
consumers by `Build` and add nothing. SHA-256 is injective. Version IDs are
numbers handed out in order (UUIDs in the code: only their being distinct
matters). `created_at` is true time plus the replica's clock offset, and a tie
in `ORDER BY created_at DESC LIMIT 1` is broken either way. Attribution fills
in a field no property reads and never fails a snapshot.

In `KeySet` a key is its KID and status: key material, algorithm and timestamps
are left out (no operation reads them). A mutation is one step, as `ks.mu` makes
it; `Export` and the save that follows are two, with `persistMu` held from one
to the other. `Import` skips a KID that is present; at its only call site the
key set holds nothing but the key just generated, whose UUID is fresh, so
`Start` appends all that is stored. A save that fails, and one in flight when
the daemon dies, has written or has not; one that is applied only after a later
save is not modelled. Calls that fail their checks (an unknown issuer, KID or
algorithm) change nothing and are left out. `Retire` is part of every adapter
though no handler calls it yet. `outcome` and `settled` are history variables
that only properties read.

In `Rotation` time is a count of units, a JWKS cache is the set of keys it
holds, and a run of the engine leaves one record per consumer: the outcome of
its canary, and whether the claims were probed. The code's limit of 50 results
is therefore a limit of runs (`HistoryLimit`). A canary may fail although the key
is accepted, for a consumer that answers with an error fails it too. The key a
canary was about is kept in the record as a history field: the code has no
such field, and only `trusted` reads it. What a consumer enforces (`Enforced`),
how long it caches (`Period`) and whether it refetches (`Refetches`) are the
world; `RotationAssumption` says that the contract does not lie about it. A
library is a path of names that matches by suffix, and a constraint the set of
versions it admits. Other operators, and promotions against the advice, are
not modelled.

In `Idempotency` a key stands for the method, path and body it is made of, and an
answer is the number of the execution that gave it. A record expires by an
action of its own, and the map notices only when it is asked. A request whose
client gave up goes on with a context that is over, which matters to Postgres
and not to the map.

In `Tokens` a signature is the name of what it was made with, and each probe and
attack names the check it is about. A service is the set of checks it performs,
of the keys it trusts, and of the subjects it refuses with 400 or 403 instead of
401 (`BadRequest`, `Forbidden`); one that accepts answers with 200. A request may
also meet a 500 or no answer (0), and a dry run records -1; other statuses are not
in the model. `AllowedAlgorithm` is looked at before the signature, as the oracle
pins RS256 first. The signature of a padded token is that of the payload before
the `=` was added, so that a service which parses leniently but verifies what came
(`rawInput`) refuses it. Nothing is hosted where `jku` and `x5u` point
(`Hosted`). Rate limits and the timeouts of a request only delay. In `Agent` scopes are names and times are
numbers. The int64 in which a lifetime is computed wraps at `DurationLimit`,
and a time without `iat` is cut off there.

In `Discovery` a document is a record of the fields an adapter reads, values come
trimmed, and StableIDs are tuples of their segments; the form of a StableID for
a bare URL is left out, for no adapter makes one. Provenance is left out, and so
is the library, which no adapter learns. A fleet is what an operator's
configuration adds to the files: one registry for each Keycloak issuer, in their
order, and the live cluster or none. Realm names and client IDs may repeat, for
a client's StableID leaves out the host of its issuer.

In `Cloud` every project is connected to one repository. Private repositories,
the subpath filter, the OAuth exchange and the expiry of tokens are left out. IDs
are random in the code and counted here, so `Restart` starts them over. Two
uploaded paths that flatten to one name leave either file. `seen` of an analysis
(how much was saved when it looked) and `dead` of a request are history.

## 3. Runs

| Run | Instance | What it shows |
|---|---|---|
| `MCSnapshotRace` | two snapshotters, four graphs, both stores, second clock one step behind, 3 snapshots, 2 deploys, 1 failure | the safety properties of the baseline flow under races |
| `MCSnapshotSerial` | one snapshotter, 4 snapshots, 3 deploys | `Snapshot` implements `ContractLog` |
| `MCSnapshotTwoBaselines` | two snapshotters, 2 snapshots | a violation: two baselines |
| `MCKeySet` | one replica, two callers, with and without a store, 3 keys, 2 crashes or failed saves | saves do not race, stored keys are kept, one key signs, calls return |
| `MCKeySetRestart` | one replica, one caller, 1 crash | a violation: another key signs after a restart |
| `MCKeySetReplicas` | two replicas over one store, a caller each | a violation: a stored key is dropped |
| `MCScheduler` | two replicas, one manual caller, two graphs, 3 snapshots, 1 deploy, 1 fault of any kind | leadership, history, paging, takeover |
| `MCRotation` | a consumer with a cache of 3 units and five runs, one with a cache of 2, known by its library only, and one run; freshness 5, history of 4 runs, grace 1 to 4, clock to 6, 3 keys | the grace period suffices, verdicts overlook nothing, the window does not shrink |
| `MCRotationStaleCanary` | the same with two runs for each consumer, clock to 7 | a violation: an outage after following the advice |
| `MCIdempotency` | two nodes, three calls, two keys, both stores, room for one record and two indexed runs, 1 expiry, 1 failure or client that gives up | one execution per node, counted locks, caps, runs found, calls answered |
| `MCProbe` | four consumers (two that omit different checks and refuse differently, one of them unreliable, one outside the allowlist, one down), both modes, dry runs, 2 places, abort after 2, 3 faults | what requests reveal, broken targets let alone, a contained run, nothing cut off stored, and it returns |
| `MCCloud` | two users, two handlers, two projects, two analyses, a repository of two states with a moving branch, sync of at most 2 files; scans of every subset of seven files with three fleets (no registry; one and a live cluster; two with one realm name and a third that is down) and two scopes | tenants, drift, pinned sync, faithful merge |

Properties.

* `BaselineFirst`, `BaselineSilent`: the guarantee that a first run reports no
  wall of changes, against racing first snapshots.
* `EventsExplained`: the events that lead to a version are the whole diff from
  one stored version. It is what remains of "diffs it against the previous
  version" when snapshots overlap.
* `ResultDurable`: the caller is told of nothing that is not stored.
* `NewContractReported`: the shortcut on equal hashes, the order of the two
  saves and races never make a new contract pass silently; a failure between
  the two saves does, and the property says so.
* `ImplementsLog`: without races and failures the store is the abstract log.
* `SingleWhileSessionsHold`, `OneBaselineWhileSessionsHold`, `SerialHistory`:
  what leadership is for. All are conditional on no *live* leader losing its
  session: then the lock is free while the old leader goes on, and the overlap
  is real. Crashes and restarts are not excluded.
* `NotifiedStored`, `ScheduledPaged`: nobody is paged about what is not stored,
  and what a scheduled snapshot finds is delivered unless a failure intervenes.
* `Takeover` (liveness).
* `StoreIsCurrent`: what `persistMu` is for. Callers need not save their own
  change, a later caller's export may hold it already, but when all have
  returned the store holds the key set as it is.
* `KeysNeverDropped`: a stored key stays stored, through saves, failed saves and
  the restarts that load and write back the whole set.
* `SoleSigner`: a promotion leaves one active key however many a restart has
  brought together.
* `CallsReturn` (liveness): neither lock is kept for ever.
* `GraceSuffices`: what a grace period is for. Whatever the order of fetches,
  probes and harness runs, an operator who promotes when the advised time is
  over meets no consumer that refuses the key, as long as the canary results
  were about that key (`trusted`).
* `NothingOverlooked`: the verdicts on the other changes, against what consumers
  do with tokens before and after: what breaks is listed, and what is listed as
  broken breaks.
* `WindowNeverShrinks` (action property): the comment on `measuredWindow`, while
  the history holds the evidence. Beyond that it does shrink, see `hazards`.
* `OncePerNode`, `LocksReferenced`, `CallsAnswered`, `CapHeld`, `RunFound`: what
  the comments in `idempotency.go` and `coordination.go` promise; the count of a
  lock's references is the number of calls between join and release. A key whose
  record expired, was evicted or could not be stored (`lost`) may run again.
* `ExactFindings`: what each probe and each attack can tell. `Openings` says
  which missing checks let a token in. For claims, segments and bearer it is the one
  check the token is about. A forgery with another algorithm (ALG-01, ALG-04,
  HDR-05) is refused by who pins RS256, so that check must be missing too. A
  padded token (ENC-02) reveals a lenient parser only where the signature is not
  taken over the segments as they came. The tokens with `jku` and `x5u` (HDR-01,
  HDR-02) reveal only who looks at no signature: nothing hosts the keys they point
  to, as `harness.go:35-40` and `docs/threat-coverage.md` say. Nothing else is
  recorded as failed but what a probe misreads: it takes a refusal with another
  status than 401 (403 for a claim) for acceptance (`Misread`, `probes.go:93`). The
  property also holds `Agent`'s analysis against an independent statement of what
  is wrong with a token, and the analysis against the corpus.
* `LetAlone`, `Contained`, `NoCutOffResults`, `Returns`: the engine's promises to
  the services it probes and to its caller.
* `ServedToOwner`: no interleaving of deletion, restart and handlers shows an
  analysis to someone else, or of a project already deleted. The answer to an
  upload or a sync, which contains the new analysis, is one of the responses.
* `DriftExplained`: the changes of an analysis are the complete diff from the
  newest analysis its project had when it looked.
* `PinnedSync`: a sync that records a commit read only that commit.
* `MergeFaithful`: `Merge` and `aliasFold` against the relation of shared
  identities they approximate, over every subset of the files of a scan and
  several registries. The clients of one StableID (`Namesakes`) count together,
  for to the code they are one. The comments in `aggregate.go` say more than it
  does, and more than the code does. With two configured Keycloaks whose realms are
  both `main`, the clients `cart` of both become one record, which is folded into
  the service that expects the issuer and audience of one of them: the client of
  the other is in a service with which it shares no issuer, against "at least one
  issuer AND one audience" (`aggregate.go:85-90`). And of two workloads that run
  as one service account, the second joins the first one's record by the account,
  while the record of its own policy, with which it shares its service name, stays
  apart, against "when their identity sets intersect" (`aggregate.go:30-31`).

The bounds. Three snapshots are the least with which a version can be saved
between another snapshot's read and its save while an earlier one is there to
be read; two snapshotters suffice for every pairwise race, and the proofs lift
the number. Two deploys let the contract go away and come back, four graphs
include one that differs only in what the hash sees and one with no consumer.
One fault is enough for each property that is conditional on none, and for
takeover. `CHECK_DEADLOCK FALSE` is set because the bounds stop every run.

Three keys let a restart load a key and a caller announce or promote another;
two failures let a failed save be followed by a crash.

In `MCRotation` a history of four runs with five to save lets the limit drop one;
a freshness of 5 below a clock of 6 lets a canary go stale; windows are measured
from 1 to 5 beside the caches of 3 and 2, so that the floor and the ceiling are
reached; the second consumer has one run, the canary it needs to be ready. In
`MCIdempotency` three calls are two duplicates on one node and a third that is a
duplicate there or on the other node, and a second key is what evicts the first
from a map of one. In `MCProbe` only the first `FaultHorizon` requests of a
consumer may fail, and at most `MaxFaults` in all: the abort rule looks at runs of
failures, and a run can be broken and start again within three. `Cloud` starts
from one commit (`Origins`), since the other is one push away, and has one
handler at a time that only reads (`Alone`), for reads do not see each other.
Its merge is checked on the files themselves: a mesh policy and its workload, a
second workload with the same service account, one known from its environment
only, two gateways of one name, and client registries, two of which have a realm
`main` with clients `cart` and `edge`. Two analyses in all are the
least that can be compared: that a third is compared with the newer of two is not
within the bounds, and is shown by the proof of `DriftExplained` only.

The four violations. `MCSnapshotTwoBaselines` finds the interleaving in which both
snapshotters ask for the baseline before either saves. The migration that
creates the table says "Only one baseline row is expected".
`MCKeySetRestart` announces a key, which saves the whole set, and restarts: the
active key the adapter has just generated stands before the active key that is then
imported, `activeLocked` takes the first, and a key no consumer has seen signs,
where `registry.go` says that canary state
survives a restart. `MCKeySetReplicas` announces one key through each replica:
the second save erases the first key from the row both share, where
`keystore/postgres.go` calls the state durable and consistent across replicas.
`KeysNeverDropped` is therefore claimed, and proved, for one replica only.
`MCRotationStaleCanary` promotes one key, announces the next, and asks again
within a day: the canary that passed was about the first key, the answer says
ready with a short grace period, and after the promotion a consumer that still
caches the old keys refuses tokens. A probe result does not record the key it
was about, so the resolver cannot tell. The whitepaper says that Keyway resolves
"exactly which consumers break" and that the grace window "is *measured*, not
guessed".

## 4. Fairness

`Scheduler!Fairness` assumes that a running replica's ticker keeps firing and a
tick goes on (`time.Ticker`, one goroutine; every call in a tick has a context
or a client timeout), and that Postgres sooner or later notices that the client
of a session is gone. It does not assume that a replica is restarted, that
a session survives or that anything is deployed.

`KeySet!Fairness` assumes that a caller waiting for `persistMu` gets it in the
end even if others keep taking it (strong fairness: Go's mutex hands itself to a
waiter that has starved for a millisecond), and that a save ends, in success
or error (a ten-second context in Postgres, a local file otherwise).

`Idempotency!Fairness` assumes the same of the lock of a key, and that a handler
ends: the server gives it sixty seconds and the probes' requests have timeouts.
`Probe!Fairness` assumes that the loop and each consumer's goroutine go on and a
request ends with its timeout; the switch need not be thrown nor the call be
cancelled. `Rotation` and `Cloud` state no liveness: nothing obliges an operator
to promote or a client to ask again.

## 5. Proofs

Eight modules hold theorems: one for each module with a state machine of its own
(`Snapshot`, `KeySet`, `Idempotency`, `Scheduler`, `Rotation`, `Cloud`, `Probe`),
and `Collections` with the facts about sets and lists they share. Each proves an inductive
invariant, tried with TLC on the instance of a run first, and the properties from
it. The theorems hold for all values of the constants that satisfy the named
assumptions of the module; eight need a hypothesis more, stated in the theorem and
explained below. The steps of an invariant are one lemma per action.

**Snapshots** (`SnapshotProofs`). For any snapshotters, graphs of consumer
records, either store, any clock offsets and bounds: `TypeOK`, `BaselineFirst`,
`BaselineSilent`, `EventsExplained`, `ResultDurable`, `NewContractReported`, and
that two graphs with equal hashes have no difference. The invariant `IInv` adds

* `IDsUnique`: without it the events of two versions could run together;
* `DraftsStored`: past `SaveVersion` a draft is in the store;
* `BaselineAhead`: who reached `latest` did so because a baseline was there,
  and versions are never removed;
* `FoundExplained`: found events join the draft to a version that was stored
  when it was read and, stored versions being immutable, still is;
* `EventsJoin`: the same of stored events, and that no event leads to a version
  whose events are still to be saved.

`NewContractReported` needs `SilenceExplained` besides (a draft that reports
nothing repeats a stored contract), which rests on `SameHashNoChange`. The differ
has two theorems of its own. `SilenceIsAgreement`: it reports nothing exactly when
the graphs have the same consumers and these agree on every field it compares.
`ChangesReplay`: applied to the older graph, its changes give the consumers of the
newer and each list of what they expect. Agreement is not transitive, for a
`refresh` or a cache TTL that was not learnt agrees with any (`diff.go:81-101`): a
behaviour that is learnt, lost and learnt again with another value is never
reported.

`SerialImplementsLog` is the refinement: with one snapshotter and no failure
(`Serial`, the hypothesis; with races the promise of `ContractLog` is false),
`Spec` implements `Log!Spec`. `InSequence` says that versions are stamped in the
order they are saved, so that the latest is the last in Postgres as in
memory (`LastIsLatest`), and that
what was found is the difference from the version saved last. `LogIs` computes
the log of the mapping, `LogStep` shows that `SaveVersion` without changes and
`SaveEvents` are its records and every other action a stutter.

**Signing keys** (`KeySetProofs`). Type correctness and `SoleSigner` for any
number of replicas and callers, and `StoreIsCurrent` and `KeysNeverDropped` for
any number of callers of one replica (`Alone`; with two they are false, see
`MCKeySetReplicas`). `SoleSigner` rests on `AllNumbered`: a promotion makes
active every key with the KID it was given, which is one only because no list
holds a KID twice. The other two share `StoreInv`: `OneSaver` and `AtWork` (who
saves holds `persistMu`, and works in a running replica that has a store),
`CopyIsCurrent` (the copy being saved is the key set, unless a caller has changed
it since, and then that caller still waits to save) and `KeysKept` (stored keys
are in the copy, and copied keys in memory).

**Idempotent replay** (`IdempotencyProofs`). Type correctness, `LocksReferenced`,
`OncePerNode`, `CapHeld` and `RunFound` for any nodes, calls, keys, caps and
stores, and `OneCallInside`: no two calls of a node and a key are between lock and
unlock. `IInv` consists of `LockInv` (two keys share no lock, a call in the map's
care counts on the lock the map has, `refs` is the number of such calls, the
holder is the one inside), `OnceInv` (who executes found no answer and nobody is
ahead of it, the answer of an execution is found or about to be stored; all for
keys that are not `lost`) and `IndexInv` (the index lists the last executions of
its node in order).

**Scheduler** (`SchedulerProofs`). `SInv` takes `IInv` into the composition
(`SnapshotsStaySafe`: crashes and lost sessions only add ways to cut a snapshot
short) and adds `Working` (a scheduler's snapshot lies inside its tick),
`DraftsTriggered`, `LeaderHolds` (while no session is lost, who is in a tick holds
the connection that holds the lock), `BaselineOnce` and `PagedOrDue`. From it
follow `SingleWhileSessionsHold`, `OneBaselineWhileSessionsHold`,
`NotifiedStored` and `ScheduledPaged`. `SerialHistory` needs the order of
`created_at` besides, and the hypothesis `ClocksAgree`: a new leader whose clock is
behind would be handed an older version as the latest. The run has equal clocks
for the same reason; leadership alone does not give the property.

**Grace period** (`RotationProofs`). `RInv`: caches hold only published keys and
are refetched within their period, histories are ordered in time, a passed
canary stays true, and whoever fetched since the advice holds the announced key.
`GraceSuffices` follows with `AdviceCovers`: the advised time is more than the
period of every consumer that has not been seen to accept the key. Its hypothesis
`PeriodsCovered` says that no cache lasts as long as `GraceCeiling`, at which the
code caps the advice whatever it measured, and that none is as short as the unit
of time unless the floor is longer. `WindowNeverShrinks` is an action property:
one run more adds to the gaps between a failed and the next passed canary and
removes none, so the largest cannot fall; `Collections` supplies that a
largest exists. `NothingOverlooked` is proved for any contracts and histories and for
proposals that name an issuer and what they change (`ProposalsConcrete`, as the
run's do): a change of issuer with an empty URL is about nobody.

**Probe engine** (`ProbeProofs`). `PInv`: the loop takes the consumers in order,
each result belongs to a request of the plan, the failures counted by the engine
and those a consumer has really had in a row differ by at most the uncounted
baseline, the busy goroutines fit the semaphore, and nothing is stored before the
run is over. `Contained`, `LetAlone` and `NoCutOffResults` follow, for any
consumers, plans, limits and faults.

`ExactFindings` is proved in three parts. `AllAnswered`, inductive beside `PInv`,
says that a recorded answer is what that consumer's service makes (`Judged`) of
that very request of its plan. `PlansAreExact` says that every token of a plan or
of a corpus is `Exact`: let in if and only if one of the `Openings` of the check the
token is about is missing. It goes from the claims (`ClaimsAre`: a change to one claim
fails one check) to the tokens (`TokensAreExact`), and `PlansAreLong` and
`CorporaAreLong` show that nothing but those tokens is ever sent. `InspectionsGate`
and `InspectionsAgree` are about the inspection of tokens: findings grow with the
strictness of the policy, and those about the audience are the tokens of the
corpus that are. The hypotheses are `WellDescribed` and `WellFormedInputs`, which
TLC evaluates on the instance of the run (`MCProbeAssumption`). They exclude a
consumer without audiences (its audience is not checked at all) or one that
requires `exp`, `iss` or `aud` as a claim, a service that does not trust the
active key, a consumer that owns a value made up to be wrong, and a policy with the
longest lifetime an int64 of nanoseconds can hold.

**Cloud service** (`CloudProofs`). `CInv`: types, IDs used once (`Numbered`), a
project that is not deleted keeps its analyses (`LiveKept`), and what each
analysis and each handler's local state may say of the store (`AllRooted`,
`AllFit`), weakened exactly where a deletion has overtaken it. `PinnedSync`,
`DriftExplained` and `ServedToOwner` follow, for any users, projects, handlers and
repositories of finitely many files.

**Discovery** (`CloudProofs`, its second half). `MergeIsFaithful` is about `Merge`
on any list of consumers, in any order, and has four parts: nothing found is lost,
nothing is made up, the StableIDs of the records are distinct, and two consumers
share a record exactly when their identities meet, wherever meeting is transitive.
The argument follows the two loops of `aggregate.go`. After each consumer the
records are `Sound`: every identity of a record leads to a record that has it and
nothing else leads anywhere, each record is `Backed` by consumers found under its
identities, and each consumer seen is held by a record with all its identities.
`StepIs` says that a step either begins a record, none of the identities being
known, or extends one that has an identity in common; `Sound` is kept by both.
Where meeting is transitive the records are `Separate` as well: no two share an
identity. That is not kept otherwise: a consumer that meets two records joins the
first and leaves the second as it is (`aggregate.go:43-49`). `aliasFold` then
keeps `Folded`: each record has only gained, and only from records of clients that
share an issuer and an audience with it (`DroppedIs`), so that leaving the folded clients
out loses nothing.

`MergeStaysFaithful` carries this to every scan. One lemma per adapter
(`AssembleIs`, `KubernetesIs`, `EnvoyIs`, `ClientRegistryIs`) shows that what it
makes of documents is fit to be merged (`WellFound`): all fields are there, a
confidence the differ reads is positive, and no StableID or alias of the mesh reads
like a client's. `CloudAssumption` asks for documents and registries as the parsers
hand them over (`WellFormedDocs`, `WellFormedFleet`: what an adapter ranges over is
a list). The number of registries, their realms' names and their clients' IDs are
free: clients of one StableID are one record before `aliasFold` looks at it, and
`ClientsStandAlone` and `DroppedIs` say of them together what an issuer and an
audience in common decide.

The assumptions on constants are typing and what the code checks or guarantees:
`GraphsAssumption` (graphs hold consumer records), `IdempotencyAssumption` (there is
a node and a key), `RotationAssumption` (a contract does not lie about what a
consumer does; the floor is below the ceiling), `ProbeAssumption` (the consumers of
the stored contract have distinct StableIDs; limits are positive; a consumer that
is down is not also one that fails now and then) and `CloudAssumption` (commits are
finite sets of files, documents and fleets are as above).

What the proofs found in the models: several `CASE`s of `Diff`, `Rotation` and
`Probe` had guards that overlap, of which TLC takes the first and TLA+ any; they
are chains of `IF` now, as the `if` and `switch` of the code are. The types of the
call states and of the history records had been left open. The claims of `Tokens`
were built with `:>` and `@@`, which the provers do not know, and are plain
functions now. `Discovery` used folds and `SelectSeq`, which they do not know
either: its loops are recursive functions now (`UnionAll`, `Among`, `Joined`,
`AliasFold`). `Recursion` shows that such a function exists, and `Induction`, about
the set of indices a fact holds of, what it computes; both rest on the least
element of a set of numbers, so no theorem with an operator for a parameter is
needed.

What they found in the code: exactness needs the required claims to be others than
`exp`, `iss` and `aud`. The probe that leaves a required claim out would fail a
second check (`probes.go:216-226`), and in the corpus the placeholder for the claim
takes the place of its standard value (`generators.go:35-37`), so that a sound
service refuses even the control.

Only model-checked:

* liveness (`Takeover`, `CallsReturn`, `CallsAnswered`, `Returns`), which is out
  of the prover's reach, as is `ENABLED`;
* the four violations, which are counterexamples.

## 6. Plan

The models of the plan are written, and every safety invariant and every action
property of the passing runs is proved. What could follow:

1. A refinement for the key sets: one replica with its store implements a single
   list of keys that is durable once a call has returned.
2. The local mode of `keyway cloud analyze` as a module (see section 7).

## 7. Not modelled

Attribution (best-effort enrichment of an event before it is saved, I/O against
git, Kubernetes and Keycloak), the threat catalogue (static data), manifest
detection of libraries (called by nobody in the daemon), JOSE and encryption,
OIDC discovery, the OAuth exchange with GitHub, YAML itself, authentication of
the daemon's API, metrics and health checks, the output and flags of the CLI,
configuration, web UI, playground and benchmark. Most of these are formatting,
static data or the network; none keeps state that another part depends on.

`keyway cloud analyze` in its local mode, with a baseline file that is written
before the gate fails the build, is a sequence of two commands over one file and
has no module; `hazards` lists it.
