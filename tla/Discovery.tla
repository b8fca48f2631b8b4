------------------------------ MODULE Discovery ------------------------------
(***************************************************************************)
(* What discovery makes of the documents it finds (internal/discovery):    *)
(* the consumers each source derives, their identities, and the merge of   *)
(* all sources into one inventory, from which a contract graph is built.   *)
(*                                                                         *)
(* A document is a record with the fields the adapters read; a field left  *)
(* out of the document is "" or empty, as after yaml.Unmarshal.  Lists     *)
(* whose order the code depends on are sequences without duplicates, and   *)
(* StableIDs are tuples of their segments.  Provenance and wording are     *)
(* left out; values come trimmed.                                          *)
(***************************************************************************)
EXTENDS Diff, Lists, TLC

NoLabels == <<>>

-----------------------------------------------------------------------------
(* Small helpers every adapter has a copy of. *)

FirstNonEmpty(value, default) == IF value = "" THEN default ELSE value

NsOrDefault(ns) == FirstNonEmpty(ns, "default")

Label(labels, key) == IF key \in DOMAIN labels THEN labels[key] ELSE ""

(* The first of the keys that labels give a value to, or the default. *)
FirstLabel(labels, keys, default) ==
    LET given == Among(keys, {k \in ToSet(keys) : Label(labels, k) # ""})
    IN  IF given = <<>> THEN default ELSE labels[given[1]]

WorkloadName(labels, name) ==
    FirstLabel(labels, <<"app", "app.kubernetes.io/name", "istio", "k8s-app">>, name)

OwnerTeam(labels) ==
    FirstLabel(labels, <<"team", "owner", "app.kubernetes.io/part-of">>, "")

InScope(scope, ns) == scope.namespaces = {} \/ NsOrDefault(ns) \in scope.namespaces

(* StableID: the service account, else the service, else the route. *)
StableID(parts) ==
    CASE parts.account # "" -> <<"k8s", FirstNonEmpty(parts.cluster, "local"), parts.ns, parts.account>>
      [] parts.account = "" /\ parts.service # "" ->
             <<"k8s", FirstNonEmpty(parts.cluster, "local"), parts.ns, parts.service>>
      [] OTHER -> <<"route", parts.gateway, parts.route>>

ServiceID(scope, ns, account, service) ==
    StableID([cluster |-> scope.cluster, ns |-> ns, account |-> account, service |-> service])

RouteID(gateway, route) ==
    StableID([account |-> "", service |-> "", gateway |-> gateway, route |-> route])

(* A consumer of which nothing but its identity is known yet. *)
Bare(id, kind, name, ns) ==
    [id |-> id, aliases |-> <<>>, kind |-> kind, name |-> name, ns |-> ns, owner |-> "",
     endpoints |-> {}, issuers |-> <<>>, audiences |-> <<>>, claims |-> {}, cacheTTL |-> NoTTL,
     jwksURI |-> "", confidence |-> <<>>, probeable |-> FALSE]

Declared == [field \in {FieldIssuers, FieldAudiences, "overall"} |-> 100]

OfKind(docs, kinds) == Among(docs, {d \in ToSet(docs) : d.kind \in kinds})

-----------------------------------------------------------------------------
(* Istio: RequestAuthentications, with the claims AuthorizationPolicies     *)
(* require.  A claim's key is the tuple of its segments.                   *)

RequiredClaims(policy) ==
    {key[2] : key \in {k \in UNION {ToSet(rule) : rule \in ToSet(policy.rules)} :
                           Len(k) > 1 /\ k[1] = "request.auth.claims" /\ k[2] # ""}}

(* Where a policy applies: the workload it selects, or its namespace. *)
Applies(policy, c) ==
    /\ NsOrDefault(policy.ns) = c.ns
    /\ policy.selector = NoLabels \/ WorkloadName(policy.selector, policy.name) = c.name

RequestAuthenticationConsumer(ra, scope) ==
    LET ns   == NsOrDefault(ra.ns)
        name == WorkloadName(ra.selector, ra.name)
        uris == NonEmpty([i \in DOMAIN ra.rules |-> ra.rules[i].jwksURI])
        issuers   == NonEmpty([i \in DOMAIN ra.rules |-> ra.rules[i].issuer])
        audiences == NonEmpty(FlattenSeq([i \in DOMAIN ra.rules |-> ra.rules[i].audiences]))
    IN  [Bare(ServiceID(scope, ns, "", name), "service", name, ns) EXCEPT
            !.owner      = OwnerTeam(ra.labels),
            !.issuers    = UnionAll(<<>>, issuers),
            !.audiences  = UnionAll(<<>>, audiences),
            !.jwksURI    = IF uris = <<>> THEN "" ELSE uris[1],
            !.confidence = Declared,
            !.probeable  = TRUE]

(* assemble, shared by manifests and the live cluster. *)
Assemble(docs, scope) ==
    LET found    == OfKind(docs, {"RequestAuthentication"})
        ras      == Among(found, {r \in ToSet(found) : r.rules # <<>> /\ InScope(scope, r.ns)})
        policies == {p \in ToSet(OfKind(docs, {"AuthorizationPolicy"})) : InScope(scope, p.ns)}
        Require(c) ==
            LET claims == UNION {RequiredClaims(p) : p \in {q \in policies : Applies(q, c)}}
            IN  IF claims = {} THEN c
                ELSE [c EXCEPT !.claims = claims,
                               !.confidence = [f \in DOMAIN @ \cup {FieldRequiredClaims} |->
                                                  IF f = FieldRequiredClaims THEN 100 ELSE @[f]]]
    IN  [i \in 1..Len(ras) |-> Require(RequestAuthenticationConsumer(ras[i], scope))]

Istio(docs, scope) == Assemble(docs, scope)

(* The same resources listed from the API server of a cluster. *)
InCluster(cluster, scope) == Assemble(cluster.docs, scope)

-----------------------------------------------------------------------------
(* Kubernetes: workloads, the Service in front of each, projected tokens   *)
(* and environment hints.                                                  *)

Workloads == {"Deployment", "StatefulSet", "DaemonSet"}

EnvHints(workload, role) ==
    LET hints == Among(workload.env, {e \in ToSet(workload.env) : e.role = role})
    IN  UnionAll(<<>>, NonEmpty([i \in DOMAIN hints |-> hints[i].value]))

(* The first Service of the namespace whose selector the pod matches. *)
MatchService(docs, ns, podLabels) ==
    LET services == OfKind(docs, {"Service"})
    IN  Among(services, {s \in ToSet(services) :
            /\ s.ns = ns \/ (s.ns = "" /\ ns = "default")
            /\ s.selector # NoLabels
            /\ \A k \in DOMAIN s.selector : Label(podLabels, k) = s.selector[k]})

ServiceEndpoints(service, ns) ==
    IF service.ports = {} THEN {<<service.name, ns>>}
    ELSE {<<service.name, ns, port>> : port \in service.ports}

ProjectedAudience(w) == w.projected

(* The service account proves who a workload is with a projected token only. *)
ProvenAccount(w) == IF ProjectedAudience(w) # "" THEN w.account ELSE ""

WorkloadConfidence(w, hints) ==
    CASE ProjectedAudience(w) # "" -> 100
      [] ProjectedAudience(w) = "" /\ hints # <<>> -> 50
      [] OTHER -> 0

WorkloadConsumer(w, docs, scope) ==
    LET ns        == NsOrDefault(w.ns)
        podLabels == w.podLabels @@ w.labels
        hinted    == EnvHints(w, "AUDIENCE")
        issuers   == EnvHints(w, "ISSUER")
        matched   == MatchService(docs, ns, podLabels)
        service   == IF matched = <<>> THEN w.name ELSE matched[1].name
        account   == ProvenAccount(w)
        id        == ServiceID(scope, ns, account, service)
        serviceID == ServiceID(scope, ns, "", service)
        endpoints == IF matched = <<>> THEN {} ELSE ServiceEndpoints(matched[1], ns)
    IN  [Bare(id, "service", service, ns) EXCEPT
            !.aliases    = IF account # "" /\ serviceID # id THEN <<serviceID>> ELSE <<>>,
            !.owner      = OwnerTeam(podLabels),
            !.endpoints  = endpoints,
            !.issuers    = issuers,
            !.audiences  = IF ProjectedAudience(w) = "" THEN hinted
                           ELSE AppendUnique(hinted, ProjectedAudience(w)),
            !.confidence = [overall |-> WorkloadConfidence(w, issuers \o hinted)],
            !.probeable  = endpoints # {}]

Kubernetes(docs, scope) ==
    LET all   == OfKind(docs, Workloads)
        found == Among(all, {w \in ToSet(all) : InScope(scope, w.ns)})
    IN  [i \in 1..Len(found) |-> WorkloadConsumer(found[i], docs, scope)]

-----------------------------------------------------------------------------
(* Envoy: the providers of each document, sorted by name, the first         *)
(* definition of a name being kept.                                        *)

FindProviders(doc) ==
    LET valid  == Among(doc.providers, {p \in ToSet(doc.providers) : p.issuer # ""})
        Firsts == {i \in DOMAIN valid : \A j \in 1..(i - 1) : valid[j].name # valid[i].name}
    IN  UnionAll(<<>>, Among(valid, {valid[i] : i \in Firsts}))

ProviderConsumer(p, scope) ==
    [Bare(RouteID("envoy", p.name), "gateway_route", p.name, scope.cluster) EXCEPT
        !.issuers    = <<p.issuer>>,
        !.audiences  = NonEmpty(p.audiences),
        !.cacheTTL   = p.cacheTTL,
        !.jwksURI    = p.jwksURI,
        !.confidence = Declared,
        !.probeable  = TRUE]

Envoy(docs, scope) ==
    LET configs == OfKind(docs, {"Envoy"})
        found   == FlattenSeq([i \in 1..Len(configs) |-> FindProviders(configs[i])])
    IN  [i \in 1..Len(found) |-> ProviderConsumer(found[i], scope)]

-----------------------------------------------------------------------------
(* The clients of a Keycloak realm; the host is no part of their StableID. *)

Plumbing == {"admin-cli", "account", "account-console", "security-admin-console",
             "broker", "realm-management"}

ValidatesTokens(client) ==
    /\ client.protocol \in {"", "openid-connect"}
    /\ client.enabled
    /\ client.id \notin Plumbing

ClientConsumer(client, registry) ==
    LET declared == UnionAll(<<>>, NonEmpty(client.mapped))
    IN  [Bare(<<"oidc", registry.realm, client.id>>, IF client.public THEN "client" ELSE "service",
              client.id, registry.realm) EXCEPT
            !.issuers    = <<registry.issuer>>,
            !.audiences  = IF client.public THEN declared ELSE AppendUnique(declared, client.id),
            !.confidence = [overall |-> 90],
            !.probeable  = ~client.public]

ClientRegistry(registry) ==
    LET valid == Among(registry.clients, {c \in ToSet(registry.clients) : ValidatesTokens(c)})
    IN  [i \in 1..Len(valid) |-> ClientConsumer(valid[i], registry)]

-----------------------------------------------------------------------------
(***************************************************************************)
(* What the parsers hand over: lists where the adapters range over one.    *)
(* Nothing keeps two registries from having a realm of one name.           *)
(***************************************************************************)

WellFormed(d) ==
    /\ d.kind = "RequestAuthentication" =>
          IsList(d.rules) /\ \A r \in ToSet(d.rules) : IsList(r.audiences)
    /\ d.kind \in Workloads => IsList(d.env)
    /\ d.kind = "Envoy" =>
          IsList(d.providers) /\ \A p \in ToSet(d.providers) : IsList(p.audiences)

WellFormedDocs(docs) == IsList(docs) /\ \A d \in ToSet(docs) : WellFormed(d)

WellFormedRegistry(registry) ==
    IsList(registry.clients) /\ \A c \in ToSet(registry.clients) : IsList(c.mapped)

WellFormedFleet(fleet) ==
    /\ IsList(fleet.registries) /\ IsList(fleet.clusters)
    /\ \A r \in ToSet(fleet.registries) : r.up => WellFormedRegistry(r)
    /\ \A c \in ToSet(fleet.clusters) : c.up => WellFormedDocs(c.docs)

-----------------------------------------------------------------------------
(* Merge and its helpers. *)

MergeConfidence(a, b) ==
    LET Of(f, k) == IF k \in DOMAIN f THEN f[k] ELSE 0
    IN  [k \in DOMAIN a \cup {j \in DOMAIN b : b[j] > 0} |->
            IF Of(b, k) > Of(a, k) THEN b[k] ELSE Of(a, k)]

MergeConsumers(a, b) ==
    LET others == IF b.id = a.id THEN b.aliases ELSE AppendUnique(b.aliases, b.id)
    IN  [a EXCEPT !.name       = FirstNonEmpty(a.name, b.name),
                  !.ns         = FirstNonEmpty(a.ns, b.ns),
                  !.owner      = FirstNonEmpty(a.owner, b.owner),
                  !.aliases    = UnionAll(a.aliases, others),
                  !.issuers    = UnionAll(a.issuers, b.issuers),
                  !.audiences  = UnionAll(a.audiences, b.audiences),
                  !.claims     = a.claims \cup b.claims,
                  !.endpoints  = a.endpoints \cup b.endpoints,
                  !.cacheTTL   = IF a.cacheTTL = NoTTL THEN b.cacheTTL ELSE a.cacheTTL,
                  !.confidence = MergeConfidence(a.confidence, b.confidence),
                  !.probeable  = a.probeable \/ b.probeable]

(* A plausible bug: the aliases are not looked at. *)
OwnIdentity(c) == <<c.id>>

IdentityKeys(c) == UnionAll(<<c.id>>, c.aliases)

(* One consumer joins the record one of its identities leads to, the first *)
(* that leads anywhere, or starts a record of its own.                     *)
MergeStep(acc, c) ==
    LET known  == Among(IdentityKeys(c), DOMAIN acc.canon)
        target == IF known = <<>> THEN c.id ELSE acc.canon[known[1]]
        merged == IF known = <<>> THEN c ELSE MergeConsumers(acc.byID[target], c)
    IN  [order |-> IF known = <<>> THEN Append(acc.order, c.id) ELSE acc.order,
         byID  |-> [t \in DOMAIN acc.byID \cup {target} |->
                       IF t = target THEN merged ELSE acc.byID[t]],
         canon |-> [k \in DOMAIN acc.canon \cup ToSet(IdentityKeys(merged)) |->
                       IF k \in DOMAIN acc.canon THEN acc.canon[k] ELSE target]]

(* Every source's consumers in turn; the records, in the order they began. *)
Joined(found) ==
    LET acc[i \in 0..Len(found)] == IF i = 0 THEN [order |-> <<>>, byID |-> <<>>, canon |-> <<>>]
                                    ELSE MergeStep(acc[i - 1], found[i])
        all == acc[Len(found)]
    IN  [i \in 1..Len(all.order) |-> all.byID[all.order[i]]]

IsOIDC(c) == c.id[1] = "oidc"

Pairs(c) ==
    FlattenSeq([i \in 1..Len(c.issuers) |->
                  [j \in 1..Len(c.audiences) |-> <<c.issuers[i], c.audiences[j]>>]])

(* The mesh consumers with a pair, and the pairs a record shares with one. *)
MeshWith(cs, pair) == {i \in DOMAIN cs : ~IsOIDC(cs[i]) /\ Contains(Pairs(cs[i]), pair)}

Shared(cs, c) == Among(Pairs(c), {p \in ToSet(Pairs(c)) : MeshWith(cs, p) # {}})

Dropped(cs, c) == IsOIDC(c) /\ Shared(cs, c) # <<>>

(* A registry client joins the last mesh consumer with its first such pair. *)
FoldInto(cs, list, c) ==
    IF ~Dropped(cs, c) THEN list
    ELSE [list EXCEPT ![Max(MeshWith(cs, Shared(cs, c)[1]))] = MergeConsumers(@, c)]

(* aliasFold: clients known to the mesh are records of it, not of their own. *)
AliasFold(cs) ==
    LET list[i \in 0..Len(cs)] == IF i = 0 THEN cs ELSE FoldInto(cs, list[i - 1], cs[i])
        folded == list[Len(cs)]
    IN  Among(folded, {c \in ToSet(folded) : ~Dropped(cs, c)})

Merge(found) == AliasFold(Joined(found))

-----------------------------------------------------------------------------
(* Run, and the contract graph built of its result. *)

(* The sources, in their order: the files; one registry per Keycloak       *)
(* issuer of the configuration; a live cluster, if it was asked for.       *)
DefaultDiscoverers == <<[kind |-> "istio"], [kind |-> "k8s"], [kind |-> "envoy"]>>

ConfigDiscoverers(registries) ==
    [i \in 1..Len(registries) |-> [kind |-> "registry", at |-> registries[i]]]

InClusterDiscoverers(clusters) ==
    [i \in 1..Len(clusters) |-> [kind |-> "cluster", at |-> clusters[i]]]

AllDiscoverers(fleet) ==
    DefaultDiscoverers \o ConfigDiscoverers(fleet.registries) \o InClusterDiscoverers(fleet.clusters)

(* File sources fail on a document that does not parse, the others when    *)
(* nobody answers.                                                         *)
SourceFails(source, docs) ==
    IF source.kind \in {"registry", "cluster"} THEN ~source.at.up
    ELSE \E d \in ToSet(docs) : d.kind = "Unparsable"

Discover(source, docs, scope) ==
    CASE SourceFails(source, docs) -> <<>>
      [] ~SourceFails(source, docs) /\ source.kind = "istio"    -> Istio(docs, scope)
      [] ~SourceFails(source, docs) /\ source.kind = "k8s"      -> Kubernetes(docs, scope)
      [] ~SourceFails(source, docs) /\ source.kind = "envoy"    -> Envoy(docs, scope)
      [] ~SourceFails(source, docs) /\ source.kind = "registry" -> ClientRegistry(source.at)
      [] ~SourceFails(source, docs) /\ source.kind = "cluster"  -> InCluster(source.at, scope)

FoundBy(sources, docs, scope) ==
    FlattenSeq([i \in 1..Len(sources) |-> Discover(sources[i], docs, scope)])

Run(sources, docs, scope) ==
    [consumers |-> Merge(FoundBy(sources, docs, scope)),
     err       |-> \E i \in 1..Len(sources) : SourceFails(sources[i], docs)]

ConfidenceFor(c, field) ==
    CASE field \in DOMAIN c.confidence -> c.confidence[field]
      [] field \notin DOMAIN c.confidence /\ "overall" \in DOMAIN c.confidence -> c.confidence["overall"]
      [] OTHER -> 100

(* The record the differ compares; no adapter learns algorithms, a clock   *)
(* skew, a library or how an unknown key is met.                           *)
Compared(c) ==
    [audiences |-> ToSet(c.audiences), issuers |-> ToSet(c.issuers), algorithms |-> {},
     requiredClaims |-> c.claims, clockSkew |-> 0, refresh |-> NotKnown, cacheTTL |-> c.cacheTTL,
     metadata |-> <<c.kind, c.name, c.ns, c.owner, c.endpoints, c.jwksURI, c.probeable>>,
     doubtful |-> {f \in Fields : ConfidenceFor(c, f) < 60}]

(* Build: the graph by StableID; its edges follow from the issuers. *)
Graph(consumers) ==
    LET ids == {c.id : c \in ToSet(consumers)}
    IN  [id \in ids |-> Compared(CHOOSE c \in ToSet(consumers) : c.id = id)]
=============================================================================
